# A verification development for qemu-nc

qemu-nc (`x64nc`) lets a program that QEMU's user-mode emulator runs for one
instruction set call *native* libraries of the host's instruction set. A guest
library ("guest delegate") with the interface of the original forwards each call
through a magic system call to a "host delegate", which calls the native
library; native code calls back into guest code through signature-keyed thunks.
This directory holds TLA+ modules of the parts of that system, TLC
configurations, and TLAPS proofs. `PROJECT.json` lists components, runs, mutants,
the definition-to-source map, hazards and theorems.

## Inventory

| Component (source) | State | Operations | Hard behaviour | What makes it correct |
|---|---|---|---|---|
| Native call serve loop (`src/guestrt/guestapi_proc.c`) | guest frames with `next_call`, `thread_info` on the creator's stack | call, callback, create, exit, resume, ThreadEntry | nesting, creator/created handshake, resume without identity | LIFO pairing, answers before resumption, handshake neither dangling nor stuck |
| Host runtime, threads (`src/hostrt/hostapi.cpp`) | the translator's last thread id | pthread_create / pthread_exit wrappers | id read after others created threads; exit must not return | never an older id, exit is final |
| Host runtime, registry and mappings (`src/hostrt/hostapi.cpp`) | thunk registry, six path indexes | AddCallbackThunk, LookUpCallbackThunk, SearchLibrary, mapping-file load | last writer wins, never removed; basename collisions | thunks found are alive; routes agree |
| Delegates (`scripts/delegen_resources/*.c`, code injected by `scripts/cfiadd.py`) | load state, resolved pointers, cached thunks | constructors, destructors | load and unload order over two loaders, abort midway | a cached thunk's library is loaded |
| Native-to-guest symbols (`src/guestrt/guestapi_extra.c`, `guestapi_loadapi.c`) | one static path buffer for all threads, the guest libraries loaded | x64nc_GetProcAddress_N2G | a second thread between the real path and its search; a real path that cannot be had | alone, the symbol of the guest library that stands for the caller's own; never a file that the mapping does not name |
| Call-guard rewriter (`scripts/cfiadd.py`) | token list, guards by spelling | rewrite of call sites, start-up code | nested calls, stale columns, calls without prototype | each call site replaced once; each guard's thunk is there and reads what the call passes |
| Delegate generator (`scripts/delegen.py`, `scripts/python/*.py`) | reachable types, signatures, an output directory | scan_types, thunk generation, six kinds of files written one after the other | recursion through record types, merged spellings, a run killed between two files | every type reached, arguments arrive, a Makefile only beside whole files |
| Interface statistics (`scripts/ncifilter.py`, `ncistat.py`, `ncicol.py`) | the list of packages, per-record cache, a file per library | package filter, is_fp_record, variadic functions, csv | sets and dpkg's listings in any order, cached results inside cyclic types, a run broken off | a row per usable package, no false alarm, files whole or cut off |
| Compile drivers (`scripts/cfiadd_cc.py`, `scripts/split_cc.py`) | work lists | rewrite and compile, partition | partial failure, division remainders | every command exactly once |
| String scanner (`src/guestrt/guestapi_variadic.c`) | buffer window, limit, conversion under way | shgetc, shunget, shlim, ffintscan, ff_vfscanf | refill, push-back at limits, overflow | parses as the reference definition |
| json11 (`src/hostrt/json11.*`) | - | parse, dump | vendored library | not ours |
| External: QEMU translator, ld.so, pthreads, libclang | open native calls per thread, loader reference counts | CallNativeProc, ResumeNativeProc, dlopen | - | modelled from use |

How they interact: a guest delegate's constructor registers thunks with the host
runtime and loads the host delegate, whose constructor loads the native library,
whose constructor looks thunks up in the host runtime. From then on a call in a
guest delegate enters the serve loop, and native code comes back through a thunk
or through the host runtime's thread wrappers as a request to the serve loop.
The scripts are run once, before all that, and decide which thunks a delegate
registers (`delegen.py`) and which calls a native library guards (`cfiadd.py`);
the statistics only inform whoever writes the lists. Nothing in the repository
calls the string scanner yet.

## Modules

| Module | Models | Composed of / with |
|---|---|---|
| `NativeCall` | serve loop, `ThreadEntry`, the host's thread wrappers, and, external, the translator and pthreads | implements `CrossCall` (refinement mapping at its end) |
| `CrossCall` | abstract: native calls as procedure calls of a thread, creation as a hand-over | - |
| `Delegates` | constructors and destructors of guest delegate, host delegate and native library; the thunk registry; the two loaders as their users need them | - |
| `LibraryIndex` | the mapping file's reading and the six indexes | - |
| `CfiRewrite` | the rewriting of one file's calls, text as lines of tokens | extended by `Batch` |
| `SplitCommands` | the cut of the command list into parts | extended by `Batch` |
| `Batch` | split, then per command: expand, rewrite, move, fail, re-run | `CfiRewrite`, `SplitCommands` |
| `NativeSymbols` | x64nc_GetProcAddress_N2G by several threads, the shared buffer, and, external, the guest's loader | extends `LibraryIndex` |
| `TypeScan` | `scan_types` over a graph of types, the wanted functions, the list of callback signatures | extended by `Delegen` |
| `Delegen` | what delegen.py writes: argument arrays of both delegates, thunks, the callbacks file; the files in their order, over those of earlier or killed runs | `TypeScan`; extended by `GuardThunks` |
| `GuardThunks` | which calls of a native library cfiadd.py guards, with which spelling; the look-up at load time | `Delegen` |
| `FpRecords` | the recursive search for function pointers with its memory | extended by `Statistics` |
| `Statistics` | the run over a list of libraries with its files, a crash, the table | `FpRecords`; extended by `PackageFilter` |
| `PackageFilter` | ncifilter.py before it: packages, dpkg's files, flags, headers that compile, the list | `Statistics` |
| `FFFile` | the buffered reader, pointers as indexes into the text | extended by `Scanf`, implements `Stream` |
| `Stream` | abstract: a text read character by character under a limit | - |
| `Scanf` | `ff_vfscanf` and `ffintscan`, one reader call per step | `FFFile` |
| `FloatScan` | `fffloatscan`, `decfloat`, `hexfloat` and `scanexp`: words, digits, point, exponent, range | extends `Scanf` |
| `ScanfMeaning` | definitions by which scans are judged: a fold over the format, numerals by grammar | extends `FloatScan` |
| `MC*` | values of the constants for TLC | |
| `NativeCallProofs` | theorems about `NativeCall`: the handshake, the nesting of calls, the refinement of `CrossCall` | extends `NativeCall` |
| `FlattenProofs` | lemmas about `FlattenSeq` and least numbers | extended by `BatchProofs`, `StatisticsProofs` |
| `DelegatesProofs`, `LibraryIndexProofs`, `BatchProofs`, `DelegenProofs`, `StatisticsProofs`, `ScanfProofs` | theorems about `Delegates`, `NativeSymbols`, `Batch`, `GuardThunks`, `PackageFilter`, `Scanf`, each with the modules it extends | |

### How state and actions correspond to the code

*NativeCall.* `pc[t]` is where a thread stands between two things another thread
can observe: a trap, a lock operation, a read of shared memory. `next` is the
`next_call` buffer of each `NativeCallServe` frame, named by its slot (thread and
depth), `native` the translator's stack of open calls per thread, `info` the
`thread_info` on a creator's stack. Each case of the loop's switch and each
statement of the create case that locks, waits or destroys is an action;
a callback's body is any sequence of further native calls.

*Delegates.* `phase` is how far a guest delegate's constructor is: each of its
four calls that can fail is an action, with the abort as its other outcome.
Loading a host delegate runs the host's constructor, which loads the native with
everything it is linked to, needs first; each native's constructor looks up all
its guards at once.

*NativeSymbols.* `LookupSpec` reads the mapping file first and lets threads look
symbols up in what it left. `realpath` is two steps, as it writes the shared buffer
until it returns. What stands in the buffer after threads were inside it at the same
time, while one still is, or after one has failed, may be mixed from several paths and is
any of `Texts`: the path of any library, or of none (`NoPath`). A realpath that fails
gives NULL, which line 32 passes on unchecked; the process ends (`SearchNull`).
`alone` remembers that no other thread came between a lookup's lines 30 and 32.

*TypeScan, Delegen and GuardThunks.* `stack` is what the recursion of `scan_types`
has still to visit, `looked` how far the loop over `all_types` is that makes the list of
callbacks, `world` what libclang and the command line say: kinds,
children, widths of types, the declarations, the symbols file and the calls of the
native library. A signature is a sequence of reduced types, a spelling one of
types; `Pointers` and `IntegerOf` say which types one reduced spelling merges. An
argument array is what its cells hold, and as which type each was stored: reading
one as a type of another width or class loses it. `dir` is the output directory,
`opened` the file that open() has cut off and not yet closed.

*CfiRewrite.* A line is a sequence of tokens, a column is a token's index. An
edit at a column of the parsed file is made in the text as it is by then, which
is where stale columns come from.

*FpRecords.* The recursion is a stack of frames; `Enter`, `Remembering` and
`Return` are the call, the answer from memory and the return of `is_fp_record`.

*PackageFilter and Statistics.* `ProcessPackage` takes the packages of the set in
any order; its result depends on a package's files alone, so it is one step.
`PipelineSpec` starts with the packages and ends with the table; `Spec` of
`Statistics` is ncistat.py started on any list.

*FFFile and Scanf.* NULL is 0, a pointer `p` is the index of the character it
points to. `pc` in `Scanf` is the place between two calls of the reader; `c` is
the last one's result. The table of digits, `isspace` and the format's spelling
are abstracted to a few characters and to records. A floating-point number ends
as its class (zero, a number, over or under the range, infinity, NaN), its digits
kept and the exponent of the last; the exact arithmetic that rounds these to a
double is not modelled. `Kept`, `Largest`, `Smallest` and `ExpBound` are the code's
limits, the two in the middle by precision (lines 623 to 637), a float's the narrower ones
and a long double's a double's; they are made small for TLC: 60 is beyond what four times the longest text can add to an
exponent, as `LLONG_MAX/100` is, and exponents of up to 999 reach it.

## Runs

| Run | Configuration and bounds | Shows |
|---|---|---|
| `nc_handshake` | `NCHandshake.cfg`: 3 threads, 1 function, 2 frames, no spurious wakeup, one last id for the process | the handshake: `thread_info` outlives its reader, the wakeup is not lost, the mutex is used as pthreads asks; with one last id for the process, a creator stores its own child's id or that of a child that another creator made later, never an older one (`OwnThreadId`) |
| `nc_nested` | `NCNested.cfg`: 2 threads, 2 functions, 2 frames, fair | frames and open calls pair up, an answer is there before native code goes on, exit is final, `CrossCall` is implemented, creators come back, created threads start |
| `nc_race` | `NCRace.cfg`: 3 threads, 2 of the program, 1 frame, spurious wakeups, one last id for the process | a request reaches the frame it was made to, even so |
| `nc_woken_when_ready` | `NCReady.cfg`, violation | a spurious wakeup lets the creator go on before the signal |
| `dl_linked` | `DLinked.cfg`: 4 libraries, two of them with needs, 2 signatures, 2 handles | in the order of the links every thunk kept is mapped (`CachedThunkLive`) and none is missing (`ThunksFoundInOrder`); no half-loaded delegate is usable, natives and delegates go together |
| `dl_thunks` | `DLThunks.cfg`, violation | a native that comes in as another's need runs its constructor before its own delegate has registered |
| `lindex` | `LIndex.cfg`: mapping files of up to 3 entries over colliding names; 2 threads look up symbols from 3 paths, one of them a link, in the 48 files of `LookupDocs` | the two ways to a native agree, unless another library has taken the host delegate's name by a later entry, which then answers for it in all indexes (`RoutesAgree`); native names lead to the last entry; a lookup alone in the buffer finds its own library's symbol, one that shared it none or that of a loaded guest file of the mapping (`SymbolOfCaller`) |
| `batches` | `Batches.cfg`: 6860 two-function files; lists of 1 to 4 files in 1 to 3 parts, 1 re-run | every plain call is guarded, once and with its declaration before it; parts are the list |
| `cr_indexed` | `CRIndexed.cfg`, violation | a call inside another's callee corrupts the text |
| `type_scan` | `TScan.cfg`: 9 types with cycles through pointers and records, 2 declarations, 4 calls; in the worlds of `Killed`, up to 2 killed or repeated runs | the scan is the closure and ends; each guard has its thunk; arguments and results arrive as wide as they left, through guard and thunk as through both delegates; a new Makefile lies beside new files |
| `statistics` | `Stats.cfg`: 3 records, up to 3 packages, 1 crash; packages of one name, .pc files before and behind the headers that need them | no false alarm; complete on the first search and where no record is used twice; answers stand; files are whole or cut off; the table has a row per usable package with one package's figures |
| `scanf` | `Scanf.cfg`: 10 formats over 2400 texts and 3 with floats over 5000, look-ahead 1 instead of 256, objects of 2 to 8 bits, 3 decimal or 2 hexadecimal digits kept | scans mean what the format means, integers and floats their value (`NumbersRead`), the reader is a stream, every scan ends |

Why the bounds are enough. Two frames show nesting (a call within a callback)
and a third only repeats it; three threads allow a creator that is itself
created, and two creations at once. Four libraries have a chain of needs, a
shared need and a stranger. Three mapping entries have a collision with one on
each side. Two functions and three calls in one file have a nesting, an
argument and a callee. Nine types have an integer of each width, an enum, two
records, one pointer, and functions with, without and with a variadic prototype;
two kills leave files of three runs in one directory. With two threads
inside `realpath` any text may stand in the buffer already, so a third adds nothing to
what can be found. Three packages have two of one name and one of another. Three records have a cycle, a diamond and a union. Texts
of four characters, taken over two at a time, have a refill inside each kind of
conversion and a put-back over it; with 8-bit objects a number of three digits
overflows, at the bound on the product as at that on the sum. With three digits
kept a float of four characters drops one, and exponents of three digits stop
growing beyond the range. `MaxDepth`,
`MaxRefs`, `MaxReruns`, `MaxKills` and `MaxCrashes` stand in the guards of the
actions they bound; `Killed` and `LookupDocs` name the worlds and mapping files in
which runs are killed and symbols looked up, to keep the product of the two small.

`CHECK_DEADLOCK` is never off: where a system stops by itself, its last state
has an explicit step (`Terminated`, `Done`, `Ended`, `Stop`).

### Fairness

`NativeCall!FairSpec` has weak fairness of the runtime's own steps per thread:
a thread that can run is scheduled. The program, native code and spurious wakeups
owe nothing: a native function may run for ever, so `CreatorResumes` only says
that creations come back to it. The tools (`ToolsSpec`), the
statistics (`PipelineSpec`) and the scanner (`ScanSpec`) are sequential programs that take their next
step if there is one; nobody has to kill a run, or to start it again
(`RunAgain`, `Crash` are without fairness). The other modules are checked for safety alone.

### Environment

What is not in this repository is modelled from how it is used: a resume trap
continues the innermost open call of its thread; `LastIdShared` says whether the
translator's last thread id is one for the process (`nc_handshake`, `nc_race`) or the
thread's own, as nothing here says which it is: `GetLastPThreadId` is the newest thread
made, of all or of one's own; `SpuriousWakeups` allows what
POSIX allows of `pthread_cond_wait`; the loader runs constructors of needs
first and destructors last; an object's entries come out of json11 in the order
of their keys, which is any order of libraries; libclang has no result type for a
pointer type. `delegen_resources` is copied in the order of the directory, which is any;
an enum is as wide as an int (`python/clang.py:171` spells it so). X64NC_HOME is
set (`hostapi.cpp:92`).

### Findings

The three violation runs are disagreements between code and documents:
`nc_woken_when_ready` (one `pthread_cond_wait` without predicate against the
comment on readiness), `dl_thunks` (a thunk that is not yet registered aborts,
against `doc/qemu.md`), `cr_indexed` (a call site that is not replaced as
`doc/compile.md` has it). `PROJECT.json` quotes the lines.

## Proofs

All theorems hold for every value of the constants that meets the named
assumptions. Each inductive invariant below was an invariant of a TLC run before it
was proved. `PROJECT.json` lists the theorems with the properties they state.

*NativeCallProofs.* `TypeCorrect` needs `DepthInv`: calls and frames of a thread
are as many, but for the moment the trap has returned, and the labels inside a
frame have one. `HandshakeInv` relates the two threads of a creation: from spawn
to the wakeup the creator's `info` is live and held by one of the two, and what
each of them knows of the other from its own label. `InfoOutlives`, `WakeupNotLost`
(without spurious wakeups) and `MutexDisciplined` follow from it.
The trap's answer does not say which call it belongs to, so none of the nesting
properties is inductive. `NestingInv` says of each thread, per
label, what the innermost buffer and the innermost open call have in common
(`InnermostKnows`), that outer calls all wait for a callback or a creation whose request is
still in their frame's buffer (`OuterSuspended`), that a buffer is its own frame's
(`BufferOwned`) and that what is above the depth is empty (`Unused`).
`RequestsIntact`, `StacksPaired`, `AnswersBeforeResume` and `ExitIsFinal` follow.
`IdInv` adds whose child a thread is and what id was stored, on top of `NotedInv`,
which says in what order threads were made (`elder`): of a creator's threads, the one
in its `thread_info` is the newest. `OwnThreadIds` follows for either value of
`LastIdShared`: an id that is not the own child's is that of a thread made after
it, by another creator, and there is none where the last id is the thread's own.

*NativeCallProofs, the refinement.* `Implementation`: without spurious wakeups `Spec` implements
`CrossCall`. With the handshake's and the nesting invariant, whose child a thread is
(`ParentInv`) and which requests the translator's calls have made (`AppInv`), each
action is shown to be the abstract step it looks like (`StepSimulated`): the trap a
call, the resumption a return, the unlock of the creator a hand-over; all
steps in between leave `AbsStack` and `AbsStatus` as they are. With spurious wakeups it is false
(`nc_woken_when_ready`), so the assumption is needed.

*DelegatesProofs.* While the order of opening and closing is that of the links
(`ordered`), the loaded natives are exactly those whose own delegate is connected
(`OwnNatives`), the last thunks registered are those of the delegate under
construction (`OwnThunks`), so what a native keeps is its own (`OwnCache`).
`ThunksStayLive` and `GuardsFindThunks` follow. In any order `HostsMatch` holds: a
host delegate is mapped from the phase on in which its guest delegate has loaded it,
and the natives in memory are those that mapped hosts need; `LoadedWhole` and
`NativesOwned` follow.

*LibraryIndexProofs.* What is filed under a name is that of the last entry that
names it (`NativeNamesFollow`); `GuestNamesLead` and `HostNamesLead` say it of the maps
from guest and host names, where the entries with `^` do not count. `RoutesMeet` follows,
for names that libraries share, too: if the last entry with the host delegate's name is not the
one the guest file's name has led to, that entry answers for it in `H2N` and `H2G` alike. Type
correctness is the lemma `Types`. For the look-ups `SymInv` says what a thread at each line can
find in the buffer: its own path as long as it was alone, else any text; whatever
that is, N2G gives guest files of the mapping only (`LeadsToGuestFiles`).
`SymbolsOfCallers` follows. `RoutesWhileLookingUp` carries `RoutesAgree` and
`NativeNamesLead` over to `LookupSpec`.

*FlattenProofs.* `FlattenSeq` is a recursive function, so its equation is derived first
(`JoinsExists`, `JoinsUnique`, by least counterexample instead of an induction theorem): what it gives
for a sequence more (`FlattenAppend`) and what it holds (`FlattenElements`).

*BatchProofs.*
`SplitInv` says where part k starts: k times the quotient, and one more for each part up to
the remainder; at the last that is the list's length, so `PartsJoin`. For a file,
`FileInv` says that a selected call is still among the items or has left a guard;
for the run, that of the commands passed (`Passed`) those with calls to guard are guarded,
and no others (`GuardInv`), and that only passed files are, once, as long as nothing
was started again (`OnceInv`). `SourcesGuarded` follows.
For `GuardsDeclared` the text itself is needed. The rewriter uses the columns of the parsed
file while it changes it, and gets away with it because it works from the last call
to the first: `Ordered` says that the marks and calls still to be done are in that order, and
`TextInv` that up to the place of the next of them the text is still as parsed (`Pristine`), so what
an edit cuts away holds no declaration. In front of everything done stands each guard's
declaration, or it is pending at marks none of which is behind the guard (`InOrder`).
`ListInv` says that `guards` and `pending` hold each signature and declaration once.
The lemmas about the two edits, `InsertTokens` and `ReplaceTokens`, say of each
token where it has come from and where it has gone, and `InsertKeepsOrder` and
`ReplaceKeepsOrder` that neither breaks `InOrder`. What is taken of
libclang is in `Parsed`, the assumption on each listed file: positions lie in the text, functions
do not overlap, calls are listed in the order of a walk, a call's first argument is the first thing
behind its callee, and the text has no name of a guard in it. It is said of files after
`cc -E`, where a position in the text is a position in the file; a file that already has guards
is not such a file, and `AddAgain` does not say what becomes of its text. `GuardNamesAssumption` says that
numbered names differ. TLC evaluates both for the files of `batches`.
`CallsReplaced` is the theorem about the edits as a whole: with plain callees
`PlainCallsReplaced` says of the written file, its declarations left out, that it is
`Meant(prog, guards, ToGuard(prog))`. `Meant` goes over the parsed tokens by their offset and says
of each what goes in front of it: the callee handed on as first argument
(`Handed`), then the guard's name (`Entered`), and that what is in a callee is gone
(`Kept`). It knows neither lines nor an order of edits; that it agrees with `want`,
the expressions the files of `batches` are made from, is `MeantAsWanted`, which
TLC evaluates. The invariant (`DoneInv`): at every step the text so far is what is meant for the
calls done with (`Treated`), and those are later in the walk than the ones that still wait
(`OrderInv`). A step adds one call to `Treated`. On the side of the meaning, this
changes `Meant` at three offsets and between, since nothing done is inside the call's callee and
what is in its arguments is behind its first argument; on the side of the text, the
two edits at the parsed columns are two edits of the flattened text at the call's
offsets, since up to the end of the callee the text is as parsed (`Pristine`), and replacing a
callee over several lines line by line drops what the callee was and nothing else. With callees that
are not plain it is false (`cr_indexed`).

*DelegenProofs.* `DeclsInv` says which declarations and symbols are still to come;
`GraphInv` that whatever is wanted, or a visited type leads to, was visited or is on
the stack, and that both stay inside every closed set with what is wanted. With
nothing left on the stack that is the closure (`ScanFindsClosure`). `FilesInv`
relates `written` to `dir`: a closed file stays as it was closed, and the Makefile
is new only when all others were written (`MakefileIsLast`). `GuardsInv` keeps the
signatures of guards inside the callbacks file once there is one, and each of its
lines has a thunk, so the start-up code never aborts (`GuardsFindThunks`).
`CallbacksInv` says that each function among the types looked at has one callback
of its signature, `SitesInv` that each listed call looked at has its guard and that a guard
is one of some call with that spelling; a function called with its own parameters is
spelled as its type (`KeyIsSignature`), from which `GuardsAndThunksMatch`. For
`ArgumentsDoArrive`: a spelling tells its types from the ellipsis (`SpellingSplit`), so
the guard's types are the call's and the thunk's reduce to the same names, and types
that are no functions and reduce to the same name are stored alike (`SameCell`).
Two assumptions on the constants say what C and x86-64 say: `NamesAssumption`
that no other type is named like the integers and pointers, `TypingAssumption` that a function
type has a result, functions are not passed but as pointers, a call fits its
prototype, and a pointer has 8 bytes, an enum 4, an integer 1, 2, 4 or 8. TLC finds
both true of the worlds of `type_scan`. Without the second they could not be proved:
the signature `int (long)` would be one with two widths.

*StatisticsProofs.* `Calls` says of the stack that every frame waits for the one
above it, and that what a frame has found is below it; with the same of the
memory (`Remembered`) and of the verdicts (`Told`) no alarm is false. A record under
way has no answer yet, so answers remain. `FiledInv` says that a closed file is whole
for the list's first library of its name and that the one open is the last library's, `VerdictsInv` that
a library's verdicts name its functions in order, each once; `ResultsAreFiled`
follows, across crashes. That the first search of a library is complete
(`FirstSearchIsComplete`) is the argument of a depth-first search: as long as nothing
was found, each visited record is under way or done, and one that is done has only
visited records below it (`FirstInv`). At the end, the visited ones are closed and hold
no function. Where headers agree and each record is used in one place (`Twisted` is the
rest), a search never meets a record twice: the one that uses it is under way or done,
and was met once itself (`MetInPlace`, `NotMetAgain`). So "already visited" never cuts a search
short, what is remembered is right (`Right`) and what a frame has passed over held no
function (`Judged`): `ExactAnswers`, from `ForestInv`. All are stated of `Spec`, ncistat.py started on any list, and
again of `PipelineSpec`, behind the filter, as the run checks them (`PipelineResults`,
`PipelineAnswersRemain`): until the list is written nothing of the statistics has
begun (`FilterInv`), and what is written is a list of libraries.
`TablesFigures` is about both programs and the table. `FilterInv` says that the list
holds the packages gone through whose headers compile, each with what is found in them,
where `HeadersAre` shows that the headers taken are those of `Counted`, which knows no order of files,
and `ContentsAre` that a library declares what its headers do. A whole file holds the verdicts
and the kinds of variable parts of all functions of the first library of its name (`Complete`), there
are files for listed names only and the rows are those of the files (`TableInv`).
The figures then are numbers of elements of sets of names (`FiguresRight`): a function
counted as variadic is so in the first header that declares it, so it is so in some, and
one that is so in all is counted.

*ScanfProofs.* `FileOK` says that the window ends where the buffer or the limit
does and that a closed one has reached either; each of the three reader calls
is then a step of `Stream` (`LimitSteps`, `GetSteps`, `UngetSteps`), and each step
of the scanner makes at most one (`DirectiveSteps`, `NumberSteps`, `WordSteps`, `FloatSteps`). The look-ahead
is any natural number, 256 among them.
On top of this, `Place` says at every step how much of the field was read and where
the conversion began, and `IntOK` what the characters read by `ffintscan` are: the sign,
the prefix, then digits of the base whose value is `num` in either loop, or more than
fits. A rejected beginning is one no longer piece of the field could have made a numeral.
It follows that the longest beginning of a numeral is taken, with its value
modulo the width, or the largest and `ERANGE`. It needs that 5 bits or more make an
`unsigned` (`WidthAssumption`; the code compares with `UINT_MAX / 32`), and that the end
of the text is none of the characters the scanner looks for (`EndAssumption`).
`FloatOK` says the same of `fffloatscan`, at each of its twenty places: how much of
"infinity" or "nan(" has been met; behind a front of zeros, digits and at most one
point (`FrontOK`), that `cnt`, `num`, `tail` and `point` are the number of digits from
the first that counts, what the kept ones come to, whether one of the others is not 0,
and how many are before the point (`Gathered`); behind an exponent's letter, that `exp`
is the exponent or both are beyond `ExpBound` (`ExpSoFar`). Where a scan ends, no longer
piece of the field is a number (`DeadAt`), so the piece taken is the longest, and what
`Number` makes of the parts is the value of the piece: the exponent counted from the place of
the point and the one read off the written piece are the same, or out of range on the
same side (`ExponentsSum`, `ScaledIs`). This needs, for each precision, a range that is not empty
(`RadixAssumption`) and no text so long that it brings an exponent of `ExpBound` or
more, `LLONG_MAX/100` in the code, back into the range (`ExponentAssumption`).
`NumbersAreRead` is `NumbersRead`, both of its halves, for all
texts.
`Meant` says that the directives gone through, applied to the text one after the other,
give the position, the count and the values so far; each directive then adds what
`Applied` has it add, and the one at which a scan stops leaves the rest of the format
without effect (`Off`). `ScansMeanFormats` is `ScannedAsMeant` for all formats and texts.
What is defined by `FoldLeft` (`Numeral`, `Meaning`) is reached through the function behind it: it
exists and any two agree, by least counterexample, so a longer sequence applies one step
more (`NumeralStep`, `MeaningStep`).

*Only model-checked.* Liveness (`CreatorResumes`, `CreatedStarts`, `RunEnds`,
`ScanEnds`, `RunsEnd`): beyond the prover. Every other property of a passing run
is stated by a theorem.

## Not modelled

- The rounding of a float's digits to a double (`guestapi_variadic.c:341`), positional
  arguments and `%m` of the scanner (the modifier is skipped), that `%Lf` stores a
  double, and `x64nc_ExtractVariadicArgs`, whose cases are empty.
- The wording and layout of generated sources and build commands; the Makefile's
  flags; how `cfiadd_cc.py` takes a command line apart (`-c` drops the word behind
  it, listed as a hazard); the answers of dpkg, pkg-config and gcc, which are data.
- The test of a guard's body whether an address is the guest's (`cfiadd.py:358`):
  it relies on where the translator's helper is mapped.
- What the code does wrong, or leaves open, without a line of the repository that says
  otherwise is in the model but in no property; `PROJECT.json` notes it with each
  hazard. An id stored behind a failed creation, or of another creator's later thread
  (`hostapi.cpp:264`); a look-up that finds another library's symbol, or a NULL path that ends
  the process (`guestapi_extra.c:29`); guards put twice by parts that are run again, and what
  a failed part leaves (`cfiadd_cc.py:117`, `:133`); calls without prototype that pass arguments,
  which stay unguarded (`cfiadd.py:266`); an empty callbacks file, with which every call is
  guarded and the library aborts when it is loaded (`cfiadd.py:272`); an old Makefile beside
  the files of a newer run that was killed (`delegen.py:245`); a "none" that later searches
  of cyclic records give (`ncistat.py:73`); cut-off results taken for done
  (`ncistat.py:292`); a second library of the same name passed over
  (`ncifilter.py:32`), and names with two suffixes (`ncifilter.py:58`). What `%c` has stored
  before it finds too few characters is not in the outputs (`guestapi_variadic.c:950`).
- A crash of ncifilter.py: it keeps nothing on disk before its end.
- Guest callbacks that leave by longjmp; natives loaded by native code itself;
  parts of a batch that are run at the same time.
- json11 (vendored), headers' layout, the build system, qemu's own source.

## Plan

Done, in this order: `NativeCall`/`CrossCall`, `Delegates`, `LibraryIndex`,
`CfiRewrite`/`SplitCommands`/`Batch`, `TypeScan`, `FpRecords`/`Statistics`,
`FFFile`/`Scanf`; then `FloatScan`, `NativeSymbols`, `Delegen`/`GuardThunks` with
`DelegenProofs`, and `PackageFilter`; then the proofs of nesting, of the refinement
of `CrossCall`, of `HostsMatch`, of the look-ups, of guards and thunks together and of
the statistics' files, first search and exact answers, of what a batch does to any list,
of guards declared before they are used, of the calls replaced, of the table, of how numbers
are read and of what scans mean. Still planned:

1. Positional arguments of the scanner, should something begin to call it.
