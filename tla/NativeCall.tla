----------------------------- MODULE NativeCall -----------------------------
(***************************************************************************)
(* Calls across the two instruction sets, as the guest runtime serves them *)
(* (src/guestrt/guestapi_proc.c) and the host runtime and the QEMU         *)
(* translator see them (src/hostrt/hostapi.cpp and, external, the          *)
(* translator behind the magic system call).                               *)
(*                                                                         *)
(* A guest thread traps into the translator, which runs a native function  *)
(* on the same thread.  The trap returns either because the function has   *)
(* finished or because it wants something done in guest code: a callback,  *)
(* a new thread, or the end of this one.  NativeCallServe does it and      *)
(* resumes the function with a second trap that says nothing of which call *)
(* it resumes.  Callbacks may call native functions again.                 *)
(***************************************************************************)
EXTENDS Naturals

CONSTANTS Threads,          \* thread identities
          AppThreads,       \* those the guest program starts by itself
          Fns,              \* native functions, thread routines and callbacks
          MaxDepth,         \* bound: nested NativeCallServe frames of a thread
          None,             \* no thread, no function, no address
          SpuriousWakeups,  \* may pthread_cond_wait return unasked?
          LastIdShared      \* is GetLastPThreadId one value for the process?

ASSUME ThreadsAssumption == AppThreads \subseteq Threads /\ None \notin Threads
ASSUME FnsAssumption     == None \notin Fns
ASSUME DepthAssumption   == MaxDepth \in Nat \ {0}
ASSUME FlagsAssumption   == SpuriousWakeups \in BOOLEAN /\ LastIdShared \in BOOLEAN

\* An address on a thread's stack: its d-th frame.
Slots == Threads \X (1 .. MaxDepth)
\* What a native function may ask of the guest (X64NC_NATIVE_PROC_RESULT).
Asks  == {"Callback", "PThreadCreate", "PThreadExit"}
\* Where a thread's guest code is inside the PThreadCreate case.
Creating == {"spawn", "park", "waiting", "woken", "unlock", "destroy"}
\* Where a thread is inside ThreadEntry, before its native routine starts.
Starting == {"entry", "lock", "broadcast", "release", "start"}
Labels   == {"unborn", "guest", "trap", "Finished", "resume", "exited"}
              \cup Asks \cup Creating \cup Starting

VARIABLES
  pc,       \* pc[t]: where thread t is
  depth,    \* depth[t]: NativeCallServe frames on t's guest stack
  next,     \* next[s]: the next_call buffer of the frame at s
  local,    \* local[s]: the request that frame has read and is serving
  calls,    \* calls[t]: native calls the translator has open for t
  native,   \* native[<<t, c>>]: the c-th of them
  info,     \* info[t]: the struct thread_info on t's stack
  parent,   \* parent[u]: the thread whose info ThreadEntry got as args
  entry,    \* entry[u]: ThreadEntry's own copy of the routine
  elder     \* elder[u]: the threads that pthread_create had made before u

guestVars  == <<depth, next, local>>
hostVars   == <<calls, native>>
threadVars == <<info, parent, entry>>
vars       == <<pc, guestVars, hostVars, threadVars, elder>>

NoRequest == [fn |-> None, ref |-> None]
NoCall    == [fn |-> None, buf |-> None, ask |-> "none", arg |-> None, ret |-> "unset", id |-> None]
NoInfo    == [live |-> FALSE, holder |-> None, entry |-> None, thread |-> None]

\* next_call as the serve loop reads it; a native call; struct thread_info.
Requests == [fn : Fns \cup {None}, ref : Slots \cup {None}]
Calls    == [fn : Fns \cup {None}, buf : Slots \cup {None}, ask : Asks \cup {"none"},
             arg : Fns \cup {None}, ret : {"unset", "ok", "error"}, id : Threads \cup {None}]
Infos    == [live : BOOLEAN, holder : Threads \cup {None},
             entry : Fns \cup {None}, thread : Threads \cup {None}]

TypeOK ==
  /\ pc     \in [Threads -> Labels]
  /\ depth  \in [Threads -> 0 .. MaxDepth]
  /\ next   \in [Slots -> Requests]
  /\ local  \in [Slots -> Requests]
  /\ calls  \in [Threads -> 0 .. MaxDepth]
  /\ native \in [Slots -> Calls]
  /\ info   \in [Threads -> Infos]
  /\ parent \in [Threads -> Threads \cup {None}]
  /\ entry  \in [Threads -> Fns \cup {None}]
  /\ elder  \in [Threads -> SUBSET Threads]

Init ==
  /\ pc     = [t \in Threads |-> IF t \in AppThreads THEN "guest" ELSE "unborn"]
  /\ depth  = [t \in Threads |-> 0]
  /\ next   = [s \in Slots |-> NoRequest]
  /\ local  = [s \in Slots |-> NoRequest]
  /\ calls  = [t \in Threads |-> 0]
  /\ native = [s \in Slots |-> NoCall]
  /\ info   = [t \in Threads |-> NoInfo]
  /\ parent = [t \in Threads |-> None]
  /\ entry  = [t \in Threads |-> None]
  /\ elder  = [t \in Threads |-> {}]

Goto(t, label) == pc' = [pc EXCEPT ![t] = label]

Frame(t)     == <<t, depth[t]>>     \* the running NativeCallServe frame
Innermost(t) == <<t, calls[t]>>     \* the translator's innermost open call
\* Mutant: one next_call array for the whole process.
StaticNextCall(t, d) == <<CHOOSE x \in Threads : TRUE, d>>

\* next_call is an array of the frame itself.
NextCall(t, d) == <<t, d>>

-----------------------------------------------------------------------------
(* x64nc_CallNativeProc up to the first trap.                              *)

CallNative(t, f) ==
  /\ depth[t] < MaxDepth
  /\ calls[t] < MaxDepth
  /\ depth'  = [depth EXCEPT ![t] = @ + 1]
  /\ calls'  = [calls EXCEPT ![t] = @ + 1]
  /\ native' = [native EXCEPT ![<<t, calls[t] + 1>>] =
                  [NoCall EXCEPT !.fn = f, !.buf = NextCall(t, depth[t] + 1)]]
  /\ Goto(t, "trap")
  /\ UNCHANGED <<next, local, threadVars, elder>>

\* Guest code, of the program or inside a callback, calls a native function.
GuestCall(t, f) == pc[t] = "guest" /\ CallNative(t, f)

-----------------------------------------------------------------------------
(* Native code, and the translator under it.                               *)

\* The innermost native function runs: nothing it asked for is outstanding.
Running(t) == pc[t] = "trap" /\ calls[t] > 0 /\ native[Innermost(t)].ask = "none"

\* It suspends itself and lets its trap return `kind`, the request in next_call.
Ask(t, kind, f, ref) ==
  /\ Running(t)
  /\ native' = [native EXCEPT ![Innermost(t)] =
                  [@ EXCEPT !.ask = kind, !.arg = f, !.ret = "unset", !.id = None]]
  /\ next' = [next EXCEPT ![native[Innermost(t)].buf] = [fn |-> f, ref |-> ref]]
  /\ Goto(t, kind)
  /\ UNCHANGED <<depth, local, calls, threadVars, elder>>

NativeCallback(t, f) == Ask(t, "Callback", f, Innermost(t))
\* x64nc_pthread_create, up to NotifyPThreadCreate
NativeCreate(t, f)   == Ask(t, "PThreadCreate", f, Innermost(t))
\* x64nc_pthread_exit
NativeExit(t)        == Ask(t, "PThreadExit", None, None)

NativeFinish(t) ==
  /\ Running(t)
  /\ calls'  = [calls EXCEPT ![t] = @ - 1]
  /\ native' = [native EXCEPT ![Innermost(t)] = NoCall]
  /\ Goto(t, "Finished")
  /\ UNCHANGED <<guestVars, threadVars, elder>>

\* The trap that resumes: native code goes on behind its request, with the
\* answer; x64nc_pthread_create stores an id, whatever the answer is.
ContinueStoring(t, id) ==
  /\ pc[t] = "trap"
  /\ calls[t] > 0
  /\ native[Innermost(t)].ask # "none"
  /\ native' = [native EXCEPT ![Innermost(t)] =
       [@ EXCEPT !.ask = "none", !.arg = None,
                 !.id = IF native[Innermost(t)].ask = "PThreadCreate" THEN id ELSE None]]
  /\ UNCHANGED <<pc, guestVars, calls, threadVars, elder>>

\* Mutant: *thread = pthread_self()
ContinueStoringSelf(t) == ContinueStoring(t, t)

\* The threads made by pthread_create so far.
Made == {u \in Threads : parent[u] # None}

\* GetLastPThreadId on thread t: the newest thread of all, or of those t made.
GetLastPThreadId(t, id) ==
  LET seen == {u \in Made : LastIdShared \/ parent[u] = t} IN
    \/ seen = {} /\ id = None
    \/ id \in seen /\ seen \ {id} \subseteq elder[id]

NativeContinue(t) ==
  \E id \in Threads \cup {None} : GetLastPThreadId(t, id) /\ ContinueStoring(t, id)

-----------------------------------------------------------------------------
(* NativeCallServe.                                                        *)

\* To the guest code that called the frame or, from the outermost frame of
\* ThreadEntry, to the end of the thread.
AfterFrame(t) == IF depth[t] = 1 /\ parent[t] # None THEN "exited" ELSE "guest"

\* Finished: the frame is left.
ServeFinished(t) ==
  /\ pc[t] = "Finished"
  /\ depth' = [depth EXCEPT ![t] = @ - 1]
  /\ next'  = [next EXCEPT ![Frame(t)] = NoRequest]
  /\ local' = [local EXCEPT ![Frame(t)] = NoRequest]
  /\ Goto(t, AfterFrame(t))
  /\ UNCHANGED <<hostVars, threadVars, elder>>

\* Callback: the thunk is entered with what next_call holds.
ServeCallback(t) ==
  /\ pc[t] = "Callback"
  /\ local' = [local EXCEPT ![Frame(t)] = next[NextCall(t, depth[t])]]
  /\ Goto(t, "guest")
  /\ UNCHANGED <<depth, next, hostVars, threadVars, elder>>

\* Mutant: the answer is not stored.
NoAnswer(ref, ret) == UNCHANGED native

\* The answer goes to the native variable the request pointed at.
Answer(ref, ret) == native' = [native EXCEPT ![ref] = [@ EXCEPT !.ret = ret]]

\* The thunk has stored the callback's result and returns.
CallbackReturn(t) ==
  /\ pc[t] = "guest"
  /\ depth[t] > 0
  /\ Answer(local[Frame(t)].ref, "ok")
  /\ local' = [local EXCEPT ![Frame(t)] = NoRequest]
  /\ Goto(t, "resume")
  /\ UNCHANGED <<depth, next, calls, threadVars, elder>>

\* PThreadCreate: the request is read, info initialised.
PrepareInfo(t, routine, holder) ==
  /\ pc[t] = "PThreadCreate"
  /\ local' = [local EXCEPT ![Frame(t)] = next[NextCall(t, depth[t])]]
  /\ info' = [info EXCEPT ![t] =
                [live |-> TRUE, holder |-> holder, entry |-> routine, thread |-> None]]
  /\ Goto(t, "spawn")
  /\ UNCHANGED <<depth, next, hostVars, parent, entry, elder>>

\* Mutant: the mutex is not locked before pthread_create.
ServeCreateUnlocked(t) == PrepareInfo(t, next[NextCall(t, depth[t])].fn, None)

\* Mutant: next_call[4] taken for the routine.
ServeCreateSwapped(t) == PrepareInfo(t, next[NextCall(t, depth[t])].ref, t)

\* ... and its mutex locked.
ServeCreate(t) == PrepareInfo(t, next[NextCall(t, depth[t])].fn, t)

\* Mutant: `if (ret)`
AfterCreateInverted(ok) == IF ok THEN "unlock" ELSE "park"

\* `if (ret == 0)`: a thread that was created is waited for.
AfterCreate(ok) == IF ok THEN "park" ELSE "unlock"

\* pthread_create succeeds, and the translator takes note of the new id ...
SpawnOk(t, u) ==
  /\ pc[t] = "spawn"
  /\ pc[u] = "unborn"
  /\ pc' = [pc EXCEPT ![t] = AfterCreate(TRUE), ![u] = "entry"]
  /\ info' = [info EXCEPT ![t] = [@ EXCEPT !.thread = u]]
  /\ parent' = [parent EXCEPT ![u] = t]
  /\ elder' = [elder EXCEPT ![u] = Made]
  /\ UNCHANGED <<guestVars, hostVars, entry>>

\* ... or fails.
SpawnFail(t) ==
  /\ pc[t] = "spawn"
  /\ Goto(t, AfterCreate(FALSE))
  /\ UNCHANGED <<guestVars, hostVars, threadVars, elder>>

\* Mutant: the creator does not wait.
CondWaitSkipped(t) ==
  /\ pc[t] = "park"
  /\ Goto(t, "unlock")
  /\ UNCHANGED <<guestVars, hostVars, threadVars, elder>>

\* Mutant: it waits with the mutex in hand.
CondWaitHolding(t) ==
  /\ pc[t] = "park"
  /\ Goto(t, "waiting")
  /\ UNCHANGED <<guestVars, hostVars, threadVars, elder>>

\* pthread_cond_wait: the mutex is released as the thread starts to wait ...
CondWait(t) ==
  /\ pc[t] = "park"
  /\ info' = [info EXCEPT ![t] = [@ EXCEPT !.holder = None]]
  /\ Goto(t, "waiting")
  /\ UNCHANGED <<guestVars, hostVars, parent, entry, elder>>

\* ... it may be woken by nobody ...
SpuriousWake(t) ==
  /\ SpuriousWakeups
  /\ pc[t] = "waiting"
  /\ Goto(t, "woken")
  /\ UNCHANGED <<guestVars, hostVars, threadVars, elder>>

\* Mutant: it goes on without the mutex.
ReacquireBarging(t) ==
  /\ pc[t] = "woken"
  /\ Goto(t, "unlock")
  /\ UNCHANGED <<guestVars, hostVars, threadVars, elder>>

\* ... and returns with the mutex; no loop re-checks what was waited for.
Reacquire(t) ==
  /\ pc[t] = "woken"
  /\ info[t].holder = None
  /\ info' = [info EXCEPT ![t] = [@ EXCEPT !.holder = t]]
  /\ Goto(t, "unlock")
  /\ UNCHANGED <<guestVars, hostVars, parent, entry, elder>>

Unlock(t) ==
  /\ pc[t] = "unlock"
  /\ info' = [info EXCEPT ![t] = [@ EXCEPT !.holder = None]]
  /\ Goto(t, "destroy")
  /\ UNCHANGED <<guestVars, hostVars, parent, entry, elder>>

\* Both objects are destroyed, info goes out of scope, *ret_ref is written.
Destroy(t) ==
  /\ pc[t] = "destroy"
  /\ info' = [info EXCEPT ![t] = [NoInfo EXCEPT !.thread = info[t].thread]]
  /\ Answer(local[Frame(t)].ref, IF info[t].thread = None THEN "error" ELSE "ok")
  /\ local' = [local EXCEPT ![Frame(t)] = NoRequest]
  /\ Goto(t, "resume")
  /\ UNCHANGED <<depth, next, calls, parent, entry, elder>>

\* Mutant: the thread's end is left to the host, as in the default case.
ServeExitIgnored(t) ==
  /\ pc[t] = "PThreadExit"
  /\ Goto(t, "resume")
  /\ UNCHANGED <<guestVars, hostVars, threadVars, elder>>

\* PThreadExit: pthread_exit does not return; frames and native calls go too.
ServeExit(t) ==
  /\ pc[t] = "PThreadExit"
  /\ depth'  = [depth EXCEPT ![t] = 0]
  /\ calls'  = [calls EXCEPT ![t] = 0]
  /\ next'   = [s \in Slots |-> IF s[1] = t THEN NoRequest ELSE next[s]]
  /\ local'  = [s \in Slots |-> IF s[1] = t THEN NoRequest ELSE local[s]]
  /\ native' = [s \in Slots |-> IF s[1] = t THEN NoCall ELSE native[s]]
  /\ Goto(t, "exited")
  /\ UNCHANGED <<threadVars, elder>>

\* Mutant: `if` for `while`, the frame is left after one request.
ResumeOnce(t) ==
  /\ pc[t] = "resume"
  /\ depth' = [depth EXCEPT ![t] = @ - 1]
  /\ Goto(t, "guest")
  /\ UNCHANGED <<next, local, hostVars, threadVars, elder>>

\* The resuming trap: the translator picks the thread's innermost call.
Resume(t) ==
  /\ pc[t] = "resume"
  /\ Goto(t, "trap")
  /\ UNCHANGED <<guestVars, hostVars, threadVars, elder>>

-----------------------------------------------------------------------------
(* ThreadEntry, on the new thread.                                         *)

\* The routine is read from the creator's info: garbage if it is dead.
EntryRead(u) ==
  /\ pc[u] = "entry"
  /\ \E f \in IF info[parent[u]].live THEN {info[parent[u]].entry} ELSE Fns :
       entry' = [entry EXCEPT ![u] = f]
  /\ Goto(u, "lock")
  /\ UNCHANGED <<guestVars, hostVars, info, parent, elder>>

EntryLock(u) ==
  /\ pc[u] = "lock"
  /\ info[parent[u]].holder = None
  /\ info' = [info EXCEPT ![parent[u]] = [@ EXCEPT !.holder = u]]
  /\ Goto(u, "broadcast")
  /\ UNCHANGED <<guestVars, hostVars, parent, entry, elder>>

\* Mutant: the broadcast reaches nobody.
WakeNobody(label) == label

Wake(label) == IF label = "waiting" THEN "woken" ELSE label

EntryBroadcast(u) ==
  /\ pc[u] = "broadcast"
  /\ pc' = [pc EXCEPT ![u] = "release", ![parent[u]] = Wake(@)]
  /\ UNCHANGED <<guestVars, hostVars, threadVars, elder>>

EntryUnlock(u) ==
  /\ pc[u] = "release"
  /\ info' = [info EXCEPT ![parent[u]] = [@ EXCEPT !.holder = None]]
  /\ Goto(u, "start")
  /\ UNCHANGED <<guestVars, hostVars, parent, entry, elder>>

\* Nothing is waited for: the native routine is called at once.
EntryStart(u) == pc[u] = "start" /\ CallNative(u, entry[u])

-----------------------------------------------------------------------------
\* What guest and native code outside the runtimes may do: call, ask, finish.
Program(t) ==
  \/ \E f \in Fns : GuestCall(t, f) \/ NativeCallback(t, f) \/ NativeCreate(t, f)
  \/ NativeExit(t)
  \/ NativeFinish(t)
  \/ CallbackReturn(t)

\* What the runtimes do by themselves.
Serve(t) ==
  \/ NativeContinue(t)
  \/ ServeFinished(t)
  \/ ServeCallback(t)
  \/ ServeCreate(t)
  \/ \E u \in Threads : SpawnOk(t, u)
  \/ SpawnFail(t)
  \/ CondWait(t)
  \/ Reacquire(t)
  \/ Unlock(t)
  \/ Destroy(t)
  \/ ServeExit(t)
  \/ Resume(t)

Enter(t) ==
  \/ EntryRead(t)
  \/ EntryLock(t)
  \/ EntryBroadcast(t)
  \/ EntryUnlock(t)
  \/ EntryStart(t)

\* Every thread that was started has ended.
Terminated == (\A t \in Threads : pc[t] \in {"unborn", "exited"}) /\ UNCHANGED vars

Next ==
  \/ \E t \in Threads : Program(t) \/ Serve(t) \/ Enter(t) \/ SpuriousWake(t)
  \/ Terminated

Spec == Init /\ [][Next]_vars

\* Threads run: a runtime step that stays possible is taken.  Nothing is
\* assumed of the program, of native code, or of spurious wakeups.
FairSpec == Spec /\ \A t \in Threads : WF_vars(Serve(t) \/ Enter(t))

-----------------------------------------------------------------------------
(* Properties.                                                             *)

\* A frame reads the request its own native call made, whatever other threads
\* and nested calls did between the two traps (guestapi_proc.c, next_call).
RequestIntact ==
  \A t \in Threads : pc[t] \in Asks =>
    /\ native[Innermost(t)].ask = pc[t]
    /\ next[NextCall(t, depth[t])].fn = native[Innermost(t)].arg
    /\ pc[t] # "PThreadExit" => next[NextCall(t, depth[t])].ref = Innermost(t)

\* The trap that resumes names no call, so the translator's open calls and the
\* guest's frames must match one to one: every call under the innermost is
\* suspended in the callback which the frame at its depth is serving.
StackPairing ==
  \A t \in Threads :
    /\ calls[t] = IF pc[t] = "Finished" THEN depth[t] - 1 ELSE depth[t]
    /\ \A c \in 1 .. calls[t] : (c < calls[t] \/ pc[t] \in {"guest", "Finished"}) =>
         /\ native[<<t, c>>].ask = "Callback"
         /\ local[<<t, c>>] = [fn |-> native[<<t, c>>].arg, ref |-> <<t, c>>]

\* Native code that goes on behind a request finds the answer stored: the
\* runtime never resumes a call before it wrote *ret or *ret_ref.
AnswerBeforeResume ==
  \A t \in Threads :
    pc[t] \in {"resume", "trap"} /\ calls[t] > 0 /\ native[Innermost(t)].ask # "none"
      => native[Innermost(t)].ret # "unset"

\* thread_info lives in the creator's frame; the new thread uses it only while
\* that creator still waits there for it and for nobody else.
InfoOutlivesChild ==
  \A u \in Threads : pc[u] \in Starting \ {"start"} =>
    info[parent[u]].live /\ info[parent[u]].thread = u

\* The creator is never left waiting for a broadcast already made.
NoLostWakeup ==
  \A t \in Threads : pc[t] = "waiting" =>
    info[t].thread # None /\ pc[info[t].thread] \in {"entry", "lock", "broadcast"}

\* info.mutex is waited with and unlocked by its holder, destroyed when free.
MutexDiscipline ==
  \A t \in Threads :
    /\ pc[t] \in {"spawn", "park", "unlock"} => info[t].holder = t
    /\ pc[t] = "destroy" => info[t].holder = None
    /\ pc[t] \in {"broadcast", "release"} => info[parent[t]].holder = t

\* What x64nc_pthread_create stores behind a success (hostapi.cpp:264) is the
\* thread it created; another's only if the translator has one last id for all,
\* and then one that another creator made later, before the id was read: never
\* an older thread, nor another one of t's own.
OwnThreadId ==
  \A t \in Threads :
    Running(t) /\ native[Innermost(t)].id # None /\ native[Innermost(t)].ret = "ok" =>
      LET own == info[t].thread  id == native[Innermost(t)].id IN
        /\ parent[own] = t
        /\ id # own => LastIdShared /\ id \in Made /\ parent[id] # t /\ own \in elder[id]

\* NotifyPThreadExit does not return (x64nc_pthread_exit, __builtin_unreachable).
ExitNeverReturns ==
  [][\A s \in Slots : native[s].ask = "PThreadExit" =>
       native'[s].ask = "PThreadExit" \/ pc'[s[1]] = "exited"]_vars

\* pthread_create called by native code comes back: nobody waits forever in
\* the handshake of creator and created.
CreatorResumes == \A t \in Threads : pc[t] = "PThreadCreate" ~> pc[t] = "trap"

\* A thread that was created gets to run its native routine.
CreatedStarts == \A u \in Threads : pc[u] = "entry" ~> pc[u] = "trap"

\* ThreadEntry, "Signal to the parent that we're ready": a creator whose wait
\* is over has been signalled.
WokenWhenReady ==
  \A t \in Threads : pc[t] \in {"unlock", "destroy"} /\ info[t].thread # None =>
    pc[info[t].thread] \notin {"entry", "lock", "broadcast"}

-----------------------------------------------------------------------------
(* NativeCall implements CrossCall.                                        *)

\* Where the c-th open call of t is in its life.
At(t, c) ==
  LET n == native[<<t, c>>] IN
    CASE n.ask = "none"   -> "native"
      [] n.ask # "none" /\ n.ret # "unset" -> "answered"
      [] n.ask = "Callback" /\ n.ret = "unset" /\ local[<<t, c>>] # NoRequest -> "guest"
      [] OTHER -> n.ask

AbsStack == [t \in Threads |-> [c \in 1 .. calls[t] |->
  [fn  |-> native[<<t, c>>].fn,
   at  |-> At(t, c),
   arg |-> IF At(t, c) = "guest" THEN local[<<t, c>>].fn ELSE native[<<t, c>>].arg]]]

AbsStatus == [t \in Threads |->
  CASE pc[t] \in {"unborn", "exited"} -> pc[t]
    [] pc[t] = "entry"                -> "given"
    [] pc[t] \in Starting \ {"entry"} -> "ready"
    [] OTHER                          -> "running"]

\* The routine is in the creator's info until the new thread has copied it.
AbsJob == [u \in Threads |-> IF pc[u] = "entry" THEN info[parent[u]].entry ELSE entry[u]]

AbsMade == [t \in Threads |-> IF pc[t] \in Creating THEN info[t].thread ELSE None]

Abstract == INSTANCE CrossCall
  WITH stack <- AbsStack, status <- AbsStatus, job <- AbsJob, made <- AbsMade

\* To the program, the machinery behaves like procedure calls and a
\* pthread_create that hands its routine over (module CrossCall).
ImplementsCrossCall == Abstract!Spec

=============================================================================
