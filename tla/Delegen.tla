------------------------------ MODULE Delegen ------------------------------
(***************************************************************************)
(* What scripts/delegen.py writes from the types it has scanned (TypeScan):*)
(* the declarations, the guest's and the host's definitions, the callbacks *)
(* file, copies of templates and, last, the Makefile, in a directory where *)
(* an earlier run may have left its files.  A run may be killed.           *)
(***************************************************************************)
EXTENDS TypeScan

CONSTANTS Killed,    \* bound: the worlds in which runs are killed or repeated
          MaxKills   \* bound: how often

VARIABLES
  dir,      \* per file of the output directory, what is in it
  opened,   \* the file that is being written, or "none"
  written,  \* the files that this run has closed
  kills
outVars == <<dir, opened, written, kills>>

\* Sources stands for the three templates beside the Makefile.
Generated == <<"declarations", "guest", "host", "callbacks">>
Templates == {"sources", "Makefile"}
Outputs   == Range(Generated) \cup Templates
Contents  == {"none", "torn", "old", "copied", "new"}  \* new: of this run, old: of one before

\* A new directory, or what a run before has left.
DelegenInit ==
  /\ Init
  /\ dir \in {[f \in Outputs |-> "none"]} \cup
             (IF world \in Killed THEN {[f \in Outputs |-> IF f = "sources" THEN "copied" ELSE "old"]} ELSE {})
  /\ opened = "none" /\ written = {} /\ kills = 0

-----------------------------------------------------------------------------
(* The contents of the files.                                              *)

\* An array of pointers to the arguments of a call, and a call with what it
\* points to: an argument that is read as another type than it has is lost (0).
Cell(t)         == <<IF world.kind[t] \in {"record", "other"} THEN t ELSE "integer", Width[t]>>
ArrayOf(types)  == [k \in DOMAIN types |-> [val |-> k, as |-> types[k]]]
ReadAs(types, array) ==
  [k \in DOMAIN types |->
     IF k \in DOMAIN array /\ Cell(array[k].as) = Cell(types[k]) THEN array[k].val ELSE 0]

DeclOfApi(name) == world.decls[CHOOSE n \in DOMAIN world.decls :
                     world.decls[n].name = name /\ \A m \in 1 .. n - 1 : world.decls[m].name # name]

\* Guest definitions: of a function, the types its _args point to, those of its
\* named parameters; of thunk n, the types it reads its _args as.
GuestArgs(name) == Tail(DeclOfApi(name).types)
ThunkArgs(n)    == Tail(world.kids[callbacks[n]])

\* Host definitions: the types that my_<name> reads its _args as.
HostArgs(name)  == Tail(DeclOfApi(name).types)

\* X64NC_API_FOREACH, X64NC_CALLBACK_FOREACH: the number of a thunk by its
\* signature; and the lines of the callbacks file.
ApiForeach      == functions
CallbackForeach == [n \in DOMAIN callbacks |-> [sign |-> Signature(callbacks[n]), thunk |-> n]]
CallbacksFile   == {Signature(callbacks[n]) : n \in DOMAIN callbacks}

-----------------------------------------------------------------------------
(* Writing them.                                                           *)

\* Mutant: the templates are copied, and the Makefile made, ahead of the rest.
TemplatesFirst(f) ==
  \/ f \in Templates \ written
  \/ f = "Makefile" /\ Templates \subseteq written /\ dir[f] = "copied"
  \/ \E n \in DOMAIN Generated : f = Generated[n] /\ f \notin written /\ dir["Makefile"] = "new"

\* "Write files" in their order, "Copy templates" in the directory's, and the
\* Makefile, once read, a second time.
Due(f) ==
  \/ \E n \in DOMAIN Generated : f = Generated[n] /\ f \notin written /\ \A m \in 1 .. n - 1 : Generated[m] \in written
  \/ f \in Templates \ written /\ Range(Generated) \subseteq written
  \/ f = "Makefile" /\ Outputs \subseteq written /\ dir[f] = "copied"

\* open(..., mode='w') cuts off what was there.
OpenFile ==
  /\ over /\ opened = "none"
  /\ \E f \in Outputs : Due(f) /\ opened' = f /\ dir' = [dir EXCEPT ![f] = "torn"]
  /\ UNCHANGED <<vars, written, kills>>

CloseFile ==
  /\ opened # "none"
  /\ dir' = [dir EXCEPT ![opened] = IF opened \in Templates \ written THEN "copied" ELSE "new"]
  /\ written' = written \cup {opened}
  /\ opened'  = "none"
  /\ UNCHANGED <<vars, kills>>

Written == written = Outputs /\ opened = "none" /\ dir["Makefile"] = "new"

\* The run is killed while it writes, or is over: another follows.
RunAgain ==
  /\ over /\ world \in Killed /\ kills < MaxKills
  /\ kills' = kills + 1
  /\ dir'   = [f \in Outputs |-> IF dir[f] = "new" THEN "old" ELSE dir[f]]
  /\ opened' = "none" /\ written' = {}
  /\ todo' = world.decls /\ remaining' = world.symbols /\ stack' = << >> /\ all' = << >>
  /\ functions' = << >> /\ looked' = 0 /\ callbacks' = << >>
  /\ UNCHANGED world

DelegenStep == (ScanStep /\ UNCHANGED outVars) \/ OpenFile \/ CloseFile

-----------------------------------------------------------------------------
(* Properties.                                                             *)

\* A Makefile of a run lies beside all other files of that run, whole: whatever
\* a run that was killed has left, it builds no delegate with a new Makefile.
MakefileLast ==
  dir["Makefile"] = "new" =>
    /\ \A n \in DOMAIN Generated : dir[Generated[n]] = "new"
    /\ dir["sources"] = "copied"

\* Every run that is not killed ends, whatever the header's records point to.
RunEnds == <>Written
=============================================================================
