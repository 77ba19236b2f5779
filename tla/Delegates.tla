------------------------------ MODULE Delegates ------------------------------
(***************************************************************************)
(* Loading and unloading of the three libraries that stand for one library *)
(* of the guest: the guest delegate, whose constructor registers callback  *)
(* thunks and loads the host delegate, whose constructor loads the native  *)
(* library, whose constructor (written by scripts/cfiadd.py) looks the     *)
(* thunks of its call guards up and keeps them.  Sources: the templates in *)
(* scripts/delegen_resources, scripts/cfiadd.py, src/hostrt/hostapi.cpp.   *)
(*                                                                         *)
(* A constructor runs under the guest's loader lock, so that at most one   *)
(* guest delegate is between two of its steps.                             *)
(***************************************************************************)
EXTENDS Naturals

CONSTANTS Libs,        \* library names
          Sigs,        \* callback signatures
          Needs,       \* Needs[l]: the libraries l's native library is linked to
          Registers,   \* Registers[l]: signatures l's guest delegate has thunks for
          Guards,      \* Guards[l]: signatures guarded in l's native library
          MaxRefs,     \* bound: open handles of one guest delegate
          None         \* no library

ASSUME NeedsAssumption     == Needs \in [Libs -> SUBSET Libs]
ASSUME RegistersAssumption == Registers \in [Libs -> SUBSET Sigs]
\* cfiadd -c guards the signatures listed in delegen's callbacks file only.
ASSUME GuardsAssumption    == /\ Guards \in [Libs -> SUBSET Sigs]
                              /\ \A l \in Libs : Guards[l] \subseteq Registers[l]
ASSUME BoundsAssumption    == MaxRefs \in Nat \ {0} /\ None \notin Libs

VARIABLES
  phase,     \* phase[l]: how far l's guest delegate is
  refs,      \* refs[l]: the guest's open handles of it
  thunks,    \* HostRuntimeData.CallbackThunks: whose thunk a signature finds
  hosts,     \* host delegates that are loaded
  natives,   \* native libraries that are loaded
  cached,    \* cached[l][s]: whose thunk native library l keeps for s
  resolved,  \* delegates with every DynamicApis_p pointer set
  aborted,   \* why the process was aborted, or "no"
  ordered    \* have needs been opened before, and closed after, who needs them?

vars == <<phase, refs, thunks, hosts, natives, cached, resolved, aborted, ordered>>

Phases  == {"unloaded", "constructed", "registered", "connected", "loaded"}
Reasons == {"no", "search", "load", "thunk", "symbol"}

TypeOK ==
  /\ phase    \in [Libs -> Phases]
  /\ refs     \in [Libs -> 0 .. MaxRefs]
  /\ thunks   \in [Sigs -> Libs \cup {None}]
  /\ hosts    \subseteq Libs
  /\ natives  \subseteq Libs
  /\ cached   \in [Libs -> [Sigs -> Libs \cup {None}]]
  /\ resolved \subseteq Libs
  /\ aborted  \in Reasons
  /\ ordered  \in BOOLEAN

Init ==
  /\ phase    = [l \in Libs |-> "unloaded"]
  /\ refs     = [l \in Libs |-> 0]
  /\ thunks   = [s \in Sigs |-> None]
  /\ hosts    = {}
  /\ natives  = {}
  /\ cached   = [l \in Libs |-> [s \in Sigs |-> None]]
  /\ resolved = {}
  /\ aborted  = "no"
  /\ ordered  = TRUE

\* What the host loader keeps loaded for a set of native libraries.
LinkClosed(S) == \A l \in S : Needs[l] \subseteq S
Closure(S)    == {l \in Libs : \A T \in SUBSET Libs : S \subseteq T /\ LinkClosed(T) => l \in T}

Running == aborted = "no"
\* No constructor is under way: the loader lock is free.
Idle    == Running /\ \A l \in Libs : phase[l] \in {"unloaded", "loaded"}
Mapped  == {l \in Libs : phase[l] # "unloaded"}

Abort(reason) ==
  /\ aborted' = reason
  /\ UNCHANGED <<phase, refs, thunks, hosts, natives, cached, resolved, ordered>>

-----------------------------------------------------------------------------
(* Opening.                                                                *)

OpensInOrder(l)  == \A n \in Needs[l] : n = l \/ phase[n] = "loaded"
ClosesInOrder(l) == refs[l] = 1 => \A k \in Libs \ {l} : l \in Needs[k] => phase[k] = "unloaded"

\* dlopen maps the delegate and starts its constructor, or adds a handle.
Open(l) ==
  /\ Idle
  /\ refs[l] < MaxRefs
  /\ ordered' = (ordered /\ OpensInOrder(l))
  /\ refs'  = [refs EXCEPT ![l] = @ + 1]
  /\ phase' = [phase EXCEPT ![l] = IF @ = "unloaded" THEN "constructed" ELSE @]
  /\ UNCHANGED <<thunks, hosts, natives, cached, resolved, aborted>>

\* Mutant: a signature that is registered keeps its thunk.
AddThunksFirstWins(l) ==
  thunks' = [s \in Sigs |-> IF s \in Registers[l] /\ thunks[s] = None THEN l ELSE thunks[s]]

\* Mutant: DynamicApis_PreInitialize is empty, as in the host delegate.
AddThunksNot(l) == UNCHANGED thunks

\* x64nc_AddCallbackThunk for each signature: the last registration counts.
AddThunks(l) == thunks' = [s \in Sigs |-> IF s \in Registers[l] THEN l ELSE thunks[s]]

\* DynamicApis_PreInitialize.
Register(l) ==
  /\ Running
  /\ phase[l] = "constructed"
  /\ AddThunks(l)
  /\ phase' = [phase EXCEPT ![l] = "registered"]
  /\ UNCHANGED <<refs, hosts, natives, cached, resolved, aborted, ordered>>

\* The libraries that the host loader brings in with l's native library, and
\* the thunks their constructors do not find.
Fresh(l)   == Closure({l}) \ natives
Missing(l) == {n \in Fresh(l) : \E s \in Guards[n] : thunks[s] = None}

\* Guest delegate: search and load the host delegate.  Host delegate, in its
\* constructor: search and load the native library.  Native libraries, each in
\* its constructor: look the thunks up.
Connect(l) ==
  /\ Running
  /\ phase[l] = "registered"
  /\ Missing(l) = {}
  /\ hosts'   = hosts \cup {l}
  /\ natives' = natives \cup Fresh(l)
  /\ cached'  = [n \in Libs |-> IF n \in Fresh(l)
                   THEN [s \in Sigs |-> IF s \in Guards[n] THEN thunks[s] ELSE None]
                   ELSE cached[n]]
  /\ phase' = [phase EXCEPT ![l] = "connected"]
  /\ UNCHANGED <<refs, thunks, resolved, aborted, ordered>>

\* No route, no such file, or a constructor that aborts.
ConnectFails(l) ==
  /\ Running
  /\ phase[l] = "registered"
  /\ \E reason \in {"search", "load"} \cup IF Missing(l) = {} THEN {} ELSE {"thunk"} :
       Abort(reason)

\* Mutant: a null pointer does not stop the constructor.
ResolveSkips(l) ==
  /\ Running
  /\ phase[l] = "connected"
  /\ phase' = [phase EXCEPT ![l] = "loaded"]
  /\ UNCHANGED <<refs, thunks, hosts, natives, cached, resolved, aborted, ordered>>

\* Each API is looked up, here and in the host delegate.
Resolve(l) ==
  /\ Running
  /\ phase[l] = "connected"
  /\ resolved' = resolved \cup {l}
  /\ phase' = [phase EXCEPT ![l] = "loaded"]
  /\ UNCHANGED <<refs, thunks, hosts, natives, cached, aborted, ordered>>

ResolveFails(l) == Running /\ phase[l] = "connected" /\ Abort("symbol")

-----------------------------------------------------------------------------
(* Closing.                                                                *)

\* Mutant: the destructor forgets the host delegate.
HostLeaked(l) == hosts

\* FreeLibrary: the host delegate's destructor closes the native library.
HostFreed(l) == hosts \ {l}

\* Native libraries that stay because something loaded still needs them.
Kept(H) == Closure(H)

Close(l) ==
  /\ Idle
  /\ refs[l] > 0
  /\ ordered' = (ordered /\ ClosesInOrder(l))
  /\ refs' = [refs EXCEPT ![l] = @ - 1]
  /\ IF refs[l] > 1
       THEN UNCHANGED <<phase, hosts, natives, cached, resolved>>
       ELSE /\ phase'    = [phase EXCEPT ![l] = "unloaded"]
            /\ hosts'    = HostFreed(l)
            /\ natives'  = Kept(HostFreed(l))
            /\ cached'   = [n \in Libs |-> IF n \in Kept(HostFreed(l)) THEN cached[n]
                                           ELSE [s \in Sigs |-> None]]
            /\ resolved' = resolved \ {l}
  /\ UNCHANGED <<thunks, aborted>>

Stopped == ~ Running /\ UNCHANGED vars

Next ==
  \/ \E l \in Libs : \/ Open(l) \/ Register(l) \/ Connect(l) \/ ConnectFails(l)
                     \/ Resolve(l) \/ ResolveFails(l) \/ Close(l)
  \/ Stopped

Spec == Init /\ [][Next]_vars

-----------------------------------------------------------------------------
(* Properties.                                                             *)

\* The thunk a loaded native library would enter for a guest callback is code
\* of a guest delegate that is mapped, whatever was loaded, unloaded and
\* registered in between (cached by __X64NC_Initialize, never refreshed), as
\* long as libraries are opened and closed as they are linked.
CachedThunkLive ==
  ordered => \A n \in natives : \A s \in Guards[n] : cached[n][s] \in Mapped

\* A delegate that is ready to forward calls has its native library loaded and
\* every pointer set; the constructors abort rather than end half-way.
LoadedIsWhole ==
  \A l \in Libs : phase[l] = "loaded" => l \in hosts \cap natives /\ l \in resolved

\* Native libraries are loaded for the sake of a guest delegate only.
NoOrphanNative ==
  \A n \in natives : \E l \in Mapped : n \in Closure({l})

\* No native constructor misses a thunk, as long as libraries are opened and
\* closed as they are linked.
ThunksFoundInOrder == ordered => aborted # "thunk"

\* doc/qemu.md: the thunks are registered when QEMU loads the fake library and
\* the native library's guards can then find them.
ThunksFound == aborted # "thunk"

=============================================================================
