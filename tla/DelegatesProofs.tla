--------------------------- MODULE DelegatesProofs ---------------------------
(***************************************************************************)
(* For every set of libraries, links and signatures: if a library's needs  *)
(* are opened before it and closed after it, no guard misses its thunk and *)
(* no native library keeps a thunk that is gone; in any order a delegate   *)
(* that forwards calls is whole, and no library stays behind without one.  *)
(***************************************************************************)
EXTENDS Delegates, TLAPS

USE NeedsAssumption, RegistersAssumption, GuardsAssumption, BoundsAssumption

Connected == {l \in Libs : phase[l] \in {"connected", "loaded"}}

\* One delegate at a time is under construction.
OneConstructor ==
  \A k, l \in Libs : phase[k] \notin {"unloaded", "loaded"} /\ phase[l] \notin {"unloaded", "loaded"}
    => k = l

\* What is under construction or loaded has its needs loaded.
NeedsFirst ==
  \A l \in Libs : phase[l] # "unloaded" => \A n \in Needs[l] : n = l \/ phase[n] = "loaded"

\* Nothing is loaded on the host side but for a delegate of its own.
OwnNatives == hosts = Connected /\ natives = Connected

\* A delegate that has registered its thunks is the last one that did.
OwnThunks ==
  \A l \in Libs : phase[l] = "registered" => \A s \in Registers[l] : thunks[s] = l

\* A native library keeps the thunks of its own delegate.
OwnCache == \A n \in natives : \A s \in Guards[n] : cached[n][s] = n

Inv == /\ TypeOK /\ OneConstructor /\ NeedsFirst /\ OwnNatives /\ OwnThunks /\ OwnCache
       /\ ThunksFound

\* All of it but the types needs the order.
InOrderInv == TypeOK /\ (ordered => Inv)

-----------------------------------------------------------------------------
\* A closed set is its own closure.
LEMMA ClosureOfClosed ==
  ASSUME NEW S \in SUBSET Libs, LinkClosed(S) PROVE Closure(S) = S
BY DEF Closure

\* The closure of one library adds nothing but that library to a closed set
\* that holds the others it needs.
LEMMA ClosureOfOne ==
  ASSUME NEW S \in SUBSET Libs, NEW l \in Libs, LinkClosed(S),
         \A n \in Needs[l] : n = l \/ n \in S
  PROVE  l \in Closure({l}) /\ Closure({l}) \subseteq S \cup {l}
<1>1. LinkClosed(S \cup {l})
  BY DEF LinkClosed
<1>2. Closure({l}) \subseteq S \cup {l}
  BY <1>1 DEF Closure
<1> QED
  BY <1>2 DEF Closure

LEMMA ConnectedClosed == Inv => LinkClosed(Connected)
BY DEF Inv, NeedsFirst, Connected, LinkClosed, TypeOK

\* Connecting a delegate brings in its own native library alone.
LEMMA FreshIsOwn ==
  ASSUME Inv, NEW l \in Libs, phase[l] = "registered"
  PROVE  Fresh(l) = {l} /\ Missing(l) = {}
<1>1. l \notin natives
  BY DEF Inv, OwnNatives, Connected
<1>2. \A n \in Needs[l] : n = l \/ n \in Connected
  BY DEF Inv, NeedsFirst, Connected
<1>3. l \in Closure({l}) /\ Closure({l}) \subseteq Connected \cup {l}
  <2>1. Connected \in SUBSET Libs
    BY DEF Connected
  <2> QED
    BY <1>2, <2>1, ConnectedClosed, ClosureOfOne
<1>4. Fresh(l) = {l}
  BY <1>1, <1>3 DEF Fresh, Inv, OwnNatives
<1>5. \A s \in Guards[l] : thunks[s] = l
  BY DEF Inv, OwnThunks
<1> QED
  BY <1>4, <1>5 DEF Missing

LEMMA InvInit == Init => Inv
BY DEF Init, Inv, TypeOK, OneConstructor, NeedsFirst, OwnNatives, OwnThunks, OwnCache,
       ThunksFound, Connected, Phases, Reasons

LEMMA InvStep ==
  ASSUME Inv, ordered', [Next]_vars PROVE Inv'
<1> USE DEF Inv, TypeOK, OneConstructor, NeedsFirst, OwnNatives, OwnThunks, OwnCache,
            ThunksFound, Connected, Phases, Reasons
<1>1. ASSUME NEW l \in Libs, Open(l) PROVE Inv'
  <2>1. OpensInOrder(l)
    BY <1>1, Zenon DEF Open
  <2>2. ordered'
    OBVIOUS
  <2> QED
    BY <1>1, <2>1, <2>2 DEF Open, Idle, OpensInOrder
<1>2. ASSUME NEW l \in Libs, Register(l) PROVE Inv'
  <2>1. /\ phase[l] = "constructed"
        /\ phase' = [phase EXCEPT ![l] = "registered"]
        /\ thunks' = [s \in Sigs |-> IF s \in Registers[l] THEN l ELSE thunks[s]]
        /\ UNCHANGED <<refs, hosts, natives, cached, resolved, aborted, ordered>>
    BY <1>2 DEF Register, AddThunks
  <2>2. thunks' \in [Sigs -> Libs \cup {None}]
    BY <2>1
  <2>3. Connected' = Connected
    BY <2>1
  <2>4. OwnThunks'
    <3> SUFFICES ASSUME NEW k \in Libs, phase'[k] = "registered", NEW s \in Registers[k]
                 PROVE  thunks'[s] = k
      OBVIOUS
    <3>1. k = l
      BY <2>1
    <3> QED
      BY <2>1, <3>1
  <2>5. OneConstructor' /\ NeedsFirst'
    BY <2>1
  <2> QED
    BY <2>1, <2>2, <2>3, <2>4, <2>5
<1>3. ASSUME NEW l \in Libs, Connect(l) PROVE Inv'
  <2>1. Fresh(l) = {l}
    BY <1>3, FreshIsOwn DEF Connect
  <2>2. hosts' = Connected' /\ natives' = Connected'
    BY <1>3, <2>1 DEF Connect
  <2>3. OwnCache'
    BY <1>3, <2>1 DEF Connect
  <2> QED
    BY <1>3, <2>1, <2>2, <2>3 DEF Connect
<1>4. ASSUME NEW l \in Libs, ConnectFails(l) PROVE Inv'
  <2>1. Missing(l) = {}
    BY <1>4, FreshIsOwn DEF ConnectFails
  <2> QED
    BY <1>4, <2>1 DEF ConnectFails, Abort
<1>5. ASSUME NEW l \in Libs, Resolve(l) PROVE Inv'
  BY <1>5 DEF Resolve
<1>6. ASSUME NEW l \in Libs, ResolveFails(l) PROVE Inv'
  BY <1>6 DEF ResolveFails, Abort
<1>7. ASSUME NEW l \in Libs, Close(l) PROVE Inv'
  <2>1. CASE refs[l] > 1
    BY <1>7, <2>1 DEF Close
  <2>2. CASE ~ (refs[l] > 1)
    <3>0. ClosesInOrder(l)
      BY <1>7, Zenon DEF Close
    <3>1. /\ phase' = [phase EXCEPT ![l] = "unloaded"]
          /\ \A k \in Libs \ {l} : l \in Needs[k] => phase[k] = "unloaded"
          /\ refs' \in [Libs -> 0 .. MaxRefs]
      BY <1>7, <2>2, <3>0 DEF Close, ClosesInOrder
    <3>2. HostFreed(l) = Connected' /\ LinkClosed(Connected')
      BY <3>1, ConnectedClosed DEF HostFreed, LinkClosed
    <3>3. Kept(HostFreed(l)) = Connected'
      <4>1. Connected' \in SUBSET Libs
        OBVIOUS
      <4> QED
        BY <3>2, <4>1, ClosureOfClosed DEF Kept
    <3>4. hosts' = Connected' /\ natives' = Connected'
      BY <1>7, <2>2, <3>2, <3>3 DEF Close
    <3>5. cached' = [n \in Libs |-> IF n \in Connected' THEN cached[n]
                                    ELSE [s \in Sigs |-> None]]
      BY <1>7, <2>2, <3>3 DEF Close
    <3>6. thunks' = thunks /\ aborted' = aborted /\ ordered' \in BOOLEAN /\ resolved' = resolved \ {l}
      BY <1>7, <2>2 DEF Close
    <3>7. Connected' \subseteq Connected
      BY <3>1
    <3> QED
      BY <3>1, <3>4, <3>5, <3>6, <3>7
  <2> QED
    BY <2>1, <2>2
<1>8. CASE UNCHANGED vars
  BY <1>8 DEF vars
<1> QED
  BY <1>1, <1>2, <1>3, <1>4, <1>5, <1>6, <1>7, <1>8 DEF Next, Stopped

LEMMA TypeStep ==
  ASSUME TypeOK, [Next]_vars PROVE TypeOK' /\ (ordered' => ordered)
<1> USE DEF TypeOK, Phases, Reasons
<1>1. ASSUME NEW l \in Libs, Open(l) PROVE TypeOK' /\ (ordered' => ordered)
  BY <1>1 DEF Open
<1>2. ASSUME NEW l \in Libs, Register(l) PROVE TypeOK' /\ (ordered' => ordered)
  <2>1. thunks' \in [Sigs -> Libs \cup {None}]
    BY <1>2 DEF Register, AddThunks
  <2> QED
    BY <1>2, <2>1 DEF Register
<1>3. ASSUME NEW l \in Libs, Connect(l) PROVE TypeOK' /\ (ordered' => ordered)
  <2>1. natives' \subseteq Libs
    BY <1>3 DEF Connect, Fresh, Closure
  <2>2. cached' \in [Libs -> [Sigs -> Libs \cup {None}]]
    BY <1>3 DEF Connect
  <2> QED
    BY <1>3, <2>1, <2>2 DEF Connect
<1>4. ASSUME NEW l \in Libs, ConnectFails(l) \/ ResolveFails(l) PROVE TypeOK' /\ (ordered' => ordered)
  BY <1>4 DEF ConnectFails, ResolveFails, Abort
<1>5. ASSUME NEW l \in Libs, Resolve(l) PROVE TypeOK' /\ (ordered' => ordered)
  BY <1>5 DEF Resolve
<1>6. ASSUME NEW l \in Libs, Close(l) PROVE TypeOK' /\ (ordered' => ordered)
  <2>1. refs' \in [Libs -> 0 .. MaxRefs]
    BY <1>6 DEF Close
  <2>2. HostFreed(l) \subseteq Libs /\ Kept(HostFreed(l)) \subseteq Libs
    BY DEF HostFreed, Kept, Closure
  <2>3. ordered' \in BOOLEAN /\ (ordered' => ordered)
    BY <1>6, Zenon DEF Close
  <2>4. CASE refs[l] > 1
    BY <1>6, <2>1, <2>3, <2>4 DEF Close
  <2>5. CASE ~ (refs[l] > 1)
    <3>1. /\ phase' = [phase EXCEPT ![l] = "unloaded"] /\ hosts' = HostFreed(l)
          /\ natives' = Kept(HostFreed(l)) /\ resolved' = resolved \ {l}
          /\ UNCHANGED <<thunks, aborted>>
          /\ cached' = [n \in Libs |-> IF n \in Kept(HostFreed(l)) THEN cached[n]
                                         ELSE [s \in Sigs |-> None]]
      BY <1>6, <2>5 DEF Close
    <3>2. cached' \in [Libs -> [Sigs -> Libs \cup {None}]]
      BY <3>1
    <3> QED
      BY <2>1, <2>2, <2>3, <3>1, <3>2
  <2> QED
    BY <2>4, <2>5
<1>7. CASE UNCHANGED vars
  BY <1>7 DEF vars
<1> QED
  BY <1>1, <1>2, <1>3, <1>4, <1>5, <1>6, <1>7 DEF Next, Stopped

LEMMA InvAlways == Spec => []InOrderInv
<1>1. Init => InOrderInv
  BY InvInit DEF InOrderInv, Inv
<1>2. InOrderInv /\ [Next]_vars => InOrderInv'
  BY InvStep, TypeStep DEF InOrderInv
<1> QED
  BY <1>1, <1>2, PTL DEF Spec

\* The thunk that a loaded native library keeps for a signature belongs to a
\* guest delegate that is mapped (__X64NC_Initialize looks it up once).
THEOREM ThunksStayLive == Spec => []CachedThunkLive
<1>1. InOrderInv => CachedThunkLive
  BY DEF InOrderInv, Inv, OwnNatives, OwnCache, Connected, CachedThunkLive, Mapped
<1> QED
  BY <1>1, InvAlways, PTL

\* No native constructor aborts for want of a thunk (doc/qemu.md), as long as
\* libraries are opened and closed in order.
THEOREM GuardsFindThunks == Spec => []ThunksFoundInOrder
<1>1. InOrderInv => ThunksFoundInOrder
  BY DEF InOrderInv, Inv, ThunksFound, ThunksFoundInOrder
<1> QED
  BY <1>1, InvAlways, PTL

-----------------------------------------------------------------------------
(* Whatever the order: the host side holds what the guest side connected.  *)

HostsMatch ==
  /\ hosts = Connected
  /\ natives = Closure(Connected)
  /\ \A l \in Libs : phase[l] = "loaded" => l \in resolved

LEMMA ClosureContains ==
  ASSUME NEW S \in SUBSET Libs
  PROVE  S \subseteq Closure(S) /\ LinkClosed(Closure(S)) /\ Closure(S) \in SUBSET Libs
<1>1. S \subseteq Closure(S) /\ Closure(S) \in SUBSET Libs
  BY DEF Closure
<1>2. ASSUME NEW l \in Closure(S), NEW n \in Needs[l] PROVE n \in Closure(S)
  <2>1. n \in Libs
    BY DEF Closure
  <2>2. ASSUME NEW T \in SUBSET Libs, S \subseteq T, LinkClosed(T) PROVE n \in T
    BY <2>2 DEF Closure, LinkClosed
  <2> QED
    BY <2>1, <2>2 DEF Closure
<1> QED
  BY <1>1, <1>2 DEF LinkClosed

\* The least closed set is in every other.
LEMMA ClosureLeast ==
  ASSUME NEW S \in SUBSET Libs, NEW T \in SUBSET Libs, S \subseteq T, LinkClosed(T)
  PROVE  Closure(S) \subseteq T
BY DEF Closure

LEMMA ClosureAdds ==
  ASSUME NEW S \in SUBSET Libs, NEW l \in Libs
  PROVE  Closure(S \cup {l}) = Closure(S) \cup Closure({l})
<1> DEFINE both == Closure(S) \cup Closure({l})
<1>1. S \cup {l} \subseteq both /\ LinkClosed(both) /\ both \in SUBSET Libs
  <2>1. /\ S \subseteq Closure(S) /\ LinkClosed(Closure(S)) /\ Closure(S) \in SUBSET Libs
        /\ {l} \subseteq Closure({l}) /\ LinkClosed(Closure({l})) /\ Closure({l}) \in SUBSET Libs
    BY ClosureContains
  <2> QED
    BY <2>1 DEF LinkClosed
<1>2. Closure(S \cup {l}) \subseteq both
  <2> HIDE DEF both
  <2> QED
    BY <1>1, ClosureLeast
<1>3. Closure(S) \subseteq Closure(S \cup {l}) /\ Closure({l}) \subseteq Closure(S \cup {l})
  <2>1. /\ S \cup {l} \subseteq Closure(S \cup {l}) /\ LinkClosed(Closure(S \cup {l}))
        /\ Closure(S \cup {l}) \in SUBSET Libs
    BY ClosureContains
  <2> QED
    BY <2>1, ClosureLeast
<1> QED
  BY <1>2, <1>3

\* What is needed by a set is needed by one of its members.
LEMMA ClosureByMembers ==
  ASSUME NEW S \in SUBSET Libs, NEW n \in Closure(S)
  PROVE  \E l \in S : n \in Closure({l})
<1> DEFINE T == {m \in Libs : \E l \in S : m \in Closure({l})}
<1>1. S \subseteq T
  BY ClosureContains
<1>2. LinkClosed(T)
  <2> SUFFICES ASSUME NEW m \in T, NEW k \in Needs[m] PROVE k \in T
    BY DEF LinkClosed
  <2>1. PICK l \in S : m \in Closure({l})
    OBVIOUS
  <2>2. LinkClosed(Closure({l})) /\ Closure({l}) \in SUBSET Libs
    BY ClosureContains
  <2> QED
    BY <2>1, <2>2 DEF LinkClosed
<1>3. T \in SUBSET Libs
  OBVIOUS
<1> HIDE DEF T
<1>4. n \in T
  BY <1>1, <1>2, <1>3, ClosureLeast
<1> QED
  BY <1>4 DEF T

LEMMA HostsInit == Init => HostsMatch
<1>1. Init => Connected = {} /\ hosts = {} /\ natives = {} /\ \A l \in Libs : phase[l] # "loaded"
  BY DEF Init, Connected
<1>2. Closure({}) = {}
  BY ClosureOfClosed DEF LinkClosed
<1> QED
  BY <1>1, <1>2 DEF HostsMatch

LEMMA HostsStep == TypeOK /\ HostsMatch /\ [Next]_vars => HostsMatch'
<1> SUFFICES ASSUME TypeOK, HostsMatch, [Next]_vars PROVE HostsMatch'
  OBVIOUS
<1>c. Connected \in SUBSET Libs
  BY DEF Connected
<1>1. ASSUME NEW l \in Libs, Open(l) PROVE HostsMatch'
  <2>1. Connected' = Connected /\ \A k \in Libs : phase'[k] = "loaded" => phase[k] = "loaded"
    BY <1>1 DEF Open, Connected, TypeOK
  <2> QED
    BY <1>1, <2>1 DEF Open, HostsMatch, Closure, LinkClosed
<1>2. ASSUME NEW l \in Libs, Register(l) PROVE HostsMatch'
  <2>1. Connected' = Connected /\ \A k \in Libs : phase'[k] = "loaded" => phase[k] = "loaded"
    BY <1>2 DEF Register, Connected, TypeOK
  <2> QED
    BY <1>2, <2>1 DEF Register, HostsMatch, Closure, LinkClosed
<1>3. ASSUME NEW l \in Libs, Connect(l) PROVE HostsMatch'
  <2>1. Connected' = Connected \cup {l} /\ \A k \in Libs : phase'[k] = "loaded" => phase[k] = "loaded"
    BY <1>3 DEF Connect, Connected, TypeOK
  <2>2. natives' = Closure(Connected) \cup Closure({l})
    BY <1>3 DEF Connect, Fresh, HostsMatch
  <2>3. natives' = Closure(Connected')
    BY <1>c, <2>1, <2>2, ClosureAdds
  <2> QED
    BY <1>3, <2>1, <2>3 DEF Connect, HostsMatch
<1>4. ASSUME NEW l \in Libs, ConnectFails(l) \/ ResolveFails(l) PROVE HostsMatch'
  BY <1>4 DEF ConnectFails, ResolveFails, Abort, HostsMatch, Connected, Closure, LinkClosed
<1>5. ASSUME NEW l \in Libs, Resolve(l) PROVE HostsMatch'
  <2>1. Connected' = Connected /\ \A k \in Libs : phase'[k] = "loaded" => phase[k] = "loaded" \/ k = l
    BY <1>5 DEF Resolve, Connected, TypeOK
  <2> QED
    BY <1>5, <2>1 DEF Resolve, HostsMatch, Closure, LinkClosed
<1>6. ASSUME NEW l \in Libs, Close(l) PROVE HostsMatch'
  <2>1. CASE refs[l] > 1
    BY <1>6, <2>1 DEF Close, HostsMatch, Connected, Closure, LinkClosed
  <2>2. CASE ~ (refs[l] > 1)
    <3>1. /\ phase' = [phase EXCEPT ![l] = "unloaded"] /\ hosts' = HostFreed(l)
          /\ natives' = Kept(HostFreed(l)) /\ resolved' = resolved \ {l}
      BY <1>6, <2>2 DEF Close
    <3>2. Connected' = Connected \ {l} /\ \A k \in Libs : phase'[k] = "loaded" => phase[k] = "loaded" /\ k # l
      BY <3>1 DEF Connected, TypeOK
    <3>3. HostFreed(l) = Connected'
      BY <3>2 DEF HostFreed, HostsMatch
    <3> QED
      BY <3>1, <3>2, <3>3 DEF Kept, HostsMatch
  <2> QED
    BY <2>1, <2>2
<1>7. CASE UNCHANGED vars
  BY <1>7 DEF vars, HostsMatch, Connected, Closure, LinkClosed
<1> QED
  BY <1>1, <1>2, <1>3, <1>4, <1>5, <1>6, <1>7 DEF Next, Stopped

LEMMA HostsAlways == Spec => [](TypeOK /\ HostsMatch)
<1>1. Init => TypeOK /\ HostsMatch
  BY InvInit, HostsInit DEF Inv
<1>2. TypeOK /\ HostsMatch /\ [Next]_vars => (TypeOK /\ HostsMatch)'
  BY TypeStep, HostsStep
<1> QED
  BY <1>1, <1>2, PTL DEF Spec

\* A guest delegate that forwards calls has its host delegate and its native
\* library loaded and every pointer set, in whatever order the guest opens and
\* closes libraries: a constructor ends whole or the process does.
THEOREM LoadedWhole == Spec => []LoadedIsWhole
<1>1. TypeOK /\ HostsMatch => LoadedIsWhole
  <2> SUFFICES ASSUME TypeOK, HostsMatch, NEW l \in Libs, phase[l] = "loaded"
               PROVE  l \in hosts \cap natives /\ l \in resolved
    BY DEF LoadedIsWhole
  <2>1. Connected \in SUBSET Libs /\ l \in Connected
    BY DEF Connected
  <2>2. l \in Closure(Connected)
    BY <2>1, ClosureContains
  <2> QED
    BY <2>1, <2>2 DEF HostsMatch
<1> QED
  BY <1>1, HostsAlways, PTL

\* Closing a delegate leaves no native library behind but those that another
\* mapped delegate's library is linked to (the host delegate's destructor).
THEOREM NativesOwned == Spec => []NoOrphanNative
<1>1. TypeOK /\ HostsMatch => NoOrphanNative
  <2> SUFFICES ASSUME HostsMatch, NEW n \in natives
               PROVE  \E l \in Mapped : n \in Closure({l})
    BY DEF NoOrphanNative
  <2>1. Connected \in SUBSET Libs /\ Connected \subseteq Mapped /\ n \in Closure(Connected)
    BY DEF Connected, Mapped, HostsMatch
  <2> QED
    BY <2>1, ClosureByMembers
<1> QED
  BY <1>1, HostsAlways, PTL

=============================================================================
