-------------------------- MODULE NativeCallProofs --------------------------
(***************************************************************************)
(* Proofs about NativeCall for every set of threads and functions and      *)
(* every depth of nesting; the last part shows that it implements          *)
(* CrossCall, where condition variables only return when signalled: every  *)
(* step of the runtimes, of the translator and of native code is a step of *)
(* CrossCall or changes nothing that it shows.                             *)
(***************************************************************************)
EXTENDS NativeCall, SequenceTheorems, TLAPS

-----------------------------------------------------------------------------
(* Types.  A frame is popped only where one is open, so the type of depth  *)
(* and calls needs to know which labels imply an open frame.               *)

InFrame   == {"trap", "Finished", "resume"} \cup Asks \cup Creating
Frameless == {"unborn", "exited"} \cup Starting

DepthInv ==
  \A t \in Threads :
    /\ calls[t] = IF pc[t] = "Finished" THEN depth[t] - 1 ELSE depth[t]
    /\ pc[t] \in InFrame => depth[t] > 0
    /\ pc[t] \in Frameless => depth[t] = 0
    /\ pc[t] \in Starting => parent[t] # None

Inv1 == TypeOK /\ DepthInv

USE ThreadsAssumption, FnsAssumption, DepthAssumption, FlagsAssumption

LEMMA Inv1Init == Init => Inv1
BY DEF Init, Inv1, TypeOK, DepthInv, Requests, Calls, Infos, Labels, Slots, NoRequest, NoCall, NoInfo,
       InFrame, Frameless, Asks, Creating, Starting

LEMMA SlotType ==
  ASSUME NEW t \in Threads, NEW d \in 1 .. MaxDepth PROVE <<t, d>> \in Slots
BY DEF Slots

LEMMA FramesAreSlots ==
  ASSUME Inv1, NEW t \in Threads
  PROVE  /\ pc[t] \in InFrame => Frame(t) \in Slots /\ NextCall(t, depth[t]) \in Slots
         /\ pc[t] \in InFrame \ {"Finished"} => Innermost(t) \in Slots
         /\ depth[t] < MaxDepth => NextCall(t, depth[t] + 1) \in Slots
<1> USE DEF Inv1, TypeOK, DepthInv
<1>1. pc[t] \in InFrame => depth[t] \in 1 .. MaxDepth
  OBVIOUS
<1>2. pc[t] \in InFrame \ {"Finished"} => calls[t] \in 1 .. MaxDepth
  OBVIOUS
<1>3. depth[t] < MaxDepth => depth[t] + 1 \in 1 .. MaxDepth
  OBVIOUS
<1> QED
  BY <1>1, <1>2, <1>3, SlotType DEF Frame, Innermost, NextCall

LEMMA DepthStep == Inv1 /\ [Next]_vars => DepthInv'
<1> SUFFICES ASSUME Inv1, [Next]_vars PROVE DepthInv'
  OBVIOUS
<1> USE DEF Inv1, TypeOK, DepthInv, Labels, Goto, guestVars, hostVars, threadVars,
            InFrame, Frameless, Asks, Creating, Starting
<1>1. ASSUME NEW t \in Threads, NEW f \in Fns, GuestCall(t, f) PROVE DepthInv'
  BY <1>1 DEF GuestCall, CallNative
<1>2. ASSUME NEW t \in Threads, NEW f \in Fns, NativeCallback(t, f) PROVE DepthInv'
  BY <1>2 DEF NativeCallback, Ask, Running
<1>3. ASSUME NEW t \in Threads, NEW f \in Fns, NativeCreate(t, f) PROVE DepthInv'
  BY <1>3 DEF NativeCreate, Ask, Running
<1>4. ASSUME NEW t \in Threads, NativeExit(t) PROVE DepthInv'
  BY <1>4 DEF NativeExit, Ask, Running
<1>5. ASSUME NEW t \in Threads, NativeFinish(t) PROVE DepthInv'
  BY <1>5 DEF NativeFinish, Running
<1>6. ASSUME NEW t \in Threads, CallbackReturn(t) PROVE DepthInv'
  BY <1>6 DEF CallbackReturn, Answer
<1>7. ASSUME NEW t \in Threads, NativeContinue(t) PROVE DepthInv'
  BY <1>7 DEF NativeContinue, ContinueStoring
<1>8. ASSUME NEW t \in Threads, ServeFinished(t) PROVE DepthInv'
  BY <1>8 DEF ServeFinished, AfterFrame
<1>9. ASSUME NEW t \in Threads, ServeCallback(t) PROVE DepthInv'
  BY <1>9 DEF ServeCallback
<1>10. ASSUME NEW t \in Threads, ServeCreate(t) PROVE DepthInv'
  BY <1>10 DEF ServeCreate, PrepareInfo
<1>11. ASSUME NEW t \in Threads, NEW u \in Threads, SpawnOk(t, u) PROVE DepthInv'
  BY <1>11 DEF SpawnOk, AfterCreate
<1>12. ASSUME NEW t \in Threads, SpawnFail(t) PROVE DepthInv'
  BY <1>12 DEF SpawnFail, AfterCreate
<1>13. ASSUME NEW t \in Threads, CondWait(t) PROVE DepthInv'
  BY <1>13 DEF CondWait
<1>14. ASSUME NEW t \in Threads, Reacquire(t) PROVE DepthInv'
  BY <1>14 DEF Reacquire
<1>15. ASSUME NEW t \in Threads, Unlock(t) PROVE DepthInv'
  BY <1>15 DEF Unlock
<1>16. ASSUME NEW t \in Threads, Destroy(t) PROVE DepthInv'
  BY <1>16 DEF Destroy, Answer
<1>17. ASSUME NEW t \in Threads, ServeExit(t) PROVE DepthInv'
  BY <1>17 DEF ServeExit
<1>18. ASSUME NEW t \in Threads, Resume(t) PROVE DepthInv'
  BY <1>18 DEF Resume
<1>19. ASSUME NEW t \in Threads, EntryRead(t) PROVE DepthInv'
  BY <1>19 DEF EntryRead
<1>20. ASSUME NEW t \in Threads, EntryLock(t) PROVE DepthInv'
  BY <1>20 DEF EntryLock
<1>21. ASSUME NEW t \in Threads, EntryBroadcast(t) PROVE DepthInv'
  BY <1>21 DEF EntryBroadcast, Wake
<1>22. ASSUME NEW t \in Threads, EntryUnlock(t) PROVE DepthInv'
  BY <1>22 DEF EntryUnlock
<1>23. ASSUME NEW t \in Threads, EntryStart(t) PROVE DepthInv'
  BY <1>23 DEF EntryStart, CallNative
<1>24. ASSUME NEW t \in Threads, SpuriousWake(t) PROVE DepthInv'
  BY <1>24 DEF SpuriousWake
<1>25. CASE UNCHANGED vars
  BY <1>25 DEF vars
<1> QED
  BY <1>1, <1>2, <1>3, <1>4, <1>5, <1>6, <1>7, <1>8, <1>9, <1>10, <1>11, <1>12, <1>13, <1>14, <1>15, <1>16, <1>17, <1>18, <1>19, <1>20, <1>21, <1>22, <1>23, <1>24, <1>25
     DEF Next, Program, Serve, Enter, Terminated

LEMMA RequestTypes ==
  /\ NoRequest \in Requests
  /\ \A r \in Requests : r.fn \in Fns \cup {None} /\ r.ref \in Slots \cup {None}
  /\ \A fn \in Fns \cup {None}, s \in Slots \cup {None} : [fn |-> fn, ref |-> s] \in Requests
BY DEF Requests, NoRequest

LEMMA NewCallType ==
  /\ NoCall \in Calls
  /\ \A fn \in Fns \cup {None}, s \in Slots : [NoCall EXCEPT !.fn = fn, !.buf = s] \in Calls
BY DEF Calls, NoCall

LEMMA CallTypes ==
  ASSUME NEW x \in Calls
  PROVE  /\ \A kind \in Asks, fn \in Fns \cup {None} :
              [x EXCEPT !.ask = kind, !.arg = fn, !.ret = "unset", !.id = None] \in Calls
         /\ \A id \in Threads \cup {None} :
              [x EXCEPT !.ask = "none", !.arg = None, !.id = id] \in Calls
         /\ \A ret \in {"ok", "error"} : [x EXCEPT !.ret = ret] \in Calls
<1>1. ASSUME NEW kind \in Asks, NEW fn \in Fns \cup {None}
      PROVE  [x EXCEPT !.ask = kind, !.arg = fn, !.ret = "unset", !.id = None] \in Calls
  BY DEF Calls
<1>2. ASSUME NEW id \in Threads \cup {None}
      PROVE  [x EXCEPT !.ask = "none", !.arg = None, !.id = id] \in Calls
  BY DEF Calls
<1>3. ASSUME NEW ret \in {"ok", "error"} PROVE [x EXCEPT !.ret = ret] \in Calls
  BY DEF Calls
<1> QED
  BY <1>1, <1>2, <1>3

LEMMA InfoTypes ==
  ASSUME NEW x \in Infos
  PROVE  /\ x.entry \in Fns \cup {None} /\ x.thread \in Threads \cup {None}
         /\ \A t \in Threads \cup {None} : /\ [x EXCEPT !.holder = t] \in Infos
                                           /\ [x EXCEPT !.thread = t] \in Infos
         /\ [NoInfo EXCEPT !.thread = x.thread] \in Infos
BY DEF Infos, NoInfo

LEMMA NewInfoType ==
  \A t \in Threads \cup {None}, fn \in Fns \cup {None} :
    [live |-> TRUE, holder |-> t, entry |-> fn, thread |-> None] \in Infos
BY DEF Infos

LEMMA CallNativeType ==
  ASSUME TypeOK, NEW t \in Threads, NEW f \in Fns \cup {None}, CallNative(t, f)
  PROVE  TypeOK'
<1>1. depth' \in [Threads -> 0 .. MaxDepth] /\ calls' \in [Threads -> 0 .. MaxDepth]
  BY DEF TypeOK, CallNative
<1>2. NextCall(t, depth[t] + 1) \in Slots
  BY SlotType DEF TypeOK, CallNative, NextCall
<1>3. native' \in [Slots -> Calls]
  BY <1>2, NewCallType DEF TypeOK, CallNative
<1>4. pc' \in [Threads -> Labels]
  BY DEF TypeOK, CallNative, Goto, Labels
<1> QED
  BY <1>1, <1>3, <1>4 DEF TypeOK, CallNative, threadVars

LEMMA TypeStep == Inv1 /\ [Next]_vars => TypeOK'
<1> SUFFICES ASSUME Inv1, [Next]_vars PROVE TypeOK'
  OBVIOUS
<1>a. TypeOK /\ DepthInv
  BY DEF Inv1
<1>b. \A t \in Threads :
        /\ pc[t] \in InFrame => Frame(t) \in Slots /\ NextCall(t, depth[t]) \in Slots
        /\ pc[t] \in InFrame \ {"Finished"} => Innermost(t) \in Slots
        /\ depth[t] < MaxDepth => NextCall(t, depth[t] + 1) \in Slots
  BY FramesAreSlots
<1> USE <1>a, <1>b DEF TypeOK, Labels, Goto, guestVars, hostVars, threadVars,
        InFrame, Frameless, Asks, Creating, Starting
<1>1. ASSUME NEW t \in Threads, NEW f \in Fns, GuestCall(t, f) PROVE TypeOK'
  BY <1>1, CallNativeType DEF GuestCall
<1>2. ASSUME NEW t \in Threads, NEW f \in Fns, NativeCallback(t, f) PROVE TypeOK'
  BY <1>2, CallTypes, RequestTypes DEF NativeCallback, Ask, Running
<1>3. ASSUME NEW t \in Threads, NEW f \in Fns, NativeCreate(t, f) PROVE TypeOK'
  BY <1>3, CallTypes, RequestTypes DEF NativeCreate, Ask, Running
<1>4. ASSUME NEW t \in Threads, NativeExit(t) PROVE TypeOK'
  BY <1>4, CallTypes, RequestTypes DEF NativeExit, Ask, Running
<1>5. ASSUME NEW t \in Threads, NativeFinish(t) PROVE TypeOK'
  <2>1. calls' \in [Threads -> 0 .. MaxDepth]
    BY <1>5 DEF NativeFinish, Running
  <2>2. native' \in [Slots -> Calls]
    BY <1>5, NewCallType DEF NativeFinish, Running
  <2> QED
    BY <1>5, <2>1, <2>2 DEF NativeFinish
<1>6. ASSUME NEW t \in Threads, CallbackReturn(t) PROVE TypeOK'
  BY <1>6, CallTypes, RequestTypes DEF CallbackReturn, Answer
<1>7. ASSUME NEW t \in Threads, NativeContinue(t) PROVE TypeOK'
  <2>1. PICK id \in Threads \cup {None} : ContinueStoring(t, id)
    BY <1>7 DEF NativeContinue
  <2> QED
    BY <2>1, CallTypes DEF ContinueStoring
<1>8. ASSUME NEW t \in Threads, ServeFinished(t) PROVE TypeOK'
  <2>1. depth' \in [Threads -> 0 .. MaxDepth]
    BY <1>8 DEF ServeFinished, AfterFrame, DepthInv
  <2>2. next' \in [Slots -> Requests] /\ local' \in [Slots -> Requests]
    BY <1>8, RequestTypes DEF ServeFinished, AfterFrame
  <2> QED
    BY <1>8, <2>1, <2>2 DEF ServeFinished, AfterFrame
<1>9. ASSUME NEW t \in Threads, ServeCallback(t) PROVE TypeOK'
  BY <1>9, RequestTypes DEF ServeCallback
<1>10. ASSUME NEW t \in Threads, ServeCreate(t) PROVE TypeOK'
  BY <1>10, RequestTypes, NewInfoType DEF ServeCreate, PrepareInfo
<1>11. ASSUME NEW t \in Threads, NEW u \in Threads, SpawnOk(t, u) PROVE TypeOK'
  <2>1. elder' \in [Threads -> SUBSET Threads]
    BY <1>11 DEF SpawnOk, Made
  <2>2. pc' \in [Threads -> Labels] /\ info' \in [Threads -> Infos] /\ parent' \in [Threads -> Threads \cup {None}]
    BY <1>11, InfoTypes DEF SpawnOk, AfterCreate
  <2> QED
    BY <1>11, <2>1, <2>2 DEF SpawnOk
<1>12. ASSUME NEW t \in Threads, SpawnFail(t) PROVE TypeOK'
  BY <1>12 DEF SpawnFail, AfterCreate
<1>13. ASSUME NEW t \in Threads, CondWait(t) PROVE TypeOK'
  BY <1>13, InfoTypes DEF CondWait
<1>14. ASSUME NEW t \in Threads, Reacquire(t) PROVE TypeOK'
  BY <1>14, InfoTypes DEF Reacquire
<1>15. ASSUME NEW t \in Threads, Unlock(t) PROVE TypeOK'
  BY <1>15, InfoTypes DEF Unlock
<1>16. ASSUME NEW t \in Threads, Destroy(t) PROVE TypeOK'
  BY <1>16, CallTypes, InfoTypes, RequestTypes DEF Destroy, Answer
<1>17. ASSUME NEW t \in Threads, ServeExit(t) PROVE TypeOK'
  <2>1. next' \in [Slots -> Requests] /\ local' \in [Slots -> Requests]
    BY <1>17, RequestTypes DEF ServeExit
  <2>2. native' \in [Slots -> Calls]
    BY <1>17, NewCallType DEF ServeExit
  <2>3. depth' \in [Threads -> 0 .. MaxDepth] /\ calls' \in [Threads -> 0 .. MaxDepth]
    BY <1>17 DEF ServeExit
  <2> QED
    BY <1>17, <2>1, <2>2, <2>3 DEF ServeExit
<1>18. ASSUME NEW t \in Threads, Resume(t) PROVE TypeOK'
  BY <1>18 DEF Resume
<1>19. ASSUME NEW t \in Threads, EntryRead(t) PROVE TypeOK'
  <2>1. parent[t] \in Threads
    BY <1>19 DEF EntryRead, DepthInv
  <2>2. info[parent[t]].entry \in Fns \cup {None}
    BY <2>1, InfoTypes
  <2>3. PICK f \in Fns \cup {None} : entry' = [entry EXCEPT ![t] = f]
    BY <1>19, <2>2 DEF EntryRead
  <2>4. entry' \in [Threads -> Fns \cup {None}]
    BY <2>3
  <2> QED
    BY <1>19, <2>4 DEF EntryRead
<1>20. ASSUME NEW t \in Threads, EntryLock(t) PROVE TypeOK'
  BY <1>20, InfoTypes DEF EntryLock
<1>21. ASSUME NEW t \in Threads, EntryBroadcast(t) PROVE TypeOK'
  BY <1>21 DEF EntryBroadcast, Wake
<1>22. ASSUME NEW t \in Threads, EntryUnlock(t) PROVE TypeOK'
  BY <1>22, InfoTypes DEF EntryUnlock
<1>23. ASSUME NEW t \in Threads, EntryStart(t) PROVE TypeOK'
  <2>1. entry[t] \in Fns \cup {None}
    OBVIOUS
  <2> QED
    BY <1>23, <2>1, CallNativeType DEF EntryStart
<1>24. ASSUME NEW t \in Threads, SpuriousWake(t) PROVE TypeOK'
  BY <1>24 DEF SpuriousWake
<1>25. CASE UNCHANGED vars
  BY <1>25 DEF vars
<1> QED
  BY <1>1, <1>2, <1>3, <1>4, <1>5, <1>6, <1>7, <1>8, <1>9, <1>10, <1>11, <1>12, <1>13, <1>14, <1>15, <1>16, <1>17, <1>18, <1>19, <1>20, <1>21, <1>22, <1>23, <1>24, <1>25
     DEF Next, Program, Serve, Enter, Terminated

LEMMA Inv1Step == Inv1 /\ [Next]_vars => Inv1'
BY DepthStep, TypeStep DEF Inv1

\* Every variable keeps its type; in particular no frame is popped that was not
\* pushed, and no native call is resumed that is not open.
THEOREM TypeCorrect == Spec => []TypeOK
<1>1. Inv1 => TypeOK
  BY DEF Inv1
<1> QED
  BY <1>1, Inv1Init, Inv1Step, PTL DEF Spec

-----------------------------------------------------------------------------
(* The handshake of creator and created, with condition variables that only *)
(* return when signalled.  What each side knows of the other, by label:     *)

\* A creator knows who holds its mutex and how far its new thread can be.
CreatorKnows(t) ==
  LET u == info[t].thread IN
  /\ pc[t] = "spawn"   => info[t].live /\ info[t].holder = t /\ u = None
  /\ pc[t] \in {"park", "waiting", "woken"} =>
       info[t].live /\ u \in Threads /\ u # t /\ parent[u] = t
  /\ pc[t] = "park"    => info[t].holder = t /\ pc[u] \in {"entry", "lock"}
  /\ pc[t] = "waiting" => /\ pc[u] \in {"entry", "lock", "broadcast"}
                          /\ info[t].holder = IF pc[u] = "broadcast" THEN u ELSE None
  /\ pc[t] = "woken"   => info[t].holder = IF pc[u] = "release" THEN u ELSE None
  /\ pc[t] = "unlock"  => info[t].holder = t
  /\ pc[t] = "destroy" => info[t].holder = None

\* A new thread knows that its creator waits for it.
CreatedKnows(u) ==
  LET t == parent[u] IN
  /\ pc[u] = "unborn" => t = None
  /\ pc[u] \in {"entry", "lock", "broadcast", "release"} =>
       t \in Threads /\ info[t].live /\ info[t].thread = u
  /\ pc[u] \in {"entry", "lock"} => pc[t] \in {"park", "waiting"}
  /\ pc[u] = "broadcast"         => pc[t] = "waiting" /\ info[t].holder = u
  /\ pc[u] = "release"           => pc[t] = "woken" /\ info[t].holder = u

HandshakeInv == \A t \in Threads : CreatorKnows(t) /\ CreatedKnows(t)

LEMMA HandshakeInit == Init => HandshakeInv
BY ZenonT(30) DEF Init, HandshakeInv, CreatorKnows, CreatedKnows, NoInfo

LEMMA HandshakeStep ==
  ASSUME ~ SpuriousWakeups, TypeOK, DepthInv, HandshakeInv, [Next]_vars
  PROVE  HandshakeInv'
<1> USE DEF TypeOK, Infos, HandshakeInv, CreatorKnows, CreatedKnows, Labels, Goto,
            guestVars, hostVars, threadVars, Asks, Creating, Starting
<1>1. ASSUME NEW t \in Threads, NEW f \in Fns, GuestCall(t, f) PROVE HandshakeInv'
  BY <1>1 DEF GuestCall, CallNative
<1>2. ASSUME NEW t \in Threads, NEW f \in Fns, NativeCallback(t, f) PROVE HandshakeInv'
  BY <1>2 DEF NativeCallback, Ask, Running
<1>3. ASSUME NEW t \in Threads, NEW f \in Fns, NativeCreate(t, f) PROVE HandshakeInv'
  BY <1>3 DEF NativeCreate, Ask, Running
<1>4. ASSUME NEW t \in Threads, NativeExit(t) PROVE HandshakeInv'
  BY <1>4 DEF NativeExit, Ask, Running
<1>5. ASSUME NEW t \in Threads, NativeFinish(t) PROVE HandshakeInv'
  BY <1>5 DEF NativeFinish, Running
<1>6. ASSUME NEW t \in Threads, CallbackReturn(t) PROVE HandshakeInv'
  BY <1>6 DEF CallbackReturn, Answer
<1>7. ASSUME NEW t \in Threads, NativeContinue(t) PROVE HandshakeInv'
  BY <1>7 DEF NativeContinue, ContinueStoring
<1>8. ASSUME NEW t \in Threads, ServeFinished(t) PROVE HandshakeInv'
  BY <1>8 DEF ServeFinished, AfterFrame
<1>9. ASSUME NEW t \in Threads, ServeCallback(t) PROVE HandshakeInv'
  BY <1>9 DEF ServeCallback
<1>10. ASSUME NEW t \in Threads, ServeCreate(t) PROVE HandshakeInv'
  BY <1>10 DEF ServeCreate, PrepareInfo
<1>11. ASSUME NEW t \in Threads, NEW u \in Threads, SpawnOk(t, u) PROVE HandshakeInv'
  <2>1. /\ t # u /\ pc[t] = "spawn" /\ pc[u] = "unborn"
        /\ pc' = [pc EXCEPT ![t] = "park", ![u] = "entry"]
        /\ info' = [info EXCEPT ![t] = [info[t] EXCEPT !.thread = u]]
        /\ parent' = [parent EXCEPT ![u] = t]
    BY <1>11 DEF SpawnOk, AfterCreate
  <2>2. /\ info'[t].live /\ info'[t].holder = t /\ info'[t].thread = u
        /\ parent'[u] = t /\ pc'[t] = "park" /\ pc'[u] = "entry"
    BY <2>1
  <2>3. ASSUME NEW v \in Threads PROVE CreatorKnows(v)'
    <3>1. CASE v = t
      BY <2>1, <2>2, <3>1
    <3>2. CASE v = u
      BY <2>1, <2>2, <3>2
    <3>3. CASE v \notin {t, u}
      <4>1. info'[v] = info[v] /\ pc'[v] = pc[v]
        BY <2>1, <3>3
      <4>2. \A w \in Threads \ {t, u} : pc'[w] = pc[w] /\ parent'[w] = parent[w]
        BY <2>1
      <4> QED
        BY <2>1, <2>2, <3>3, <4>1, <4>2
    <3> QED
      BY <3>1, <3>2, <3>3
  <2>4. ASSUME NEW v \in Threads PROVE CreatedKnows(v)'
    BY <2>1, <2>2
  <2> QED
    BY <2>3, <2>4
<1>12. ASSUME NEW t \in Threads, SpawnFail(t) PROVE HandshakeInv'
  BY <1>12 DEF SpawnFail, AfterCreate
<1>13. ASSUME NEW t \in Threads, CondWait(t) PROVE HandshakeInv'
  BY <1>13 DEF CondWait
<1>14. ASSUME NEW t \in Threads, Reacquire(t) PROVE HandshakeInv'
  BY <1>14 DEF Reacquire
<1>15. ASSUME NEW t \in Threads, Unlock(t) PROVE HandshakeInv'
  BY <1>15 DEF Unlock
<1>16. ASSUME NEW t \in Threads, Destroy(t) PROVE HandshakeInv'
  BY <1>16 DEF Destroy, Answer
<1>17. ASSUME NEW t \in Threads, ServeExit(t) PROVE HandshakeInv'
  BY <1>17 DEF ServeExit
<1>18. ASSUME NEW t \in Threads, Resume(t) PROVE HandshakeInv'
  BY <1>18 DEF Resume
<1>19. ASSUME NEW t \in Threads, EntryRead(t) PROVE HandshakeInv'
  BY <1>19 DEF EntryRead
<1>20. ASSUME NEW t \in Threads, EntryLock(t) PROVE HandshakeInv'
  BY <1>20 DEF EntryLock
<1>21. ASSUME NEW t \in Threads, EntryBroadcast(t) PROVE HandshakeInv'
  BY <1>21 DEF EntryBroadcast, Wake
<1>22. ASSUME NEW t \in Threads, EntryUnlock(t) PROVE HandshakeInv'
  BY <1>22 DEF EntryUnlock
<1>23. ASSUME NEW t \in Threads, EntryStart(t) PROVE HandshakeInv'
  BY <1>23 DEF EntryStart, CallNative
<1>24. ASSUME NEW t \in Threads, SpuriousWake(t) PROVE HandshakeInv'
  BY <1>24 DEF SpuriousWake
<1>25. CASE UNCHANGED vars
  BY <1>25 DEF vars
<1> QED
  BY <1>1, <1>2, <1>3, <1>4, <1>5, <1>6, <1>7, <1>8, <1>9, <1>10, <1>11, <1>12, <1>13, <1>14, <1>15, <1>16, <1>17, <1>18, <1>19, <1>20, <1>21, <1>22, <1>23, <1>24, <1>25
     DEF Next, Program, Serve, Enter, Terminated

LEMMA HandshakeInvariant ==
  ASSUME ~ SpuriousWakeups PROVE Spec => [](Inv1 /\ HandshakeInv)
<1>1. Inv1 /\ HandshakeInv /\ [Next]_vars => (Inv1 /\ HandshakeInv)'
  BY Inv1Step, HandshakeStep DEF Inv1
<1> QED
  BY <1>1, Inv1Init, HandshakeInit, PTL DEF Spec

\* The new thread only ever touches the thread_info of a creator that still
\* waits for it: without spurious wakeups, the wait needs no loop.
THEOREM InfoOutlives ==
  ASSUME ~ SpuriousWakeups PROVE Spec => []InfoOutlivesChild
<1>1. HandshakeInv => InfoOutlivesChild
  BY DEF HandshakeInv, CreatorKnows, CreatedKnows, InfoOutlivesChild, Starting
<1> QED
  BY <1>1, HandshakeInvariant, PTL

\* A waiting creator is still going to be signalled: pthread_create is called
\* with the mutex held.
THEOREM WakeupNotLost ==
  ASSUME ~ SpuriousWakeups PROVE Spec => []NoLostWakeup
<1>1. Inv1 /\ HandshakeInv => NoLostWakeup
  BY DEF Inv1, HandshakeInv, CreatorKnows, NoLostWakeup
<1> QED
  BY <1>1, HandshakeInvariant, PTL

\* info.mutex is only unlocked and waited with by its holder, and is free when
\* it is destroyed.
THEOREM MutexDisciplined ==
  ASSUME ~ SpuriousWakeups PROVE Spec => []MutexDiscipline
<1>1. HandshakeInv => MutexDiscipline
  BY DEF HandshakeInv, CreatorKnows, CreatedKnows, MutexDiscipline
<1> QED
  BY <1>1, HandshakeInvariant, PTL

-----------------------------------------------------------------------------
(* The nesting of native calls and serve frames, and the ids that          *)
(* x64nc_pthread_create stores.                                            *)

USE ThreadsAssumption, FnsAssumption, DepthAssumption, FlagsAssumption

-----------------------------------------------------------------------------
(* What the slots of a thread hold, by the label of the thread.            *)

\* The c-th open call of t waits for the callback that its frame is serving.
Suspended(t, c) ==
  /\ native[<<t, c>>].ask = "Callback"
  /\ native[<<t, c>>].ret = "unset"
  /\ native[<<t, c>>].arg \in Fns
  /\ local[<<t, c>>] = [fn |-> native[<<t, c>>].arg, ref |-> <<t, c>>]

\* The open calls under the one that runs; all of them while guest code does.
Outer(t) ==
  IF pc[t] \in {"guest", "Finished"} THEN 1 .. calls[t] ELSE 1 .. (calls[t] - 1)

\* A native call was given the buffer of its own frame.
BufferOwned(t) == \A c \in 1 .. calls[t] : native[<<t, c>>].buf = <<t, c>>

OuterSuspended(t) == \A c \in Outer(t) : Suspended(t, c)

\* Slots of frames and calls that are not open are clean.
Unused(t) ==
  /\ \A d \in 1 .. MaxDepth : d > depth[t] => local[<<t, d>>] = NoRequest
  /\ \A c \in 1 .. MaxDepth : c > calls[t] => native[<<t, c>>] = NoCall

\* A request on its way to the serve loop is in next_call, whole; one being
\* served is in the frame; one that is answered is gone from both.
InnermostKnows(t) ==
  LET n == native[<<t, depth[t]>>]
      l == local[<<t, depth[t]>>]
      q == next[<<t, depth[t]>>]
  IN
  /\ pc[t] \in Asks =>
       /\ n.ask = pc[t] /\ n.ret = "unset" /\ l = NoRequest
       /\ q.fn = n.arg
       /\ pc[t] # "PThreadExit" => n.arg \in Fns /\ q.ref = <<t, depth[t]>>
  /\ pc[t] \in Creating =>
       /\ n.ask = "PThreadCreate" /\ n.ret = "unset" /\ n.arg \in Fns
       /\ l = [fn |-> n.arg, ref |-> <<t, depth[t]>>]
       /\ info[t].entry = n.arg
  /\ pc[t] = "resume" =>
       n.ask \in {"Callback", "PThreadCreate"} /\ n.ret # "unset" /\ l = NoRequest
  /\ pc[t] = "trap" =>
       /\ n.ask \in {"none", "Callback", "PThreadCreate"}
       /\ n.ask # "none" => n.ret # "unset"
       /\ l = NoRequest

NestInv(t) == BufferOwned(t) /\ OuterSuspended(t) /\ Unused(t) /\ InnermostKnows(t)

NestingInv == \A t \in Threads : NestInv(t)

LEMMA NestingInit == Init => NestingInv
<1> SUFFICES ASSUME Init, NEW t \in Threads PROVE NestInv(t)
  BY DEF NestingInv
<1>1. calls[t] = 0 /\ depth[t] = 0 /\ pc[t] \in {"guest", "unborn"}
  BY DEF Init
<1>2. BufferOwned(t) /\ OuterSuspended(t)
  BY <1>1 DEF BufferOwned, OuterSuspended, Outer
<1>3. Unused(t)
  BY SlotType DEF Init, Unused
<1>4. InnermostKnows(t)
  BY <1>1 DEF InnermostKnows, Asks, Creating
<1> QED
  BY <1>2, <1>3, <1>4 DEF NestInv

\* A step that leaves the slots of x alone, and x in the same phase.
Untouched(x) ==
  /\ depth'[x] = depth[x] /\ calls'[x] = calls[x]
  /\ info'[x].entry = info[x].entry
  /\ \A d \in 1 .. MaxDepth : /\ native'[<<x, d>>] = native[<<x, d>>]
                              /\ next'[<<x, d>>] = next[<<x, d>>]
                              /\ local'[<<x, d>>] = local[<<x, d>>]
  /\ \/ pc'[x] = pc[x]
     \/ {pc[x], pc'[x]} \subseteq {"unborn"} \cup Starting
     \/ {pc[x], pc'[x]} \subseteq Creating

LEMMA UntouchedNest ==
  ASSUME Inv1, NEW x \in Threads, Untouched(x), NestInv(x)
  PROVE  NestInv(x)'
<1> USE DEF Inv1, TypeOK, Untouched, NestInv
<1>1. BufferOwned(x)'
  BY DEF BufferOwned
<1>2. Unused(x)'
  BY DEF Unused
<1>3. Outer(x)' = Outer(x) /\ Outer(x) \subseteq 1 .. MaxDepth
  BY DEF Outer, Creating, Starting
<1>4. OuterSuspended(x)'
  BY <1>3 DEF OuterSuspended, Suspended
<1>5. pc[x] \in InFrame => depth[x] \in 1 .. MaxDepth
  BY DEF DepthInv
<1>6. InnermostKnows(x)'
  BY <1>5 DEF InnermostKnows, InFrame, Asks, Creating, Starting
<1> QED
  BY <1>1, <1>2, <1>4, <1>6

\* One step: other threads' slots are left alone, the stepping thread's change.
StepBy(t) == NestInv(t)' /\ \A x \in Threads \ {t} : Untouched(x)

LEMMA StepByNest ==
  ASSUME Inv1, NestingInv, NEW t \in Threads, StepBy(t)
  PROVE  NestingInv'
BY UntouchedNest DEF NestingInv, StepBy

LEMMA CallNativeNest ==
  ASSUME Inv1, NestingInv, NEW t \in Threads, NEW f \in Fns \cup {None},
         CallNative(t, f), pc[t] \in {"guest", "start"}
  PROVE  StepBy(t)
<1> DEFINE k == depth[t] + 1
           new == [NoCall EXCEPT !.fn = f, !.buf = <<t, k>>]
<1>1. calls[t] = depth[t] /\ depth[t] \in Nat /\ k \in 1 .. MaxDepth /\ MaxDepth \in Nat
  BY DEF Inv1, TypeOK, DepthInv, CallNative
<1>2. /\ depth' = [depth EXCEPT ![t] = k] /\ calls' = [calls EXCEPT ![t] = k]
      /\ pc' = [pc EXCEPT ![t] = "trap"]
      /\ native' = [native EXCEPT ![<<t, k>>] = new]
      /\ UNCHANGED <<next, local, info>>
  BY <1>1 DEF CallNative, NextCall, Goto, threadVars
<1>3. /\ depth'[t] = k /\ calls'[t] = k /\ pc'[t] = "trap"
      /\ \A d \in 1 .. MaxDepth : native'[<<t, d>>] = IF d = k THEN new ELSE native[<<t, d>>]
  BY <1>1, <1>2, SlotType DEF Inv1, TypeOK
<1>4. \A x \in Threads \ {t} : Untouched(x)
  BY <1>1, <1>2, SlotType DEF Inv1, TypeOK, Untouched
<1>5. new.buf = <<t, k>> /\ new.ask = "none"
  BY DEF NoCall
<1> HIDE DEF new
<1>6. NestInv(t)
  BY DEF NestingInv
<1>7. BufferOwned(t)'
  BY <1>1, <1>3, <1>5, <1>6 DEF NestInv, BufferOwned
<1>8. OuterSuspended(t)'
  <2>1. Outer(t)' = 1 .. calls[t]
    BY <1>1, <1>3 DEF Outer
  <2>2. ASSUME NEW c \in 1 .. calls[t] PROVE Suspended(t, c)'
    <3>1. pc[t] = "guest"
      BY <2>2, <1>1 DEF Inv1, DepthInv, Frameless, Starting
    <3>2. Suspended(t, c)
      BY <3>1, <1>6 DEF NestInv, OuterSuspended, Outer
    <3> QED
      BY <1>1, <1>2, <1>3, <3>2 DEF Suspended
  <2> QED
    BY <2>1, <2>2 DEF OuterSuspended
<1>8a. Unused(t)'
  BY <1>1, <1>2, <1>3, <1>6 DEF NestInv, Unused
<1>9. InnermostKnows(t)'
  <2>1. local[<<t, k>>] = NoRequest
    BY <1>1, <1>6 DEF NestInv, Unused
  <2> QED
    BY <1>1, <1>2, <1>3, <1>5, <2>1 DEF InnermostKnows, Asks, Creating
<1> QED
  BY <1>4, <1>7, <1>8, <1>8a, <1>9 DEF NestInv, StepBy

\* Steps that neither push nor pop change the innermost slot k only.
LEMMA InnermostNest ==
  ASSUME Inv1, NestingInv, NEW t \in Threads, NEW k,
         k = depth[t], calls[t] = k, k > 0,
         depth'[t] = k, calls'[t] = k, pc'[t] # "Finished",
         \A d \in 1 .. MaxDepth : d # k => /\ native'[<<t, d>>] = native[<<t, d>>]
                                           /\ local'[<<t, d>>] = local[<<t, d>>],
         native'[<<t, k>>].buf = native[<<t, k>>].buf,
         pc'[t] = "guest" => Suspended(t, k)',
         InnermostKnows(t)',
         \A x \in Threads \ {t} : Untouched(x)
  PROVE  StepBy(t)
<1>1. k \in 1 .. MaxDepth /\ MaxDepth \in Nat
  BY DEF Inv1, TypeOK
<1>2. NestInv(t)
  BY DEF NestingInv
<1>3. BufferOwned(t)'
  BY <1>1, <1>2 DEF NestInv, BufferOwned
<1>4. OuterSuspended(t)'
  <2>1. ASSUME NEW c \in 1 .. (k - 1) PROVE Suspended(t, c)'
    <3>1. Suspended(t, c)
      BY <1>1, <1>2 DEF NestInv, OuterSuspended, Outer
    <3> QED
      BY <1>1, <3>1 DEF Suspended
  <2>2. Outer(t)' = IF pc'[t] = "guest" THEN 1 .. k ELSE 1 .. (k - 1)
    BY DEF Outer
  <2>3. \A c \in 1 .. k : c = k \/ c \in 1 .. (k - 1)
    BY <1>1
  <2> QED
    BY <2>1, <2>2, <2>3 DEF OuterSuspended
<1>5. Unused(t)'
  BY <1>1, <1>2 DEF NestInv, Unused
<1> QED
  BY <1>3, <1>4, <1>5 DEF NestInv, StepBy

LEMMA AskNest ==
  ASSUME Inv1, NestingInv, NEW t \in Threads, NEW kind \in Asks, NEW f \in Fns \cup {None}, NEW ref,
         Ask(t, kind, f, ref), kind # "PThreadExit" => f \in Fns /\ ref = Innermost(t)
  PROVE  StepBy(t)
<1> DEFINE k == depth[t]
           new == [native[<<t, k>>] EXCEPT !.ask = kind, !.arg = f, !.ret = "unset", !.id = None]
<1>1. /\ pc[t] = "trap" /\ calls[t] = k /\ k \in Nat /\ k > 0
      /\ k \in 1 .. MaxDepth /\ Innermost(t) = <<t, k>>
  BY DEF Inv1, TypeOK, DepthInv, InFrame, Ask, Running, Innermost
<1>2. NestInv(t)
  BY DEF NestingInv
<1>3. native[<<t, k>>].buf = <<t, k>>
  BY <1>1, <1>2 DEF NestInv, BufferOwned
<1>4. /\ depth' = depth /\ calls' = calls /\ local' = local /\ info' = info
      /\ pc' = [pc EXCEPT ![t] = kind]
      /\ native' = [native EXCEPT ![<<t, k>>] = new]
      /\ next' = [next EXCEPT ![<<t, k>>] = [fn |-> f, ref |-> ref]]
  BY <1>1, <1>3 DEF Ask, Goto, threadVars
<1>5. /\ pc'[t] = kind
      /\ \A d \in 1 .. MaxDepth : native'[<<t, d>>] = IF d = k THEN new ELSE native[<<t, d>>]
      /\ next'[<<t, k>>] = [fn |-> f, ref |-> ref]
  BY <1>1, <1>4, SlotType DEF Inv1, TypeOK
<1>6. \A x \in Threads \ {t} : Untouched(x)
  BY <1>1, <1>4, SlotType DEF Inv1, TypeOK, Untouched
<1>7. /\ new.buf = native[<<t, k>>].buf /\ new.ask = kind /\ new.arg = f /\ new.ret = "unset"
  BY <1>1, SlotType DEF Inv1, TypeOK, Calls
<1>8. local[<<t, k>>] = NoRequest
  BY <1>1, <1>2 DEF NestInv, InnermostKnows
<1> HIDE DEF new
<1>9. InnermostKnows(t)'
  BY <1>1, <1>4, <1>5, <1>7, <1>8 DEF InnermostKnows, Asks, Creating
<1> QED
  BY InnermostNest, <1>1, <1>4, <1>5, <1>6, <1>7, <1>9 DEF Asks

\* The answer of a callback or of a thread creation goes to the innermost call.
LEMMA AnswerNest ==
  ASSUME Inv1, NestingInv, NEW t \in Threads, NEW ret \in {"ok", "error"},
         (pc[t] = "guest" /\ depth[t] > 0) \/ pc[t] = "destroy",
         Answer(local[Frame(t)].ref, ret),
         local' = [local EXCEPT ![Frame(t)] = NoRequest], Goto(t, "resume"),
         UNCHANGED <<depth, next, calls>>,
         \A x \in Threads \ {t} : info'[x] = info[x]
  PROVE  StepBy(t)
<1> DEFINE k == depth[t]
           new == [native[<<t, k>>] EXCEPT !.ret = ret]
<1>1. calls[t] = k /\ k \in Nat /\ k > 0 /\ k \in 1 .. MaxDepth /\ Frame(t) = <<t, k>>
  BY DEF Inv1, TypeOK, DepthInv, InFrame, Creating, Frame
<1>2. NestInv(t)
  BY DEF NestingInv
<1>3. /\ local[<<t, k>>].ref = <<t, k>>
      /\ native[<<t, k>>].ask \in {"Callback", "PThreadCreate"}
  BY <1>1, <1>2 DEF NestInv, OuterSuspended, Outer, Suspended, InnermostKnows, Creating
<1>4. /\ pc' = [pc EXCEPT ![t] = "resume"]
      /\ native' = [native EXCEPT ![<<t, k>>] = new]
      /\ local' = [local EXCEPT ![<<t, k>>] = NoRequest]
  BY <1>1, <1>3 DEF Answer, Goto
<1>5. /\ pc'[t] = "resume"
      /\ \A d \in 1 .. MaxDepth : native'[<<t, d>>] = IF d = k THEN new ELSE native[<<t, d>>]
      /\ \A d \in 1 .. MaxDepth : local'[<<t, d>>] = IF d = k THEN NoRequest ELSE local[<<t, d>>]
  BY <1>1, <1>4, SlotType DEF Inv1, TypeOK
<1>6. \A x \in Threads \ {t} : Untouched(x)
  BY <1>1, <1>4, SlotType DEF Inv1, TypeOK, Untouched
<1>7. /\ new.buf = native[<<t, k>>].buf /\ new.ask = native[<<t, k>>].ask /\ new.ret = ret
  BY <1>1, SlotType DEF Inv1, TypeOK, Calls
<1> HIDE DEF new
<1>8. InnermostKnows(t)'
  BY <1>1, <1>3, <1>5, <1>7 DEF InnermostKnows, Asks, Creating
<1> QED
  BY InnermostNest, <1>1, <1>5, <1>6, <1>7, <1>8

LEMMA UntouchedNesting ==
  ASSUME Inv1, NestingInv, NEW t \in Threads, \A x \in Threads : Untouched(x)
  PROVE  StepBy(t)
BY UntouchedNest DEF NestingInv, StepBy

LEMMA ContinueNest ==
  ASSUME Inv1, NestingInv, NEW t \in Threads, NativeContinue(t)
  PROVE  StepBy(t)
<1>0. PICK last \in Threads \cup {None} : ContinueStoring(t, last)
  BY DEF NativeContinue
<1> DEFINE k == depth[t]
           id == IF native[<<t, k>>].ask = "PThreadCreate" THEN last ELSE None
           new == [native[<<t, k>>] EXCEPT !.ask = "none", !.arg = None, !.id = id]
<1>1. /\ pc[t] = "trap" /\ calls[t] = k /\ k \in Nat /\ k > 0
      /\ k \in 1 .. MaxDepth /\ Innermost(t) = <<t, k>>
  BY <1>0 DEF Inv1, TypeOK, DepthInv, InFrame, ContinueStoring, Innermost
<1>2. NestInv(t)
  BY DEF NestingInv
<1>3. UNCHANGED <<pc, depth, calls, local, next, info>> /\ native' = [native EXCEPT ![<<t, k>>] = new]
  BY <1>0, <1>1 DEF ContinueStoring, guestVars, threadVars
<1>4. \A d \in 1 .. MaxDepth : native'[<<t, d>>] = IF d = k THEN new ELSE native[<<t, d>>]
  BY <1>1, <1>3, SlotType DEF Inv1, TypeOK
<1>5. \A x \in Threads \ {t} : Untouched(x)
  BY <1>1, <1>3, SlotType DEF Inv1, TypeOK, Untouched
<1>6. new.buf = native[<<t, k>>].buf /\ new.ask = "none"
  BY <1>1, SlotType DEF Inv1, TypeOK, Calls
<1> HIDE DEF new
<1>7. InnermostKnows(t)'
  BY <1>1, <1>2, <1>3, <1>4, <1>6 DEF NestInv, InnermostKnows, Asks, Creating
<1> QED
  BY InnermostNest, <1>1, <1>3, <1>4, <1>5, <1>6, <1>7

\* The serve loop reads a request: into a callback or into the creation.
LEMMA ReadNest ==
  ASSUME Inv1, NestingInv, NEW t \in Threads,
         \/ pc[t] = "Callback" /\ Goto(t, "guest")
         \/ pc[t] = "PThreadCreate" /\ Goto(t, "spawn") /\ info'[t].entry = next[NextCall(t, depth[t])].fn,
         local' = [local EXCEPT ![Frame(t)] = next[NextCall(t, depth[t])]],
         UNCHANGED <<depth, next, calls, native>>,
         \A x \in Threads \ {t} : info'[x] = info[x]
  PROVE  StepBy(t)
<1> DEFINE k == depth[t]
<1>1. calls[t] = k /\ k \in Nat /\ k > 0 /\ k \in 1 .. MaxDepth /\ Frame(t) = <<t, k>> /\ NextCall(t, k) = <<t, k>>
  BY DEF Inv1, TypeOK, DepthInv, InFrame, Asks, Frame, NextCall
<1>2. NestInv(t)
  BY DEF NestingInv
<1>3. /\ native[<<t, k>>].ask = pc[t] /\ native[<<t, k>>].ret = "unset"
      /\ native[<<t, k>>].arg \in Fns
      /\ next[<<t, k>>] = [fn |-> native[<<t, k>>].arg, ref |-> <<t, k>>]
  <2>1. next[<<t, k>>] \in Requests
    BY <1>1, SlotType DEF Inv1, TypeOK
  <2> QED
    BY <1>2, <2>1 DEF NestInv, InnermostKnows, Asks, Requests
<1>4. \A d \in 1 .. MaxDepth : local'[<<t, d>>] = IF d = k THEN next[<<t, k>>] ELSE local[<<t, d>>]
  BY <1>1, SlotType DEF Inv1, TypeOK
<1>5. \A x \in Threads \ {t} : Untouched(x)
  BY <1>1, SlotType DEF Inv1, TypeOK, Untouched, Goto
<1>6. pc'[t] \in {"guest", "spawn"} /\ (pc'[t] = "spawn" <=> pc[t] = "PThreadCreate")
  BY DEF Inv1, TypeOK, Goto
<1>7. InnermostKnows(t)'
  BY <1>1, <1>3, <1>4, <1>6 DEF InnermostKnows, Asks, Creating
<1>8. pc'[t] = "guest" => Suspended(t, k)'
  BY <1>1, <1>3, <1>4, <1>6 DEF Suspended
<1> QED
  BY InnermostNest, <1>1, <1>4, <1>5, <1>6, <1>7, <1>8

LEMMA ResumeNest ==
  ASSUME Inv1, NestingInv, NEW t \in Threads, Resume(t)
  PROVE  StepBy(t)
<1>1. NestInv(t)
  BY DEF NestingInv
<1>2. /\ pc[t] = "resume" /\ depth[t] = calls[t] /\ depth[t] > 0
      /\ pc' = [pc EXCEPT ![t] = "trap"] /\ pc'[t] = "trap"
      /\ UNCHANGED <<depth, calls, native, next, local, info>>
  BY DEF Inv1, TypeOK, DepthInv, InFrame, Resume, Goto, guestVars, hostVars, threadVars
<1>3. InnermostKnows(t)'
  BY <1>1, <1>2 DEF NestInv, InnermostKnows, Creating, Asks
<1>4. \A x \in Threads \ {t} : Untouched(x)
  BY <1>2 DEF Inv1, TypeOK, Untouched
<1> QED
  BY InnermostNest, <1>2, <1>3, <1>4

LEMMA NativeFinishNest ==
  ASSUME Inv1, NestingInv, NEW t \in Threads, NativeFinish(t)
  PROVE  StepBy(t)
<1> DEFINE k == depth[t]
<1>1. /\ pc[t] = "trap" /\ calls[t] = k /\ k \in Nat /\ k > 0 /\ MaxDepth \in Nat
      /\ k \in 1 .. MaxDepth /\ Innermost(t) = <<t, k>>
  BY DEF Inv1, TypeOK, DepthInv, InFrame, NativeFinish, Running, Innermost
<1>2. NestInv(t)
  BY DEF NestingInv
<1>3. /\ pc' = [pc EXCEPT ![t] = "Finished"] /\ calls' = [calls EXCEPT ![t] = k - 1]
      /\ native' = [native EXCEPT ![<<t, k>>] = NoCall]
      /\ UNCHANGED <<depth, local, next, info>>
  BY <1>1 DEF NativeFinish, Goto, guestVars, threadVars
<1>4. /\ pc'[t] = "Finished" /\ calls'[t] = k - 1
      /\ \A d \in 1 .. MaxDepth : native'[<<t, d>>] = IF d = k THEN NoCall ELSE native[<<t, d>>]
  BY <1>1, <1>3, SlotType DEF Inv1, TypeOK
<1>5. \A x \in Threads \ {t} : Untouched(x)
  BY <1>1, <1>3, SlotType DEF Inv1, TypeOK, Untouched
<1>6. BufferOwned(t)' /\ Unused(t)'
  BY <1>1, <1>2, <1>3, <1>4 DEF NestInv, BufferOwned, Unused
<1>7. OuterSuspended(t)'
  <2>1. Outer(t)' = Outer(t) /\ Outer(t) = 1 .. (k - 1)
    BY <1>1, <1>4 DEF Outer
  <2>2. ASSUME NEW c \in 1 .. (k - 1) PROVE Suspended(t, c)'
    BY <1>1, <1>2, <1>3, <1>4, <2>1 DEF NestInv, OuterSuspended, Suspended
  <2> QED
    BY <2>1, <2>2 DEF OuterSuspended
<1>8. InnermostKnows(t)'
  BY <1>4 DEF InnermostKnows, Asks, Creating
<1> QED
  BY <1>5, <1>6, <1>7, <1>8 DEF NestInv, StepBy

LEMMA ServeFinishedNest ==
  ASSUME Inv1, NestingInv, NEW t \in Threads, ServeFinished(t)
  PROVE  StepBy(t)
<1> DEFINE k == depth[t]
<1>1. /\ pc[t] = "Finished" /\ calls[t] = k - 1 /\ k \in Nat /\ k > 0 /\ MaxDepth \in Nat
      /\ k \in 1 .. MaxDepth /\ Frame(t) = <<t, k>>
  BY DEF Inv1, TypeOK, DepthInv, InFrame, ServeFinished, Frame
<1>2. NestInv(t)
  BY DEF NestingInv
<1>3. /\ pc' = [pc EXCEPT ![t] = AfterFrame(t)] /\ depth' = [depth EXCEPT ![t] = k - 1]
      /\ next' = [next EXCEPT ![<<t, k>>] = NoRequest]
      /\ local' = [local EXCEPT ![<<t, k>>] = NoRequest]
      /\ UNCHANGED <<calls, native, info>>
  BY <1>1 DEF ServeFinished, Goto, hostVars, threadVars
<1>4. /\ pc'[t] \in {"guest", "exited"} /\ depth'[t] = k - 1
      /\ \A d \in 1 .. MaxDepth : local'[<<t, d>>] = IF d = k THEN NoRequest ELSE local[<<t, d>>]
  BY <1>1, <1>3, SlotType DEF Inv1, TypeOK, AfterFrame
<1>5. \A x \in Threads \ {t} : Untouched(x)
  BY <1>1, <1>3, SlotType DEF Inv1, TypeOK, Untouched
<1>6. BufferOwned(t)' /\ Unused(t)'
  <2>1. BufferOwned(t) /\ Unused(t)
    BY <1>2 DEF NestInv
  <2>2. BufferOwned(t)'
    BY <1>3, <2>1 DEF BufferOwned
  <2>3. \A d \in 1 .. MaxDepth : d > k - 1 => d = k \/ d > k
    BY <1>1
  <2>4. Unused(t)'
    BY <1>3, <1>4, <2>1, <2>3 DEF Unused
  <2> QED
    BY <2>2, <2>4
<1>7. OuterSuspended(t)'
  <2>1. Outer(t)' \subseteq Outer(t) /\ Outer(t) = 1 .. (k - 1)
    BY <1>1, <1>3, <1>4 DEF Outer
  <2>2. ASSUME NEW c \in 1 .. (k - 1) PROVE Suspended(t, c)'
    BY <1>1, <1>2, <1>3, <1>4, <2>1 DEF NestInv, OuterSuspended, Suspended
  <2> QED
    BY <2>1, <2>2 DEF OuterSuspended
<1>8. InnermostKnows(t)'
  BY <1>4 DEF InnermostKnows, Asks, Creating
<1> QED
  BY <1>5, <1>6, <1>7, <1>8 DEF NestInv, StepBy

LEMMA ServeExitNest ==
  ASSUME Inv1, NestingInv, NEW t \in Threads, ServeExit(t)
  PROVE  StepBy(t)
<1>1. depth'[t] = 0 /\ calls'[t] = 0 /\ pc'[t] = "exited"
  BY DEF Inv1, TypeOK, ServeExit, Goto
<1>2. \A d \in 1 .. MaxDepth : local'[<<t, d>>] = NoRequest /\ native'[<<t, d>>] = NoCall
  BY SlotType DEF ServeExit
<1>3. \A x \in Threads \ {t} : Untouched(x)
  BY SlotType DEF Inv1, TypeOK, ServeExit, Goto, threadVars, Untouched
<1>4. BufferOwned(t)' /\ OuterSuspended(t)' /\ Unused(t)' /\ InnermostKnows(t)'
  BY <1>1, <1>2 DEF BufferOwned, OuterSuspended, Outer, Unused, InnermostKnows, Asks, Creating
<1> QED
  BY <1>3, <1>4 DEF NestInv, StepBy

LEMMA StepIsLocal ==
  ASSUME Inv1, NestingInv, NEW t \in Threads, Program(t) \/ Serve(t) \/ Enter(t) \/ SpuriousWake(t)
  PROVE  StepBy(t)
<1> USE DEF Inv1, TypeOK, Goto, guestVars, hostVars, threadVars
<1>1. ASSUME NEW f \in Fns, GuestCall(t, f) PROVE StepBy(t)
  BY <1>1, CallNativeNest DEF GuestCall
<1>2. ASSUME NEW f \in Fns, NativeCallback(t, f) PROVE StepBy(t)
  BY <1>2, AskNest DEF NativeCallback, Asks
<1>3. ASSUME NEW f \in Fns, NativeCreate(t, f) PROVE StepBy(t)
  BY <1>3, AskNest DEF NativeCreate, Asks
<1>4. ASSUME NativeExit(t) PROVE StepBy(t)
  BY <1>4, AskNest DEF NativeExit, Asks
<1>5. ASSUME NativeFinish(t) PROVE StepBy(t)
  BY <1>5, NativeFinishNest
<1>6. ASSUME CallbackReturn(t) PROVE StepBy(t)
  BY <1>6, AnswerNest DEF CallbackReturn
<1>7. ASSUME NativeContinue(t) PROVE StepBy(t)
  BY <1>7, ContinueNest
<1>8. ASSUME ServeFinished(t) PROVE StepBy(t)
  BY <1>8, ServeFinishedNest
<1>9. ASSUME ServeCallback(t) PROVE StepBy(t)
  BY <1>9, ReadNest DEF ServeCallback
<1>10. ASSUME ServeCreate(t) PROVE StepBy(t)
  BY <1>10, ReadNest DEF ServeCreate, PrepareInfo
<1>11. ASSUME NEW u \in Threads, SpawnOk(t, u) PROVE StepBy(t)
  <2>1. \A x \in Threads : Untouched(x)
    BY <1>11 DEF SpawnOk, AfterCreate, Untouched, Creating, Starting
  <2> QED
    BY <2>1, UntouchedNesting
<1>12. ASSUME SpawnFail(t) PROVE StepBy(t)
  <2>1. \A x \in Threads : Untouched(x)
    BY <1>12 DEF SpawnFail, AfterCreate, Untouched, Creating, Starting
  <2> QED
    BY <2>1, UntouchedNesting
<1>13. ASSUME CondWait(t) PROVE StepBy(t)
  <2>1. \A x \in Threads : Untouched(x)
    BY <1>13 DEF CondWait, Untouched, Creating, Starting
  <2> QED
    BY <2>1, UntouchedNesting
<1>14. ASSUME Reacquire(t) PROVE StepBy(t)
  <2>1. \A x \in Threads : Untouched(x)
    BY <1>14 DEF Reacquire, Untouched, Creating, Starting
  <2> QED
    BY <2>1, UntouchedNesting
<1>15. ASSUME Unlock(t) PROVE StepBy(t)
  <2>1. \A x \in Threads : Untouched(x)
    BY <1>15 DEF Unlock, Untouched, Creating, Starting
  <2> QED
    BY <2>1, UntouchedNesting
<1>16. ASSUME Destroy(t) PROVE StepBy(t)
  BY <1>16, AnswerNest DEF Destroy
<1>17. ASSUME ServeExit(t) PROVE StepBy(t)
  BY <1>17, ServeExitNest
<1>18. ASSUME Resume(t) PROVE StepBy(t)
  BY <1>18, ResumeNest
<1>19. ASSUME EntryRead(t) PROVE StepBy(t)
  <2>1. \A x \in Threads : Untouched(x)
    BY <1>19 DEF EntryRead, Untouched, Creating, Starting
  <2> QED
    BY <2>1, UntouchedNesting
<1>20. ASSUME EntryLock(t) PROVE StepBy(t)
  <2>1. \A x \in Threads : Untouched(x)
    BY <1>20 DEF EntryLock, Untouched, Creating, Starting
  <2> QED
    BY <2>1, UntouchedNesting
<1>21. ASSUME EntryBroadcast(t) PROVE StepBy(t)
  <2>1. \A x \in Threads : Untouched(x)
    BY <1>21 DEF EntryBroadcast, Wake, Untouched, Creating, Starting
  <2> QED
    BY <2>1, UntouchedNesting
<1>22. ASSUME EntryUnlock(t) PROVE StepBy(t)
  <2>1. \A x \in Threads : Untouched(x)
    BY <1>22 DEF EntryUnlock, Untouched, Creating, Starting
  <2> QED
    BY <2>1, UntouchedNesting
<1>23. ASSUME EntryStart(t) PROVE StepBy(t)
  BY <1>23, CallNativeNest DEF EntryStart
<1>24. ASSUME SpuriousWake(t) PROVE StepBy(t)
  <2>1. \A x \in Threads : Untouched(x)
    BY <1>24 DEF SpuriousWake, Untouched, Creating, Starting
  <2> QED
    BY <2>1, UntouchedNesting
<1> QED
  BY <1>1, <1>2, <1>3, <1>4, <1>5, <1>6, <1>7, <1>8, <1>9, <1>10, <1>11, <1>12, <1>13, <1>14, <1>15, <1>16, <1>17, <1>18, <1>19, <1>20, <1>21, <1>22, <1>23, <1>24
     DEF Program, Serve, Enter

LEMMA NestingStep == Inv1 /\ NestingInv /\ [Next]_vars => NestingInv'
<1> SUFFICES ASSUME Inv1, NestingInv, [Next]_vars PROVE NestingInv'
  OBVIOUS
<1>1. ASSUME NEW t \in Threads, Program(t) \/ Serve(t) \/ Enter(t) \/ SpuriousWake(t) PROVE NestingInv'
  BY <1>1, StepIsLocal, StepByNest
<1>2. CASE UNCHANGED vars
  <2>1. \A x \in Threads : Untouched(x)
    BY <1>2 DEF vars, guestVars, hostVars, threadVars, Untouched
  <2> QED
    BY <2>1, UntouchedNest DEF NestingInv
<1> QED
  BY <1>1, <1>2 DEF Next, Terminated

\* Requests are handed from frame to frame in NativeCallServe's way, whatever the
\* program, its threads and the translator do: NestInv holds of every thread.
THEOREM NestingInvariant == Spec => [](Inv1 /\ NestingInv)
<1>1. Inv1 /\ NestingInv /\ [Next]_vars => (Inv1 /\ NestingInv)'
  BY Inv1Step, NestingStep
<1> QED
  BY <1>1, Inv1Init, NestingInit, PTL DEF Spec

\* A serve frame reads the request that its own native call made, whatever
\* other threads and nested calls did since the trap (x64nc_CallNativeProc's
\* next_call, handed down as the call's buffer).
THEOREM RequestsIntact == Spec => []RequestIntact
<1>1. Inv1 /\ NestingInv => RequestIntact
  <2> SUFFICES ASSUME Inv1, NestingInv, NEW t \in Threads, pc[t] \in Asks
               PROVE  /\ native[Innermost(t)].ask = pc[t]
                      /\ next[NextCall(t, depth[t])].fn = native[Innermost(t)].arg
                      /\ pc[t] # "PThreadExit" => next[NextCall(t, depth[t])].ref = Innermost(t)
    BY DEF RequestIntact
  <2>1. Innermost(t) = <<t, depth[t]>>
    BY DEF Inv1, DepthInv, Asks, Innermost
  <2>2. InnermostKnows(t)
    BY DEF NestingInv, NestInv
  <2> QED
    BY <2>1, <2>2 DEF InnermostKnows, NextCall
<1> QED
  BY <1>1, NestingInvariant, PTL

\* The translator's open calls and the guest's frames match one to one, so the
\* resuming trap, which names no call, goes on with the right one.
THEOREM StacksPaired == Spec => []StackPairing
<1>1. Inv1 /\ NestingInv => StackPairing
  <2> SUFFICES ASSUME Inv1, NestingInv, NEW t \in Threads
               PROVE  /\ calls[t] = IF pc[t] = "Finished" THEN depth[t] - 1 ELSE depth[t]
                      /\ \A c \in 1 .. calls[t] : (c < calls[t] \/ pc[t] \in {"guest", "Finished"}) =>
                           /\ native[<<t, c>>].ask = "Callback"
                           /\ local[<<t, c>>] = [fn |-> native[<<t, c>>].arg, ref |-> <<t, c>>]
    BY DEF StackPairing
  <2>1. \A c \in 1 .. calls[t] : (c < calls[t] \/ pc[t] \in {"guest", "Finished"}) => c \in Outer(t)
    BY DEF Inv1, TypeOK, Outer
  <2>2. \A c \in Outer(t) : Suspended(t, c)
    BY DEF NestingInv, NestInv, OuterSuspended
  <2> QED
    BY <2>1, <2>2 DEF Inv1, DepthInv, Suspended
<1> QED
  BY <1>1, NestingInvariant, PTL

\* Native code never goes on behind a request before *ret or *ret_ref is written.
THEOREM AnswersBeforeResume == Spec => []AnswerBeforeResume
<1>1. Inv1 /\ NestingInv => AnswerBeforeResume
  <2> SUFFICES ASSUME Inv1, NestingInv, NEW t \in Threads, pc[t] \in {"resume", "trap"},
                      native[Innermost(t)].ask # "none"
               PROVE  native[Innermost(t)].ret # "unset"
    BY DEF AnswerBeforeResume
  <2>1. Innermost(t) = <<t, depth[t]>>
    BY DEF Inv1, DepthInv, Innermost
  <2>2. InnermostKnows(t)
    BY DEF NestingInv, NestInv
  <2> QED
    BY <2>1, <2>2 DEF InnermostKnows
<1> QED
  BY <1>1, NestingInvariant, PTL

LEMMA AskerOfExit ==
  ASSUME Inv1, NestingInv, NEW t \in Threads, NEW d \in 1 .. MaxDepth,
         native[<<t, d>>].ask = "PThreadExit"
  PROVE  pc[t] = "PThreadExit" /\ d = depth[t]
<1>1. NestInv(t) /\ MaxDepth \in Nat /\ calls[t] \in Nat /\ depth[t] \in Nat
  BY DEF NestingInv, Inv1, TypeOK
<1>2. d \in 1 .. calls[t]
  BY <1>1 DEF NestInv, Unused, NoCall
<1>3. d \notin Outer(t)
  BY <1>1 DEF NestInv, OuterSuspended, Suspended
<1>4. pc[t] \notin {"guest", "Finished"} /\ d = calls[t]
  BY <1>1, <1>2, <1>3 DEF Outer
<1>5. d = depth[t] /\ depth[t] > 0
  BY <1>1, <1>2, <1>4 DEF Inv1, DepthInv
<1>6. pc[t] \in InFrame
  BY <1>4, <1>5 DEF Inv1, TypeOK, Labels, DepthInv, InFrame, Frameless
<1> QED
  BY <1>1, <1>4, <1>5, <1>6 DEF NestInv, InnermostKnows, InFrame, Asks, Creating

\* A thread that was told to exit is next seen exited.
LEMMA ExitLabel ==
  ASSUME Inv1, [Next]_vars, NEW t \in Threads, pc[t] = "PThreadExit"
  PROVE  pc'[t] = "exited" \/ (pc'[t] = "PThreadExit" /\ depth'[t] = depth[t])
<1> USE DEF Inv1, TypeOK, Goto, guestVars, hostVars, threadVars
<1>1. ASSUME NEW x \in Threads, Program(x)
      PROVE  pc'[t] = pc[t] /\ depth'[t] = depth[t]
  BY <1>1 DEF Program, GuestCall, CallNative, NativeCallback, NativeCreate, NativeExit, Ask, Running,
              NativeFinish, CallbackReturn
<1>2. ASSUME NEW x \in Threads, Serve(x)
      PROVE  pc'[t] = "exited" \/ (pc'[t] = pc[t] /\ depth'[t] = depth[t])
  BY <1>2 DEF Serve, NativeContinue, ContinueStoring, ServeFinished, ServeCallback, ServeCreate, PrepareInfo,
              SpawnOk, SpawnFail, CondWait, Reacquire, Unlock, Destroy, ServeExit, Resume
<1>3. ASSUME NEW x \in Threads, Enter(x) \/ SpuriousWake(x)
      PROVE  pc'[t] = pc[t] /\ depth'[t] = depth[t]
  BY <1>3 DEF Enter, EntryRead, EntryLock, EntryBroadcast, Wake, EntryUnlock, EntryStart, CallNative,
              SpuriousWake
<1>4. CASE UNCHANGED vars
  BY <1>4 DEF vars
<1> QED
  BY <1>1, <1>2, <1>3, <1>4 DEF Next, Terminated

\* x64nc_pthread_exit never comes back: the call that asked for the end stays as
\* it is until its thread has exited.
THEOREM ExitIsFinal == Spec => ExitNeverReturns
<1>1. Inv1 /\ NestingInv /\ (Inv1 /\ NestingInv)' /\ [Next]_vars =>
        \A s \in Slots : native[s].ask = "PThreadExit" =>
          native'[s].ask = "PThreadExit" \/ pc'[s[1]] = "exited"
  <2> SUFFICES ASSUME Inv1, NestingInv, Inv1', NestingInv', [Next]_vars,
                      NEW t \in Threads, NEW d \in 1 .. MaxDepth,
                      native[<<t, d>>].ask = "PThreadExit", pc'[t] # "exited"
               PROVE  native'[<<t, d>>].ask = "PThreadExit"
    BY DEF Slots
  <2>1. pc'[t] = "PThreadExit" /\ depth'[t] = d
    BY AskerOfExit, ExitLabel
  <2>2. InnermostKnows(t)'
    BY DEF NestingInv, NestInv
  <2> QED
    BY <2>1, <2>2 DEF InnermostKnows, Asks
<1>2. (Inv1 /\ NestingInv) /\ (Inv1 /\ NestingInv)' /\ [Next]_vars =>
        [\A s \in Slots : native[s].ask = "PThreadExit" =>
           native'[s].ask = "PThreadExit" \/ pc'[s[1]] = "exited"]_vars
  BY <1>1
<1> QED
  BY <1>2, NestingInvariant, PTL DEF Spec, ExitNeverReturns

-----------------------------------------------------------------------------
(* The ids that x64nc_pthread_create stores, whether GetLastPThreadId      *)
(* answers for the thread that asks or for the process.                    *)

\* A created thread has its creator for parent, whatever the creator did since,
ParentInv ==
  \A t \in Threads : info[t].thread # None =>
    parent[info[t].thread] = t /\ pc[info[t].thread] # "unborn"

\* and it is the newest that its creator made; the order is one.
NotedInv ==
  /\ \A u \in Threads : /\ pc[u] = "unborn" => u \notin Made
                        /\ elder[u] \subseteq Made
                        /\ \A v \in elder[u] : u \notin elder[v]
  /\ \A t \in Threads : info[t].thread # None =>
       \A u \in Made \ {info[t].thread} : parent[u] = t => u \in elder[info[t].thread]

\* An id that may stand for the thread which t created last.
StandsFor(t, id) ==
  LET own == info[t].thread
  IN  id # own => LastIdShared /\ id \in Made /\ parent[id] # t /\ own \in elder[id]

\* Only a running call holds an id, and behind a success it is such a one.
IdOf(t) ==
  /\ \A c \in 1 .. MaxDepth :
       LET n == native[<<t, c>>] IN
       n.id # None => /\ c = depth[t] /\ pc[t] = "trap" /\ n.ask = "none"
                      /\ n.ret = "ok" => StandsFor(t, n.id)
  /\ LET n == native[<<t, depth[t]>>] IN
       pc[t] \in {"resume", "trap"} /\ n.ask = "PThreadCreate" /\ n.ret = "ok" =>
         info[t].thread # None

IdInv == ParentInv /\ NotedInv /\ \A t \in Threads : IdOf(t)

LEMMA IdInit == Init => IdInv
<1> SUFFICES ASSUME Init PROVE IdInv
  OBVIOUS
<1>1. ParentInv /\ NotedInv
  <2>1. Made = {} /\ \A t \in Threads : info[t].thread = None /\ elder[t] = {}
    BY DEF Init, Made, NoInfo
  <2> QED
    BY <2>1 DEF ParentInv, NotedInv
<1>2. ASSUME NEW t \in Threads PROVE IdOf(t)
  <2>1. pc[t] \notin {"resume", "trap"}
    BY DEF Init
  <2>2. \A c \in 1 .. MaxDepth : native[<<t, c>>].id = None
    BY SlotType DEF Init, NoCall
  <2> QED
    BY <2>1, <2>2 DEF IdOf
<1> QED
  BY <1>1, <1>2 DEF IdInv

LEMMA NotedKept ==
  ASSUME TypeOK, NotedInv, UNCHANGED <<elder, parent>>,
         \A t \in Threads : /\ pc'[t] = "unborn" => pc[t] = "unborn"
                            /\ info'[t].thread \in {None, info[t].thread}
  PROVE  NotedInv'
BY DEF NotedInv, Made

\* The thread that t makes is the newest of all.
LEMMA NotedSpawn ==
  ASSUME TypeOK, ParentInv, NotedInv, NEW t \in Threads, NEW u \in Threads, SpawnOk(t, u)
  PROVE  NotedInv'
<1>1. /\ pc[u] = "unborn" /\ t # u
      /\ pc' = [pc EXCEPT ![t] = "park", ![u] = "entry"]
      /\ parent' = [parent EXCEPT ![u] = t]
      /\ elder' = [elder EXCEPT ![u] = Made]
      /\ info' = [info EXCEPT ![t] = [info[t] EXCEPT !.thread = u]]
  BY DEF SpawnOk, AfterCreate
<1>2. u \notin Made /\ Made' = Made \cup {u} /\ t \in Threads /\ u \notin elder[u]
  <2>1. u \notin Made /\ elder[u] \subseteq Made
    BY <1>1 DEF NotedInv
  <2> QED
    BY <1>1, <2>1 DEF TypeOK, Made
<1>3. /\ elder'[u] = Made /\ \A x \in Threads \ {u} : elder'[x] = elder[x] /\ parent'[x] = parent[x]
      /\ \A x \in Threads : pc'[x] = "unborn" => pc[x] = "unborn" /\ x # u
  BY <1>1 DEF TypeOK
<1>4. ASSUME NEW x \in Threads
      PROVE  /\ pc'[x] = "unborn" => x \notin Made'
             /\ elder'[x] \subseteq Made'
             /\ \A v \in elder'[x] : x \notin elder'[v]
  <2>1. \A v \in Made : v \in Threads \ {u} /\ elder'[v] = elder[v] /\ u \notin elder[v]
    BY <1>2, <1>3 DEF Made, NotedInv
  <2> QED
    BY <1>2, <1>3, <2>1 DEF NotedInv
<1>5. ASSUME NEW x \in Threads, info'[x].thread # None, NEW v \in Made' \ {info'[x].thread}, parent'[v] = x
      PROVE  v \in elder'[info'[x].thread]
  <2>1. CASE x = t
    <3>1. info'[t].thread = u
      BY <1>1 DEF TypeOK, Infos
    <3> QED
      BY <1>2, <1>3, <1>5, <2>1, <3>1
  <2>2. CASE x # t
    <3>1. info'[x].thread = info[x].thread /\ v # u
      BY <1>1, <1>5, <2>2 DEF TypeOK
    <3>2. v \in elder[info[x].thread]
      BY <1>2, <1>3, <1>5, <3>1 DEF NotedInv, Made
    <3>3. info[x].thread \in Threads
      BY <1>5, <3>1 DEF TypeOK, Infos
    <3>4. info[x].thread # u
      BY <1>1, <1>5, <3>1 DEF ParentInv
    <3> QED
      BY <1>3, <3>1, <3>2, <3>3, <3>4
  <2> QED
    BY <2>1, <2>2
<1> QED
  BY <1>4, <1>5 DEF NotedInv

\* Any step but the making of a thread keeps who was made, and by whom.
LEMMA MadeOrKept ==
  ASSUME Inv1, [Next]_vars
  PROVE  \/ \E t, u \in Threads : SpawnOk(t, u)
         \/ /\ UNCHANGED <<elder, parent>>
            /\ \A t \in Threads : /\ pc'[t] = "unborn" => pc[t] = "unborn"
                                  /\ info'[t].thread \in {None, info[t].thread}
<1> DEFINE Kept == /\ UNCHANGED <<elder, parent>>
                   /\ \A t \in Threads : /\ pc'[t] = "unborn" => pc[t] = "unborn"
                                         /\ info'[t].thread \in {None, info[t].thread}
<1>a. ASSUME NEW t \in Threads, NEW label, label # "unborn" \/ pc[t] = "unborn", Goto(t, label),
             UNCHANGED <<info, parent, elder>>
      PROVE  Kept
  BY <1>a DEF Goto, Inv1, TypeOK
<1>b. ASSUME UNCHANGED <<pc, parent, elder>>, UNCHANGED info PROVE Kept
  BY <1>b
<1>c. ASSUME NEW t \in Threads, NEW x \in Threads, NEW new, info' = [info EXCEPT ![x] = new],
             new.thread \in {None, info[x].thread},
             NEW label, label # "unborn", Goto(t, label), UNCHANGED <<parent, elder>>
      PROVE  Kept
  BY <1>c DEF Goto, Inv1, TypeOK
<1> HIDE DEF Kept
<1> USE DEF guestVars, hostVars, threadVars
<1>1. ASSUME NEW t \in Threads, Program(t) PROVE Kept
  BY <1>1, <1>a DEF Program, GuestCall, CallNative, NativeCallback, NativeCreate, NativeExit, Ask,
              NativeFinish, CallbackReturn
<1>2. ASSUME NEW t \in Threads, NativeContinue(t) PROVE Kept
  BY <1>2, <1>b DEF NativeContinue, ContinueStoring
<1>3. ASSUME NEW t \in Threads, ServeFinished(t) \/ ServeCallback(t) \/ SpawnFail(t) \/ ServeExit(t) \/ Resume(t)
      PROVE Kept
  BY <1>3, <1>a DEF ServeFinished, AfterFrame, ServeCallback, SpawnFail, AfterCreate, ServeExit, Resume
<1>4. ASSUME NEW t \in Threads, ServeCreate(t) PROVE Kept
  BY <1>4, <1>c DEF ServeCreate, PrepareInfo
<1>5. ASSUME NEW t \in Threads, CondWait(t) \/ Reacquire(t) \/ Unlock(t) PROVE Kept
  <2>1. PICK h \in {None, t} : info' = [info EXCEPT ![t] = [info[t] EXCEPT !.holder = h]]
    BY <1>5 DEF CondWait, Reacquire, Unlock
  <2>2. [info[t] EXCEPT !.holder = h].thread = info[t].thread
    BY DEF Inv1, TypeOK, Infos
  <2> QED
    BY <1>5, <1>c, <2>1, <2>2 DEF CondWait, Reacquire, Unlock
<1>6. ASSUME NEW t \in Threads, Destroy(t) PROVE Kept
  <2>1. [NoInfo EXCEPT !.thread = info[t].thread].thread = info[t].thread
    BY DEF NoInfo
  <2> QED
    BY <1>6, <1>c, <2>1 DEF Destroy
<1>7. ASSUME NEW t \in Threads, EntryRead(t) \/ EntryStart(t) \/ SpuriousWake(t) PROVE Kept
  BY <1>7, <1>a DEF EntryRead, EntryStart, CallNative, SpuriousWake
<1>8. ASSUME NEW t \in Threads, EntryLock(t) \/ EntryUnlock(t) PROVE Kept
  <2>1. parent[t] \in Threads
    BY <1>8 DEF EntryLock, EntryUnlock, Inv1, TypeOK, DepthInv, Starting
  <2>2. PICK h \in {None, t} : info' = [info EXCEPT ![parent[t]] = [info[parent[t]] EXCEPT !.holder = h]]
    BY <1>8 DEF EntryLock, EntryUnlock
  <2>3. [info[parent[t]] EXCEPT !.holder = h].thread = info[parent[t]].thread
    BY <2>1 DEF Inv1, TypeOK, Infos
  <2> QED
    BY <1>8, <1>c, <2>1, <2>2, <2>3 DEF EntryLock, EntryUnlock
<1>9. ASSUME NEW t \in Threads, EntryBroadcast(t) PROVE Kept
  BY <1>9 DEF EntryBroadcast, Wake, Kept, Inv1, TypeOK
<1>10. CASE UNCHANGED vars
  BY <1>10, <1>b DEF vars
<1> QED
  BY <1>1, <1>2, <1>3, <1>4, <1>5, <1>6, <1>7, <1>8, <1>9, <1>10 DEF Next, Serve, Enter, Terminated, Kept

LEMMA ParentStep ==
  ASSUME Inv1, ParentInv, [Next]_vars
  PROVE  ParentInv'
<1>1. ASSUME NEW t \in Threads, NEW u \in Threads, SpawnOk(t, u) PROVE ParentInv'
  BY <1>1 DEF SpawnOk, AfterCreate, ParentInv, Inv1, TypeOK, Infos
<1>2. ASSUME UNCHANGED parent,
             \A t \in Threads : /\ pc'[t] = "unborn" => pc[t] = "unborn"
                                /\ info'[t].thread \in {None, info[t].thread}
      PROVE  ParentInv'
  BY <1>2 DEF ParentInv, Inv1, TypeOK, Infos
<1> QED
  BY <1>1, <1>2, MadeOrKept

LEMMA NotedStep ==
  ASSUME Inv1, ParentInv, NotedInv, [Next]_vars
  PROVE  NotedInv'
BY MadeOrKept, NotedKept, NotedSpawn DEF Inv1

\* An id that stands for a thread goes on doing so.
LEMMA StandsStill ==
  ASSUME Inv1, NotedInv, [Next]_vars, NEW x \in Threads, info'[x].thread = info[x].thread,
         NEW id, StandsFor(x, id)
  PROVE  StandsFor(x, id)'
<1>1. CASE id = info[x].thread
  BY <1>1 DEF StandsFor
<1>2. CASE id # info[x].thread
  <2>1. LastIdShared /\ id \in Made /\ parent[id] # x /\ info[x].thread \in elder[id]
    BY <1>2 DEF StandsFor
  <2>2. CASE UNCHANGED <<elder, parent>>
    BY <2>1, <2>2 DEF StandsFor, Made
  <2>3. ASSUME NEW t \in Threads, NEW u \in Threads, SpawnOk(t, u) PROVE StandsFor(x, id)'
    <3>1. pc[u] = "unborn" /\ parent' = [parent EXCEPT ![u] = t] /\ elder' = [elder EXCEPT ![u] = Made]
      BY <2>3 DEF SpawnOk
    <3>2. id # u /\ id \in Threads
      BY <2>1, <3>1 DEF NotedInv, Made
    <3> QED
      BY <2>1, <3>1, <3>2 DEF StandsFor, Made, Inv1, TypeOK
  <2> QED
    BY <2>2, <2>3, MadeOrKept
<1> QED
  BY <1>1, <1>2

LEMMA IdUntouched ==
  ASSUME Inv1, IdInv, [Next]_vars, NEW x \in Threads, Untouched(x), info'[x].thread = info[x].thread, IdOf(x)
  PROVE  IdOf(x)'
<1>1. pc[x] \in {"resume", "trap"} => depth[x] \in 1 .. MaxDepth
  BY DEF Inv1, TypeOK, DepthInv, InFrame
<1>2. pc'[x] \in {"resume", "trap"} \/ pc[x] \in {"resume", "trap"} => pc'[x] = pc[x]
  BY DEF Untouched, Starting, Creating
<1>3. depth'[x] = depth[x] /\ \A d \in 1 .. MaxDepth : native'[<<x, d>>] = native[<<x, d>>]
  BY DEF Untouched
<1>4. \A id : StandsFor(x, id) => StandsFor(x, id)'
  BY StandsStill DEF IdInv
<1> QED
  BY <1>1, <1>2, <1>3, <1>4 DEF IdOf

\* A step that leaves native calls alone and does not enter native code.
LEMMA IdMove ==
  ASSUME Inv1, NEW t \in Threads, IdOf(t), pc[t] # "trap", pc'[t] \notin {"resume", "trap"}, native' = native
  PROVE  IdOf(t)'
BY DEF IdOf

LEMMA ThreadOfOthers ==
  ASSUME Inv1, NEW t \in Threads, Program(t) \/ Serve(t) \/ Enter(t) \/ SpuriousWake(t),
         NEW x \in Threads \ {t}
  PROVE  info'[x].thread = info[x].thread
<1> USE DEF Inv1, TypeOK, Infos, guestVars, hostVars, threadVars
<1>1. CASE Program(t)
  BY <1>1 DEF Program, GuestCall, CallNative, NativeCallback, NativeCreate, NativeExit, Ask, NativeFinish, CallbackReturn
<1>2. CASE Serve(t)
  BY <1>2 DEF Serve, NativeContinue, ContinueStoring, ServeFinished, ServeCallback, ServeCreate, PrepareInfo,
              SpawnOk, SpawnFail, CondWait, Reacquire, Unlock, Destroy, ServeExit, Resume
<1>3. CASE Enter(t) \/ SpuriousWake(t)
  BY <1>3 DEF Enter, EntryRead, EntryLock, EntryBroadcast, EntryUnlock, EntryStart, CallNative, SpuriousWake
<1> QED
  BY <1>1, <1>2, <1>3

\* What the translator answers t, whose thread was made.
LEMMA LastStandsFor ==
  ASSUME Inv1, ParentInv, NotedInv, NEW t \in Threads, info[t].thread # None, NEW id, GetLastPThreadId(t, id)
  PROVE  StandsFor(t, id)
<1> DEFINE own  == info[t].thread
           seen == {u \in Made : LastIdShared \/ parent[u] = t}
<1>1. own \in seen
  BY DEF Inv1, TypeOK, Infos, ParentInv, Made
<1>2. id \in seen /\ seen \ {id} \subseteq elder[id]
  BY <1>1 DEF GetLastPThreadId
<1>3. SUFFICES ASSUME id # own PROVE LastIdShared /\ id \in Made /\ parent[id] # t /\ own \in elder[id]
  BY DEF StandsFor
<1>4. own \in elder[id]
  BY <1>1, <1>2, <1>3
<1>5. parent[id] # t
  BY <1>1, <1>2, <1>3, <1>4 DEF NotedInv, Made
<1> QED
  BY <1>2, <1>4, <1>5

\* The slots of t at c, as the proof of a step speaks of them.
LEMMA IdOfStep ==
  ASSUME Inv1, NestingInv, IdInv, NEW t \in Threads,
         Program(t) \/ Serve(t) \/ Enter(t) \/ SpuriousWake(t)
  PROVE  IdOf(t)'
<1> DEFINE k == depth[t]
<1>1. IdOf(t) /\ InnermostKnows(t) /\ OuterSuspended(t) /\ NotedInv
  BY DEF NestingInv, NestInv, IdInv
<1>2. /\ pc[t] \in InFrame \ {"Finished"} => calls[t] = k /\ k \in 1 .. MaxDepth
      /\ pc[t] = "guest" => calls[t] = k
      /\ k \in Nat /\ calls[t] \in Nat /\ MaxDepth \in Nat
  BY DEF Inv1, TypeOK, DepthInv, InFrame
<1> USE DEF Goto, guestVars, hostVars, threadVars
<1>3. ASSUME NEW f, CallNative(t, f), pc[t] \in {"guest", "start"} PROVE IdOf(t)'
  <2>1. pc'[t] = "trap" /\ depth'[t] = k + 1 /\ calls[t] = k /\ k + 1 \in 1 .. MaxDepth
    BY <1>2, <1>3 DEF CallNative, Inv1, TypeOK, DepthInv
  <2>2. \A c \in 1 .. MaxDepth : native'[<<t, c>>].id = None
    BY <1>1, <1>2, <1>3, <2>1, SlotType DEF CallNative, NoCall, IdOf, Inv1, TypeOK
  <2>3. native'[<<t, k + 1>>].ask = "none"
    BY <1>3, <2>1, SlotType DEF CallNative, NoCall, Inv1, TypeOK
  <2> QED
    BY <2>1, <2>2, <2>3 DEF IdOf
<1>4. ASSUME NEW kind \in Asks, NEW f, NEW ref, Ask(t, kind, f, ref) PROVE IdOf(t)'
  <2>1. pc[t] = "trap" /\ pc'[t] = kind /\ Innermost(t) = <<t, k>> /\ k \in 1 .. MaxDepth
    BY <1>2, <1>4 DEF Ask, Running, Innermost, InFrame, Inv1, TypeOK
  <2>2. \A c \in 1 .. MaxDepth : native'[<<t, c>>].id = None
    BY <1>1, <1>4, <2>1, SlotType DEF Ask, IdOf, Inv1, TypeOK, Calls
  <2> QED
    BY <2>1, <2>2 DEF IdOf, Asks
<1>5. CASE NativeFinish(t)
  <2>1. pc[t] = "trap" /\ pc'[t] = "Finished" /\ Innermost(t) = <<t, k>> /\ k \in 1 .. MaxDepth
    BY <1>2, <1>5 DEF NativeFinish, Running, Innermost, InFrame, Inv1, TypeOK
  <2>2. \A c \in 1 .. MaxDepth : native'[<<t, c>>].id = None
    BY <1>1, <1>5, <2>1, SlotType DEF NativeFinish, IdOf, NoCall, Inv1, TypeOK
  <2> QED
    BY <2>1, <2>2 DEF IdOf
<1>6. ASSUME NEW ret, Frame(t) = <<t, k>>, k \in 1 .. MaxDepth, Answer(local[Frame(t)].ref, ret),
             Goto(t, "resume"), depth' = depth,
             \/ pc[t] = "guest"
             \/ pc[t] = "destroy" /\ (ret = "ok" => info'[t].thread # None)
      PROVE  IdOf(t)'
  <2>1. local[<<t, k>>].ref = <<t, k>> /\ (pc[t] = "guest" => native[<<t, k>>].ask = "Callback")
    BY <1>1, <1>2, <1>6 DEF OuterSuspended, Outer, Suspended, InnermostKnows, Creating
  <2>2. native' = [native EXCEPT ![<<t, k>>] = [native[<<t, k>>] EXCEPT !.ret = ret]] /\ pc'[t] = "resume"
    BY <1>6, <2>1 DEF Answer, Inv1, TypeOK
  <2>3. \A c \in 1 .. MaxDepth : native'[<<t, c>>].id = None
    BY <1>1, <1>6, <2>2, SlotType DEF IdOf, Inv1, TypeOK, Calls
  <2>4. native'[<<t, k>>].ask = native[<<t, k>>].ask /\ native'[<<t, k>>].ret = ret
    BY <1>6, <2>2, SlotType DEF Inv1, TypeOK, Calls
  <2> QED
    BY <1>6, <2>1, <2>2, <2>3, <2>4 DEF IdOf
<1>7. CASE NativeContinue(t)
  <2>p. PICK last \in Threads \cup {None} : GetLastPThreadId(t, last) /\ ContinueStoring(t, last)
    BY <1>7 DEF NativeContinue
  <2> DEFINE n == native[<<t, k>>]
             id == IF n.ask = "PThreadCreate" THEN last ELSE None
  <2>1. /\ pc[t] = "trap" /\ Innermost(t) = <<t, k>> /\ k \in 1 .. MaxDepth /\ n.ask # "none"
        /\ UNCHANGED <<pc, depth, info>>
        /\ native' = [native EXCEPT ![<<t, k>>] = [n EXCEPT !.ask = "none", !.arg = None, !.id = id]]
    <3>1. pc[t] = "trap" /\ calls[t] = k /\ k \in 1 .. MaxDepth
      BY <1>2, <2>p DEF ContinueStoring, InFrame
    <3> QED
      BY <2>p, <3>1 DEF ContinueStoring, Innermost
  <2>2. \A c \in 1 .. MaxDepth : c # k => native'[<<t, c>>].id = None
    BY <1>1, <2>1, SlotType DEF IdOf, Inv1, TypeOK
  <2>3. /\ native'[<<t, k>>].ask = "none" /\ native'[<<t, k>>].ret = n.ret /\ native'[<<t, k>>].id = id
    BY <2>1, SlotType DEF Inv1, TypeOK, Calls
  <2>4. ASSUME id # None, n.ret = "ok" PROVE StandsFor(t, id)
    <3>1. info[t].thread # None /\ id = last
      BY <1>1, <2>1, <2>4 DEF IdOf
    <3> QED
      BY <2>p, <3>1, LastStandsFor DEF IdInv
  <2>5. UNCHANGED <<info, parent, elder>>
    BY <2>p DEF ContinueStoring
  <2>6. native'[<<t, k>>].id # None /\ native'[<<t, k>>].ret = "ok" => StandsFor(t, native[<<t, k>>].id)'
    <3>1. PICK i : i = id
      OBVIOUS
    <3>2. native'[<<t, k>>].id = i /\ native'[<<t, k>>].ret = n.ret
      BY <2>3, <3>1
    <3>3. i # None /\ n.ret = "ok" => StandsFor(t, i)
      BY <2>4, <3>1
    <3> HIDE DEF id, n
    <3>4. ASSUME i # None, n.ret = "ok"
          PROVE  i # info'[t].thread =>
                   LastIdShared /\ i \in Made' /\ parent'[i] # t /\ info'[t].thread \in elder'[i]
      BY <2>5, <3>3, <3>4 DEF StandsFor, Made
    <3> QED
      BY <2>1, <3>2, <3>4 DEF StandsFor
  <2> QED
    BY <2>1, <2>2, <2>3, <2>6 DEF IdOf
<1>8. CASE ServeExit(t)
  <2>1. pc'[t] = "exited" /\ \A c \in 1 .. MaxDepth : native'[<<t, c>>].id = None
    BY <1>8, SlotType DEF ServeExit, NoCall, Inv1, TypeOK
  <2> QED
    BY <2>1 DEF IdOf
<1>9. CASE Resume(t)
  BY <1>1, <1>9 DEF Resume, IdOf, InnermostKnows, Inv1, TypeOK
<1>10. ASSUME native' = native, pc[t] # "trap", pc'[t] \notin {"resume", "trap"} PROVE IdOf(t)'
  BY <1>1, <1>10, IdMove
<1> USE DEF Inv1, TypeOK
<1>11. CASE Program(t)
  <2>1. CASE \E f \in Fns : GuestCall(t, f)
    BY <1>3, <2>1 DEF GuestCall
  <2>2. CASE \E f \in Fns : NativeCallback(t, f) \/ NativeCreate(t, f)
    BY <1>4, <2>2 DEF NativeCallback, NativeCreate, Asks
  <2>3. CASE NativeExit(t)
    BY <1>4, <2>3 DEF NativeExit, Asks
  <2>4. CASE CallbackReturn(t)
    BY <1>2, <1>6, <2>4 DEF CallbackReturn, Frame
  <2> QED
    BY <1>5, <1>11, <2>1, <2>2, <2>3, <2>4 DEF Program
<1>12. CASE Serve(t)
  <2>1. CASE Destroy(t)
    BY <1>2, <1>6, <2>1 DEF Destroy, Frame, InFrame, Creating, NoInfo
  <2>2. CASE ServeFinished(t) \/ ServeCallback(t) \/ ServeCreate(t)
    BY <1>10, <2>2 DEF ServeFinished, AfterFrame, ServeCallback, ServeCreate, PrepareInfo
  <2>3. CASE (\E u \in Threads : SpawnOk(t, u)) \/ SpawnFail(t) \/ CondWait(t) \/ Reacquire(t) \/ Unlock(t)
    BY <1>10, <2>3 DEF SpawnOk, SpawnFail, AfterCreate, CondWait, Reacquire, Unlock
  <2> QED
    BY <1>7, <1>8, <1>9, <1>12, <2>1, <2>2, <2>3 DEF Serve
<1>13. CASE Enter(t) \/ SpuriousWake(t)
  <2>1. CASE EntryStart(t)
    BY <1>3, <2>1 DEF EntryStart
  <2>2. CASE EntryRead(t) \/ EntryLock(t) \/ EntryBroadcast(t) \/ EntryUnlock(t) \/ SpuriousWake(t)
    BY <1>10, <2>2 DEF EntryRead, EntryLock, EntryBroadcast, Wake, EntryUnlock, SpuriousWake
  <2> QED
    BY <1>13, <2>1, <2>2 DEF Enter
<1> QED
  BY <1>11, <1>12, <1>13

LEMMA IdStep ==
  ASSUME Inv1, NestingInv, IdInv, [Next]_vars
  PROVE  IdInv'
<1>1. ParentInv' /\ NotedInv'
  BY ParentStep, NotedStep DEF IdInv
<1>2. ASSUME NEW t \in Threads, Program(t) \/ Serve(t) \/ Enter(t) \/ SpuriousWake(t), NEW x \in Threads
      PROVE  IdOf(x)'
  <2>1. CASE x = t
    BY <1>2, <2>1, IdOfStep
  <2>2. CASE x # t
    <3>1. Untouched(x) /\ info'[x].thread = info[x].thread /\ IdOf(x)
      BY <1>2, <2>2, StepIsLocal, ThreadOfOthers DEF StepBy, IdInv
    <3> QED
      BY <3>1, IdUntouched
  <2> QED
    BY <2>1, <2>2
<1>3. ASSUME UNCHANGED vars, NEW x \in Threads PROVE IdOf(x)'
  BY <1>3 DEF vars, guestVars, hostVars, threadVars, IdInv, IdOf, StandsFor, Made
<1> QED
  BY <1>1, <1>2, <1>3 DEF Next, Terminated, IdInv

\* After a successful x64nc_pthread_create, *thread is the thread that the call
\* created or, where one last id is kept for the process, one that another
\* creator made since (hostapi.cpp:264).
THEOREM OwnThreadIds == Spec => []OwnThreadId
<1>1. Inv1 /\ IdInv => OwnThreadId
  <2> SUFFICES ASSUME Inv1, IdInv, NEW t \in Threads, Running(t),
                      native[Innermost(t)].id # None, native[Innermost(t)].ret = "ok"
               PROVE  /\ StandsFor(t, native[Innermost(t)].id)
                      /\ parent[info[t].thread] = t
    BY DEF OwnThreadId, StandsFor
  <2>1. Innermost(t) = <<t, calls[t]>> /\ calls[t] \in 1 .. MaxDepth
    BY DEF Inv1, TypeOK, Running, Innermost
  <2>2. StandsFor(t, native[<<t, calls[t]>>].id) /\ info[t].thread # None
    <3> DEFINE c == calls[t]
    <3>1. native[<<t, c>>].id # None /\ native[<<t, c>>].ret = "ok" /\ c \in 1 .. MaxDepth
      BY <2>1
    <3>2. IdOf(t)
      BY DEF IdInv
    <3> HIDE DEF c
    <3>3. StandsFor(t, native[<<t, c>>].id)
      BY <3>1, <3>2 DEF IdOf
    <3>4. info[t].thread # None
      <4>1. None \notin Threads /\ \A u \in Threads : elder[u] \subseteq Threads
        BY DEF Inv1, TypeOK
      <4> QED
        BY <3>1, <3>3, <4>1 DEF StandsFor, Made
    <3> QED
      BY <3>3, <3>4 DEF c
  <2>3. parent[info[t].thread] = t
    BY <2>1, <2>2 DEF IdInv, ParentInv
  <2> QED
    BY <2>1, <2>2, <2>3
<1>2. Inv1 /\ NestingInv /\ IdInv /\ [Next]_vars => IdInv'
  BY IdStep
<1> QED
  BY <1>1, <1>2, IdInit, NestingInvariant, PTL DEF Spec

-----------------------------------------------------------------------------
(* NativeCall implements CrossCall: what holds in every state.             *)

\* Threads that the program starts by itself run no ThreadEntry.
AppInv == \A t \in AppThreads : pc[t] # "unborn" /\ parent[t] = None

Inv == Inv1 /\ NestingInv /\ HandshakeInv /\ ParentInv /\ AppInv

LEMMA AppStep == Inv1 /\ AppInv /\ [Next]_vars => AppInv'
<1> SUFFICES ASSUME Inv1, AppInv, [Next]_vars PROVE AppInv'
  OBVIOUS
<1> USE DEF Inv1, TypeOK, AppInv, Goto, guestVars, hostVars, threadVars
<1>1. ASSUME NEW t \in Threads, Program(t) PROVE AppInv'
  BY <1>1 DEF Program, GuestCall, CallNative, NativeCallback, NativeCreate, NativeExit, Ask, Asks,
              NativeFinish, CallbackReturn
<1>2. ASSUME NEW t \in Threads, Serve(t) PROVE AppInv'
  BY <1>2 DEF Serve, NativeContinue, ContinueStoring, ServeFinished, AfterFrame, ServeCallback, ServeCreate,
              PrepareInfo, SpawnOk, SpawnFail, AfterCreate, CondWait, Reacquire, Unlock, Destroy, ServeExit, Resume
<1>3. ASSUME NEW t \in Threads, Enter(t) \/ SpuriousWake(t) PROVE AppInv'
  BY <1>3 DEF Enter, EntryRead, EntryLock, EntryBroadcast, Wake, EntryUnlock, EntryStart, CallNative, SpuriousWake
<1>4. CASE UNCHANGED vars
  BY <1>4 DEF vars
<1> QED
  BY <1>1, <1>2, <1>3, <1>4 DEF Next, Terminated

LEMMA InvHolds == ASSUME ~ SpuriousWakeups PROVE Spec => []Inv
<1>1. ASSUME Init PROVE AppInv /\ ParentInv
  BY <1>1, IdInit DEF Init, AppInv, IdInv
<1>2. Inv /\ [Next]_vars => Inv'
  BY Inv1Step, NestingStep, HandshakeStep, ParentStep, AppStep DEF Inv, Inv1
<1>3. Init => Inv
  BY <1>1, Inv1Init, NestingInit, HandshakeInit DEF Inv
<1> QED
  BY <1>2, <1>3, PTL DEF Spec

-----------------------------------------------------------------------------
(* The abstract stack, slot by slot.                                       *)

\* The c-th open call of t as CrossCall sees it.
Shown(t, c) == [fn |-> native[<<t, c>>].fn, at |-> At(t, c), arg |-> native[<<t, c>>].arg]

\* The frame that serves a callback holds the function that was asked for.
LEMMA StackShown == Inv => \A t \in Threads : AbsStack[t] = [c \in 1 .. calls[t] |-> Shown(t, c)]
<1> SUFFICES ASSUME Inv, NEW t \in Threads, NEW c \in 1 .. calls[t], At(t, c) = "guest"
             PROVE  local[<<t, c>>].fn = native[<<t, c>>].arg
  BY DEF AbsStack, Shown
<1> DEFINE n == native[<<t, c>>]
<1>1. n.ask = "Callback" /\ n.ret = "unset" /\ local[<<t, c>>] # NoRequest
  <2>1. n.ask \in Asks \cup {"none"}
    BY SlotType DEF Inv, Inv1, TypeOK, Calls
  <2> QED
    BY <2>1 DEF At, Asks
<1>2. NestInv(t)
  BY DEF Inv, NestingInv
<1>3. CASE c \in Outer(t)
  <2>1. Suspended(t, c)
    BY <1>2, <1>3 DEF NestInv, OuterSuspended
  <2> QED
    BY <2>1 DEF Suspended
<1>4. CASE c \notin Outer(t)
  <2>1. pc[t] \notin {"guest", "Finished"} /\ c = calls[t] /\ c = depth[t] /\ depth[t] > 0
    BY <1>4 DEF Outer, Inv, Inv1, TypeOK, DepthInv
  <2>2. pc[t] \in InFrame
    BY <2>1 DEF Inv, Inv1, TypeOK, Labels, DepthInv, InFrame, Frameless
  <2> QED
    BY <1>1, <1>2, <2>1, <2>2 DEF NestInv, InnermostKnows, InFrame
<1> QED
  BY <1>3, <1>4

LEMMA StackLength ==
  Inv => \A t \in Threads : /\ calls[t] \in Nat
                            /\ Len(AbsStack[t]) = calls[t]
                            /\ \E S : AbsStack[t] \in Seq(S)
                            /\ \A c \in 1 .. calls[t] : AbsStack[t][c] = Shown(t, c)
<1> SUFFICES ASSUME Inv, NEW t \in Threads
             PROVE  /\ calls[t] \in Nat
                    /\ Len(AbsStack[t]) = calls[t]
                    /\ \E S : AbsStack[t] \in Seq(S)
                    /\ \A c \in 1 .. calls[t] : AbsStack[t][c] = Shown(t, c)
  OBVIOUS
<1> DEFINE s == AbsStack[t]
           S == {s[c] : c \in 1 .. calls[t]}
<1>1. s = [c \in 1 .. calls[t] |-> Shown(t, c)]
  BY StackShown, Zenon
<1>2. calls[t] \in Nat
  BY DEF Inv, Inv1, TypeOK
<1>3. DOMAIN s = 1 .. calls[t] /\ \A c \in 1 .. calls[t] : s[c] = Shown(t, c)
  BY <1>1, Zenon
<1>4. s \in [1 .. calls[t] -> S]
  BY <1>1
<1> HIDE DEF s
<1>5. s \in Seq(S)
  BY <1>2, <1>4, SeqDef
<1> HIDE DEF S
<1>6. Len(s) = calls[t]
  BY <1>2, <1>3, <1>5, LenProperties
<1> QED
  BY <1>2, <1>3, <1>5, <1>6 DEF s

\* Where the innermost call of t is, by the label of t.
AtByLabel(t) ==
  LET k == depth[t]
      n == native[<<t, k>>]
  IN
  /\ pc[t] # "Finished" => calls[t] = k
  /\ pc[t] \in Asks => At(t, k) = pc[t] /\ n.ask = pc[t] /\ n.arg \in Fns \cup {None}
  /\ pc[t] = "guest" /\ k > 0 => At(t, k) = "guest"
  /\ pc[t] \in Creating => At(t, k) = "PThreadCreate"
  /\ pc[t] = "resume" => At(t, k) = "answered"
  /\ pc[t] = "trap" => At(t, k) = IF n.ask = "none" THEN "native" ELSE "answered"

LEMMA InnermostAt == Inv => \A t \in Threads : AtByLabel(t)
<1> SUFFICES ASSUME Inv, NEW t \in Threads PROVE AtByLabel(t)
  OBVIOUS
<1> DEFINE k == depth[t]
           n == native[<<t, k>>]
<1>1. InnermostKnows(t) /\ OuterSuspended(t)
  BY DEF Inv, NestingInv, NestInv
<1>2. pc[t] # "Finished" => calls[t] = k
  BY DEF Inv, Inv1, DepthInv
<1>3. pc[t] \in InFrame => k \in 1 .. MaxDepth
  BY DEF Inv, Inv1, TypeOK, DepthInv
<1>4. ASSUME NEW c, Suspended(t, c) PROVE At(t, c) = "guest"
  <2>1. local[<<t, c>>] # NoRequest
    BY <1>4 DEF Suspended, NoRequest
  <2> QED
    BY <1>4, <2>1 DEF Suspended, At
<1>5. pc[t] \in Asks => At(t, k) = pc[t] /\ n.ask = pc[t] /\ n.arg \in Fns \cup {None}
  <2>1. pc[t] \in Asks => n \in Calls
    BY <1>3, SlotType DEF Inv, Inv1, TypeOK, InFrame
  <2> QED
    BY <1>1, <2>1 DEF InnermostKnows, At, Asks, Calls
<1>6. pc[t] = "guest" /\ k > 0 => At(t, k) = "guest"
  BY <1>1, <1>2, <1>4 DEF OuterSuspended, Outer, Inv, Inv1, TypeOK
<1>7. pc[t] \in Creating => At(t, k) = "PThreadCreate"
  BY <1>1 DEF InnermostKnows, At
<1>8. pc[t] = "resume" => At(t, k) = "answered"
  BY <1>1 DEF InnermostKnows, At
<1>9. pc[t] = "trap" => At(t, k) = IF n.ask = "none" THEN "native" ELSE "answered"
  BY <1>1 DEF InnermostKnows, At
<1> QED
  BY <1>2, <1>5, <1>6, <1>7, <1>8, <1>9 DEF AtByLabel

-----------------------------------------------------------------------------
(* What a step does to the abstract stack.                                 *)

LEMMA StackDomain == DOMAIN AbsStack = Threads /\ AbsStack = [t \in Threads |-> AbsStack[t]]
BY DEF AbsStack

\* The same of the state that a step leads to.
LEMMA StackNext ==
  /\ Inv' => \A t \in Threads : AbsStack'[t] = [c \in 1 .. calls'[t] |-> Shown(t, c)']
  /\ AbsStack' = [t \in Threads |-> AbsStack'[t]]
<1>1. (Inv => \A t \in Threads : AbsStack[t] = [c \in 1 .. calls[t] |-> Shown(t, c)])'
  BY StackShown, PTL
<1>2. (DOMAIN AbsStack = Threads /\ AbsStack = [t \in Threads |-> AbsStack[t]])'
  BY StackDomain, PTL
<1> QED
  BY <1>1, <1>2

LEMMA UntouchedStack ==
  ASSUME Inv, Inv', NEW x \in Threads, Untouched(x)
  PROVE  AbsStack'[x] = AbsStack[x]
<1>1. AbsStack[x] = [c \in 1 .. calls[x] |-> Shown(x, c)]
  BY StackShown
<1>2. AbsStack'[x] = [c \in 1 .. calls'[x] |-> Shown(x, c)']
  BY StackNext
<1>3. calls'[x] = calls[x] /\ \A c \in 1 .. calls[x] : c \in 1 .. MaxDepth
  BY DEF Untouched, Inv, Inv1, TypeOK
<1>4. ASSUME NEW c \in 1 .. MaxDepth PROVE Shown(x, c)' = Shown(x, c)
  <2>1. native'[<<x, c>>] = native[<<x, c>>] /\ local'[<<x, c>>] = local[<<x, c>>]
    BY DEF Untouched
  <2> QED
    BY <2>1 DEF Shown, At
<1> QED
  BY <1>1, <1>2, <1>3, <1>4

\* The threads but t show what they showed.
Others(t) == \A x \in Threads \ {t} : AbsStack'[x] = AbsStack[x]

LEMMA ShowSetTop ==
  ASSUME Inv, Inv', NEW t \in Threads, Others(t), NEW k \in Nat \ {0}, calls[t] = k, calls'[t] = k,
         \A c \in 1 .. (k - 1) : Shown(t, c)' = Shown(t, c),
         NEW at, NEW arg, Shown(t, k)' = [Shown(t, k) EXCEPT !.at = at, !.arg = arg]
  PROVE  Abstract!SetTop(t, at, arg)
<1> DEFINE new == [AbsStack[t][k] EXCEPT !.at = at, !.arg = arg]
<1>1. Len(AbsStack[t]) = k /\ AbsStack[t] = [c \in 1 .. k |-> Shown(t, c)]
  BY StackLength, StackShown
<1>2. AbsStack[t][k] = Shown(t, k)
  BY <1>1
<1>3. AbsStack'[t] = [c \in 1 .. k |-> Shown(t, c)']
  BY StackNext
<1>4. new = Shown(t, k)'
  BY <1>2
<1> HIDE DEF new
<1>5. AbsStack'[t] = [AbsStack[t] EXCEPT ![k] = new]
  BY <1>1, <1>3, <1>4
<1>6. AbsStack' = [AbsStack EXCEPT ![t] = [AbsStack[t] EXCEPT ![k] = new]]
  BY <1>5, StackNext, StackDomain DEF Others
<1> QED
  BY <1>1, <1>6 DEF Abstract!SetTop, new

LEMMA AppendPointwise ==
  ASSUME NEW S, NEW s \in Seq(S), NEW e
  PROVE  Append(s, e) = [i \in 1 .. (Len(s) + 1) |-> IF i = Len(s) + 1 THEN e ELSE s[i]]
<1> DEFINE T == S \cup {e}
<1>1. Len(s) \in Nat /\ s \in [1 .. Len(s) -> S]
  BY LenProperties
<1>2. s \in Seq(T)
  BY <1>1, SeqDef
<1>3. e \in T
  OBVIOUS
<1> HIDE DEF T
<1>4. /\ Append(s, e) \in Seq(T) /\ Len(Append(s, e)) = Len(s) + 1
      /\ \A i \in 1 .. Len(s) : Append(s, e)[i] = s[i]
      /\ Append(s, e)[Len(s) + 1] = e
  BY <1>2, <1>3, AppendProperties
<1>5. Append(s, e) \in [1 .. (Len(s) + 1) -> T]
  BY <1>4, LenProperties
<1>6. DOMAIN Append(s, e) = 1 .. (Len(s) + 1)
  BY <1>5
<1>7. \A i \in 1 .. (Len(s) + 1) : Append(s, e)[i] = IF i = Len(s) + 1 THEN e ELSE s[i]
  BY <1>1, <1>4
<1>8. Append(s, e) = [i \in 1 .. (Len(s) + 1) |-> Append(s, e)[i]]
  BY <1>5, <1>6
<1> QED
  BY <1>7, <1>8

LEMMA ShowPush ==
  ASSUME Inv, Inv', NEW t \in Threads, Others(t), NEW k \in Nat, calls[t] = k, calls'[t] = k + 1,
         \A c \in 1 .. k : Shown(t, c)' = Shown(t, c),
         NEW f, Shown(t, k + 1)' = [fn |-> f, at |-> "native", arg |-> None]
  PROVE  Abstract!Push(t, f)
<1> DEFINE new == [fn |-> f, at |-> "native", arg |-> None]
<1>1. PICK S : AbsStack[t] \in Seq(S)
  BY StackLength
<1>2. Len(AbsStack[t]) = k /\ AbsStack[t] = [c \in 1 .. k |-> Shown(t, c)]
  BY StackLength, StackShown
<1>3. AbsStack'[t] = [c \in 1 .. (k + 1) |-> Shown(t, c)']
  BY StackNext
<1> HIDE DEF new
<1>4. Append(AbsStack[t], new) = [c \in 1 .. (k + 1) |-> IF c = k + 1 THEN new ELSE AbsStack[t][c]]
  BY <1>1, <1>2, AppendPointwise
<1>5. AbsStack'[t] = Append(AbsStack[t], new)
  BY <1>2, <1>3, <1>4 DEF new
<1>6. AbsStack' = [AbsStack EXCEPT ![t] = Append(AbsStack[t], new)]
  BY <1>5, StackNext, StackDomain DEF Others
<1> QED
  BY <1>6 DEF Abstract!Push, new

LEMMA ShowPop ==
  ASSUME Inv, Inv', NEW t \in Threads, Others(t), NEW k \in Nat \ {0}, calls[t] = k, calls'[t] = k - 1,
         \A c \in 1 .. (k - 1) : Shown(t, c)' = Shown(t, c)
  PROVE  AbsStack' = [AbsStack EXCEPT ![t] = SubSeq(AbsStack[t], 1, Len(AbsStack[t]) - 1)]
<1>1. PICK S : AbsStack[t] \in Seq(S)
  BY StackLength
<1>2. Len(AbsStack[t]) = k /\ AbsStack[t] = [c \in 1 .. k |-> Shown(t, c)]
  BY StackLength, StackShown
<1>3. AbsStack'[t] = [c \in 1 .. (k - 1) |-> Shown(t, c)']
  BY StackNext
<1>4. SubSeq(AbsStack[t], 1, k - 1) = [c \in 1 .. (k - 1) |-> AbsStack[t][c]]
  BY <1>1, <1>2, SubSeqRestrict DEF Restrict
<1>5. AbsStack'[t] = SubSeq(AbsStack[t], 1, k - 1)
  BY <1>2, <1>3, <1>4
<1> QED
  BY <1>2, <1>5, StackNext, StackDomain DEF Others

LEMMA ShowEmpty ==
  ASSUME Inv, Inv', NEW t \in Threads, Others(t), calls'[t] = 0
  PROVE  AbsStack' = [AbsStack EXCEPT ![t] = << >>]
<1>1. AbsStack'[t] = << >>
  BY StackNext
<1> QED
  BY <1>1, StackNext, StackDomain DEF Others

LEMMA ShowSame ==
  ASSUME Inv, Inv', \A x \in Threads : AbsStack'[x] = AbsStack[x]
  PROVE  AbsStack' = AbsStack
BY StackNext, StackDomain

LEMMA ShowTop ==
  Inv => \A t \in Threads :
    /\ calls[t] = 0 => AbsStack[t] = << >>
    /\ calls[t] > 0 => /\ AbsStack[t] # << >>
                       /\ Abstract!Top(t) = Shown(t, calls[t])
                       /\ \A points : At(t, calls[t]) \in points => Abstract!TopAt(t, points)
<1> SUFFICES ASSUME Inv, NEW t \in Threads
             PROVE  /\ calls[t] = 0 => AbsStack[t] = << >>
                    /\ calls[t] > 0 => /\ AbsStack[t] # << >>
                                       /\ Abstract!Top(t) = Shown(t, calls[t])
                                       /\ \A points : At(t, calls[t]) \in points => Abstract!TopAt(t, points)
  OBVIOUS
<1>1. calls[t] \in Nat /\ Len(AbsStack[t]) = calls[t] /\ \A c \in 1 .. calls[t] : AbsStack[t][c] = Shown(t, c)
  BY StackLength
<1>2. calls[t] = 0 => AbsStack[t] = << >>
  BY <1>1, StackLength, EmptySeq
<1>3. ASSUME calls[t] > 0 PROVE AbsStack[t] # << >> /\ Abstract!Top(t) = Shown(t, calls[t])
  BY <1>1, <1>3 DEF Abstract!Top
<1>4. Shown(t, calls[t]).at = At(t, calls[t])
  BY DEF Shown
<1> QED
  BY <1>2, <1>3, <1>4 DEF Abstract!TopAt

LEMMA InnermostAtNext == Inv' => \A t \in Threads : AtByLabel(t)'
<1>1. (Inv => \A t \in Threads : AtByLabel(t))'
  BY InnermostAt, PTL
<1> QED
  BY <1>1

-----------------------------------------------------------------------------
(* Status, job and made.                                                   *)

Live == InFrame \cup {"guest"}

LEMMA SameStatus ==
  ASSUME \A x \in Threads : \/ pc'[x] = pc[x]
                            \/ {pc[x], pc'[x]} \subseteq Live
                            \/ {pc[x], pc'[x]} \subseteq Starting \ {"entry"}
  PROVE  AbsStatus' = AbsStatus
BY DEF AbsStatus, Live, InFrame, Asks, Creating, Starting

LEMMA SameJob ==
  ASSUME parent' = parent, entry' = entry,
         \A x \in Threads : /\ pc'[x] = "entry" <=> pc[x] = "entry"
                            /\ pc[x] = "entry" => info'[parent[x]].entry = info[parent[x]].entry
  PROVE  AbsJob' = AbsJob
BY DEF AbsJob

LEMMA SameMade ==
  ASSUME \A x \in Threads : \/ pc[x] \notin Creating /\ pc'[x] \notin Creating
                            \/ info'[x].thread = info[x].thread /\ {pc[x], pc'[x]} \subseteq Creating
                            \/ pc'[x] = "spawn" /\ pc[x] \notin Creating /\ info'[x].thread = None
  PROVE  AbsMade' = AbsMade
BY DEF AbsMade, Creating

\* Between the steps of the handshake, only the stack of a thread can change.
LEMMA SameRest ==
  ASSUME Inv, NEW t \in Threads, {pc[t], pc'[t]} \subseteq Live, parent' = parent, entry' = entry,
         \A x \in Threads \ {t} : pc'[x] = pc[x] /\ info'[x] = info[x],
         pc[t] \in {"park", "waiting"} => info'[t].entry = info[t].entry,
         \/ pc[t] \notin Creating /\ pc'[t] \notin Creating
         \/ info'[t].thread = info[t].thread /\ {pc[t], pc'[t]} \subseteq Creating
         \/ pc'[t] = "spawn" /\ pc[t] \notin Creating /\ info'[t].thread = None
  PROVE  UNCHANGED <<AbsStatus, AbsJob, AbsMade>>
<1>1. AbsStatus' = AbsStatus
  BY SameStatus
<1>2. AbsMade' = AbsMade
  BY SameMade
<1>3. ASSUME NEW x \in Threads, pc[x] = "entry"
      PROVE  info'[parent[x]].entry = info[parent[x]].entry
  <2>1. parent[x] \in Threads /\ pc[parent[x]] \in {"park", "waiting"}
    BY <1>3 DEF Inv, HandshakeInv, CreatedKnows
  <2> QED
    BY <2>1
<1>4. \A x \in Threads : pc'[x] = "entry" <=> pc[x] = "entry"
  BY DEF Live, InFrame, Asks, Creating
<1> QED
  BY <1>1, <1>2, <1>3, <1>4, SameJob

-----------------------------------------------------------------------------
(* The steps.                                                              *)

By(t) == Program(t) \/ Serve(t) \/ Enter(t) \/ SpuriousWake(t)

LEMMA OthersShown ==
  ASSUME Inv, Inv', NEW t \in Threads, By(t)
  PROVE  Others(t)
<1>1. \A x \in Threads \ {t} : Untouched(x)
  BY StepIsLocal DEF Inv, By, StepBy
<1> QED
  BY <1>1, UntouchedStack DEF Others

\* Nothing is shown of t but its native and local slots up to its open calls.
LEMMA ShownSame ==
  ASSUME NEW t, NEW c, native'[<<t, c>>] = native[<<t, c>>], local'[<<t, c>>] = local[<<t, c>>]
  PROVE  Shown(t, c)' = Shown(t, c)
BY DEF Shown, At

LEMMA KeepsStack ==
  ASSUME Inv, Inv', NEW t \in Threads, By(t), native' = native, local' = local, calls' = calls
  PROVE  UNCHANGED AbsStack
<1>1. \A x \in Threads \ {t} : AbsStack'[x] = AbsStack[x]
  BY OthersShown DEF Others
<1>2. AbsStack'[t] = AbsStack[t]
  <2>1. AbsStack[t] = [c \in 1 .. calls[t] |-> Shown(t, c)]
    BY StackShown
  <2>2. AbsStack'[t] = [c \in 1 .. calls[t] |-> Shown(t, c)']
    BY StackNext
  <2> QED
    BY <2>1, <2>2, ShownSame
<1> QED
  BY <1>1, <1>2, ShowSame

LEMMA CallNativePushes ==
  ASSUME Inv, Inv', NEW t \in Threads, By(t), NEW f \in Fns \cup {None}, CallNative(t, f),
         pc[t] \in {"guest", "start"}
  PROVE  Abstract!Push(t, f)
<1>k. PICK k \in Nat : k = depth[t]
  BY DEF Inv, Inv1, TypeOK
<1>1. calls[t] = k /\ k + 1 \in 1 .. MaxDepth /\ MaxDepth \in Nat
  BY <1>k DEF Inv, Inv1, TypeOK, DepthInv, CallNative
<1>2. calls'[t] = k + 1
  BY <1>1, <1>k DEF Inv, Inv1, TypeOK, CallNative
<1>3. \A c \in 1 .. MaxDepth : /\ local'[<<t, c>>] = local[<<t, c>>]
                               /\ c # k + 1 => native'[<<t, c>>] = native[<<t, c>>]
  BY <1>1, <1>k, SlotType DEF Inv, Inv1, TypeOK, CallNative
<1>4. \A c \in 1 .. k : Shown(t, c)' = Shown(t, c)
  <2>1. \A c \in 1 .. k : c \in 1 .. MaxDepth /\ c # k + 1
    BY <1>1
  <2> QED
    BY <1>3, <2>1, ShownSame
<1>5. /\ native'[<<t, k + 1>>].fn = f /\ native'[<<t, k + 1>>].ask = "none"
      /\ native'[<<t, k + 1>>].arg = None
  BY <1>1, <1>k, SlotType DEF Inv, Inv1, TypeOK, CallNative, NoCall
<1>6. Shown(t, k + 1)' = [fn |-> f, at |-> "native", arg |-> None]
  <2>1. At(t, k + 1)' = "native"
    BY <1>5 DEF At
  <2> QED
    BY <1>5, <2>1 DEF Shown
<1> QED
  BY <1>1, <1>2, <1>4, <1>6, OthersShown, ShowPush

\* Steps that change what is shown of the innermost call, and of no other.
LEMMA TopChanges ==
  ASSUME Inv, Inv', NEW t \in Threads, By(t), NEW k \in 1 .. MaxDepth, k = depth[t], calls[t] = k, calls'[t] = k,
         \A d \in 1 .. MaxDepth : d # k => /\ native'[<<t, d>>] = native[<<t, d>>]
                                           /\ local'[<<t, d>>] = local[<<t, d>>],
         native'[<<t, k>>].fn = native[<<t, k>>].fn,
         NEW at, NEW arg, At(t, k)' = at, native'[<<t, k>>].arg = arg
  PROVE  Abstract!SetTop(t, at, arg)
<1>1. k \in Nat \ {0} /\ \A c \in 1 .. (k - 1) : c \in 1 .. MaxDepth /\ c # k
  BY DEF Inv, Inv1, TypeOK
<1>2. \A c \in 1 .. (k - 1) : Shown(t, c)' = Shown(t, c)
  BY <1>1, ShownSame
<1>3. Shown(t, k)' = [Shown(t, k) EXCEPT !.at = at, !.arg = arg]
  <2>1. Shown(t, k) = [fn |-> native[<<t, k>>].fn, at |-> At(t, k), arg |-> native[<<t, k>>].arg]
    BY DEF Shown
  <2>2. Shown(t, k)' = [fn |-> native[<<t, k>>].fn, at |-> at, arg |-> arg]
    BY DEF Shown
  <2> DEFINE F == {native[<<t, k>>].fn}
             A == {At(t, k), at}
             R == {native[<<t, k>>].arg, arg}
  <2>3. PICK x : x = Shown(t, k)
    OBVIOUS
  <2>4. x \in [fn : F, at : A, arg : R] /\ at \in A /\ arg \in R /\ x.fn = native[<<t, k>>].fn
    BY <2>1, <2>3
  <2> HIDE DEF F, A, R
  <2> DEFINE y == [x EXCEPT !.at = at, !.arg = arg]
  <2>5. y \in [fn : F, at : A, arg : R]
    BY <2>4
  <2>6. y.at = at /\ y.arg = arg /\ y.fn = x.fn
    BY <2>4
  <2>7. y = [fn |-> x.fn, at |-> at, arg |-> arg]
    <3> HIDE DEF y
    <3>1. y = [fn |-> y.fn, at |-> y.at, arg |-> y.arg]
      BY <2>5
    <3> QED
      BY <2>6, <3>1
  <2> QED
    BY <2>2, <2>3, <2>4, <2>7, Zenon
<1> QED
  BY <1>1, <1>2, <1>3, OthersShown, ShowSetTop

\* Where the innermost native function of a thread stands while it runs.
LEMMA RunningIs ==
  ASSUME Inv, NEW t \in Threads, Running(t), NEW k, k = depth[t]
  PROVE  /\ pc[t] = "trap" /\ calls[t] = k /\ k \in 1 .. MaxDepth /\ k > 0 /\ Innermost(t) = <<t, k>>
         /\ native[<<t, k>>].ask = "none"
<1>1. pc[t] = "trap" /\ native[Innermost(t)].ask = "none"
  BY DEF Running
<1>2. calls[t] = k /\ k > 0
  BY <1>1 DEF Inv, Inv1, DepthInv, InFrame
<1>3. k \in 0 .. MaxDepth
  BY DEF Inv, Inv1, TypeOK
<1> QED
  BY <1>1, <1>2, <1>3 DEF Innermost

LEMMA AskShows ==
  ASSUME Inv, Inv', NEW t \in Threads, By(t), NEW kind \in Asks, NEW f \in Fns \cup {None}, NEW ref,
         Ask(t, kind, f, ref)
  PROVE  Abstract!TopAt(t, {"native"}) /\ Abstract!SetTop(t, kind, f)
<1> DEFINE k == depth[t]
<1>1. pc[t] = "trap" /\ calls[t] = k /\ k \in 1 .. MaxDepth /\ k > 0 /\ Innermost(t) = <<t, k>>
      /\ native[<<t, k>>].ask = "none"
  BY RunningIs DEF Ask
<1>2. At(t, k) = "native"
  BY <1>1, InnermostAt DEF AtByLabel
<1>3. /\ calls'[t] = k /\ depth'[t] = k /\ pc'[t] = kind /\ local' = local
      /\ \A d \in 1 .. MaxDepth : d # k => native'[<<t, d>>] = native[<<t, d>>]
      /\ native'[<<t, k>>].fn = native[<<t, k>>].fn /\ native'[<<t, k>>].arg = f
  BY <1>1, SlotType DEF Inv, Inv1, TypeOK, Calls, Ask, Goto
<1>4. At(t, k)' = kind
  BY <1>3, InnermostAtNext DEF AtByLabel
<1>5. Abstract!TopAt(t, {"native"})
  BY <1>1, <1>2, ShowTop
<1> HIDE DEF k
<1>6. Abstract!SetTop(t, kind, f)
  BY <1>1, <1>3, <1>4, TopChanges DEF k
<1> QED
  BY <1>5, <1>6

LEMMA ContinueShows ==
  ASSUME Inv, Inv', NEW t \in Threads, By(t), NativeContinue(t)
  PROVE  Abstract!TopAt(t, {"answered"}) /\ Abstract!SetTop(t, "native", None)
<1> DEFINE k == depth[t]
<1>1. pc[t] = "trap" /\ calls[t] = k /\ k \in 1 .. MaxDepth /\ k > 0 /\ Innermost(t) = <<t, k>>
      /\ native[<<t, k>>].ask # "none"
  <2>1. pc[t] = "trap" /\ native[Innermost(t)].ask # "none"
    BY DEF NativeContinue, ContinueStoring
  <2>2. calls[t] = k /\ k > 0
    BY <2>1 DEF Inv, Inv1, DepthInv, InFrame
  <2>3. k \in 0 .. MaxDepth
    BY DEF Inv, Inv1, TypeOK
  <2> QED
    BY <2>1, <2>2, <2>3 DEF Innermost
<1>2. At(t, k) = "answered"
  BY <1>1, InnermostAt DEF AtByLabel
<1>3. /\ calls' = calls /\ depth' = depth /\ pc' = pc /\ local' = local
      /\ \A d \in 1 .. MaxDepth : d # k => native'[<<t, d>>] = native[<<t, d>>]
  BY <1>1, SlotType DEF Inv, Inv1, TypeOK, NativeContinue, ContinueStoring, guestVars
<1>4. /\ native'[<<t, k>>].fn = native[<<t, k>>].fn /\ native'[<<t, k>>].ask = "none"
      /\ native'[<<t, k>>].arg = None
  BY <1>1, SlotType DEF Inv, Inv1, TypeOK, Calls, NativeContinue, ContinueStoring
<1>5. At(t, k)' = "native"
  BY <1>1, <1>3, <1>4, InnermostAtNext DEF AtByLabel
<1>6. Abstract!TopAt(t, {"answered"})
  BY <1>1, <1>2, ShowTop
<1>7. Abstract!SetTop(t, "native", None)
  BY <1>1, <1>3, <1>4, <1>5, TopChanges
<1> QED
  BY <1>6, <1>7

-----------------------------------------------------------------------------
(* One lemma per kind of step: it is a step of CrossCall or a stutter.     *)

Simulated == [Abstract!Next]_(Abstract!vars)

LEMMA Stutters ==
  ASSUME UNCHANGED AbsStack, UNCHANGED <<AbsStatus, AbsJob, AbsMade>>
  PROVE  Simulated
BY DEF Simulated, Abstract!vars

\* The abstract status of a thread that runs.
LEMMA RunningStatus ==
  ASSUME NEW t \in Threads, pc[t] \in Live
  PROVE  AbsStatus[t] = "running"
BY DEF AbsStatus, Live, InFrame, Asks, Creating, Starting

LEMMA GuestCallShows ==
  ASSUME Inv, Inv', NEW t \in Threads, By(t), NEW f \in Fns, GuestCall(t, f)
  PROVE  Simulated
<1>1. pc[t] = "guest" /\ CallNative(t, f) /\ calls[t] \in Nat
  BY DEF GuestCall, Inv, Inv1, TypeOK
<1>2. Abstract!Push(t, f)
  BY <1>1, CallNativePushes
<1>3. AbsStatus[t] = "running"
  BY <1>1, RunningStatus DEF Live
<1>4. AbsStack[t] = << >> \/ Abstract!TopAt(t, {"guest"})
  <2>1. calls[t] = depth[t] /\ (depth[t] > 0 => At(t, depth[t]) = "guest")
    BY <1>1, InnermostAt DEF AtByLabel
  <2> QED
    BY <1>1, <2>1, ShowTop
<1>5. UNCHANGED <<AbsStatus, AbsJob, AbsMade>>
  BY <1>1, SameRest DEF CallNative, Goto, threadVars, Inv, Inv1, TypeOK, Live, InFrame, Creating, Asks
<1>6. Abstract!Call(t, f)
  BY <1>2, <1>3, <1>4, <1>5 DEF Abstract!Call
<1> QED
  BY <1>6 DEF Simulated, Abstract!Next

LEMMA EntryStartShows ==
  ASSUME Inv, Inv', NEW t \in Threads, By(t), EntryStart(t)
  PROVE  Simulated
<1>1. PICK f \in Fns \cup {None} : f = entry[t]
  BY DEF Inv, Inv1, TypeOK
<1>2. pc[t] = "start" /\ CallNative(t, f)
  BY <1>1 DEF EntryStart
<1>3. Abstract!Push(t, f)
  BY <1>2, CallNativePushes
<1>4. pc' = [pc EXCEPT ![t] = "trap"] /\ UNCHANGED <<info, parent, entry>> /\ pc \in [Threads -> Labels]
  BY <1>2 DEF CallNative, Goto, threadVars, Inv, Inv1, TypeOK
<1>5. AbsStatus[t] = "ready" /\ AbsStatus' = [AbsStatus EXCEPT ![t] = "running"]
  BY <1>2, <1>4 DEF AbsStatus, Starting
<1>6. AbsJob[t] = f /\ AbsJob' = AbsJob
  BY <1>1, <1>2, <1>4 DEF AbsJob
<1>7. AbsMade' = AbsMade
  BY <1>2, <1>4 DEF AbsMade, Creating
<1>8. Abstract!Start(t)
  BY <1>3, <1>5, <1>6, <1>7 DEF Abstract!Start
<1> QED
  BY <1>8 DEF Simulated, Abstract!Next

LEMMA AskSimulated ==
  ASSUME Inv, Inv', NEW t \in Threads, By(t), NEW kind \in Asks, NEW f \in Fns \cup {None}, NEW ref,
         Ask(t, kind, f, ref), kind = "PThreadExit" => f = None, kind # "PThreadExit" => f \in Fns
  PROVE  Simulated
<1>1. Abstract!TopAt(t, {"native"}) /\ Abstract!SetTop(t, kind, f)
  BY AskShows
<1>2. UNCHANGED <<AbsStatus, AbsJob, AbsMade>>
  BY SameRest DEF Ask, Running, Goto, threadVars, Inv, Inv1, TypeOK, Live, InFrame, Creating, Asks
<1>3. Abstract!Ask(t, kind, f)
  BY <1>1, <1>2 DEF Abstract!Ask
<1> QED
  BY <1>3 DEF Simulated, Abstract!Next, Asks

LEMMA NativeFinishShows ==
  ASSUME Inv, Inv', NEW t \in Threads, By(t), NativeFinish(t)
  PROVE  Simulated
<1>k. PICK k \in Nat : k = depth[t]
  BY DEF Inv, Inv1, TypeOK
<1>1. /\ pc[t] = "trap" /\ calls[t] = k /\ k \in 1 .. MaxDepth /\ k \in Nat \ {0} /\ Innermost(t) = <<t, k>>
      /\ native[<<t, k>>].ask = "none" /\ Running(t)
  BY <1>k, RunningIs DEF NativeFinish
<1>2. At(t, k) = "native"
  BY <1>k, <1>1, InnermostAt DEF AtByLabel
<1>3. Abstract!TopAt(t, {"native"})
  BY <1>1, <1>2, ShowTop
<1>4. /\ calls'[t] = k - 1 /\ local' = local
      /\ \A d \in 1 .. MaxDepth : d # k => native'[<<t, d>>] = native[<<t, d>>]
  BY <1>1, SlotType DEF Inv, Inv1, TypeOK, NativeFinish, guestVars
<1>5. \A c \in 1 .. (k - 1) : Shown(t, c)' = Shown(t, c)
  <2>1. \A c \in 1 .. (k - 1) : c \in 1 .. MaxDepth /\ c # k
    BY <1>1
  <2> QED
    BY <1>4, <2>1, ShownSame
<1>6. AbsStack' = [AbsStack EXCEPT ![t] = SubSeq(AbsStack[t], 1, Len(AbsStack[t]) - 1)]
  BY <1>1, <1>4, <1>5, OthersShown, ShowPop
<1>7. UNCHANGED <<AbsStatus, AbsJob, AbsMade>>
  BY SameRest DEF NativeFinish, Running, Goto, threadVars, Inv, Inv1, TypeOK, Live, InFrame, Creating, Asks
<1>8. Abstract!Finish(t)
  BY <1>3, <1>6, <1>7 DEF Abstract!Finish
<1> QED
  BY <1>8 DEF Simulated, Abstract!Next

LEMMA ContinueSimulated ==
  ASSUME Inv, Inv', NEW t \in Threads, By(t), NativeContinue(t)
  PROVE  Simulated
<1>1. Abstract!TopAt(t, {"answered"}) /\ Abstract!SetTop(t, "native", None)
  BY ContinueShows
<1>2. UNCHANGED <<AbsStatus, AbsJob, AbsMade>>
  BY SameRest DEF NativeContinue, ContinueStoring, threadVars, Live, InFrame, Creating, Asks
<1>3. Abstract!Continue(t)
  BY <1>1, <1>2 DEF Abstract!Continue
<1> QED
  BY <1>3 DEF Simulated, Abstract!Next

LEMMA ServeCallbackShows ==
  ASSUME Inv, Inv', NEW t \in Threads, By(t), ServeCallback(t)
  PROVE  Simulated
<1>k. PICK k \in Nat : k = depth[t]
  BY DEF Inv, Inv1, TypeOK
<1>1. pc[t] = "Callback" /\ calls[t] = k /\ k \in 1 .. MaxDepth /\ k > 0
  BY <1>k DEF Inv, Inv1, TypeOK, DepthInv, InFrame, Asks, ServeCallback
<1>2. At(t, k) = "Callback"
  BY <1>k, <1>1, InnermostAt DEF AtByLabel, Asks
<1>a. PICK a : a = native[<<t, k>>].arg
  OBVIOUS
<1>3. Abstract!TopAt(t, {"Callback"}) /\ Abstract!Top(t).arg = a
  BY <1>1, <1>2, <1>a, ShowTop DEF Shown
<1>4. /\ calls' = calls /\ depth' = depth /\ native' = native /\ pc'[t] = "guest"
      /\ \A d \in 1 .. MaxDepth : d # k => local'[<<t, d>>] = local[<<t, d>>]
  BY <1>k, <1>1, SlotType DEF Inv, Inv1, TypeOK, ServeCallback, hostVars, Goto, Frame
<1>5. At(t, k)' = "guest"
  BY <1>k, <1>1, <1>4, InnermostAtNext DEF AtByLabel
<1>6. Abstract!SetTop(t, "guest", a)
  BY <1>k, <1>1, <1>4, <1>5, <1>a, TopChanges
<1>7. UNCHANGED <<AbsStatus, AbsJob, AbsMade>>
  BY SameRest DEF ServeCallback, Goto, threadVars, Inv, Inv1, TypeOK, Live, InFrame, Creating, Asks
<1>8. Abstract!RunCallback(t)
  BY <1>3, <1>6, <1>7 DEF Abstract!RunCallback
<1> QED
  BY <1>8 DEF Simulated, Abstract!Next

LEMMA CallbackReturnShows ==
  ASSUME Inv, Inv', NEW t \in Threads, By(t), CallbackReturn(t)
  PROVE  Simulated
<1>k. PICK k \in Nat : k = depth[t]
  BY DEF Inv, Inv1, TypeOK
<1>1. pc[t] = "guest" /\ calls[t] = k /\ k \in 1 .. MaxDepth /\ k > 0
  BY <1>k DEF Inv, Inv1, TypeOK, DepthInv, CallbackReturn
<1>2. At(t, k) = "guest" /\ local[<<t, k>>].ref = <<t, k>>
  <2>1. Suspended(t, k)
    BY <1>k, <1>1 DEF Inv, NestingInv, NestInv, OuterSuspended, Outer
  <2> QED
    BY <1>k, <1>1, <2>1, InnermostAt DEF AtByLabel, Suspended
<1>a. PICK a : a = native[<<t, k>>].arg
  OBVIOUS
<1>3. Abstract!TopAt(t, {"guest"}) /\ Abstract!Top(t).arg = a
  BY <1>1, <1>2, <1>a, ShowTop DEF Shown
<1>4. /\ calls' = calls /\ depth' = depth /\ pc'[t] = "resume"
      /\ \A d \in 1 .. MaxDepth : d # k => /\ local'[<<t, d>>] = local[<<t, d>>]
                                           /\ native'[<<t, d>>] = native[<<t, d>>]
      /\ native'[<<t, k>>].fn = native[<<t, k>>].fn /\ native'[<<t, k>>].arg = a
  BY <1>k, <1>1, <1>2, <1>a, SlotType DEF Inv, Inv1, TypeOK, Calls, CallbackReturn, Answer, Goto, Frame
<1>5. At(t, k)' = "answered"
  BY <1>k, <1>1, <1>4, InnermostAtNext DEF AtByLabel
<1>6. Abstract!SetTop(t, "answered", a)
  BY <1>k, <1>1, <1>4, <1>5, TopChanges
<1>7. UNCHANGED <<AbsStatus, AbsJob, AbsMade>>
  BY SameRest DEF CallbackReturn, Goto, threadVars, Inv, Inv1, TypeOK, Live, InFrame, Creating, Asks
<1>8. Abstract!Return(t)
  BY <1>3, <1>6, <1>7 DEF Abstract!Return
<1> QED
  BY <1>8 DEF Simulated, Abstract!Next

LEMMA ServeCreateShows ==
  ASSUME Inv, Inv', NEW t \in Threads, By(t), ServeCreate(t)
  PROVE  Simulated
<1>k. PICK k \in Nat : k = depth[t]
  BY DEF Inv, Inv1, TypeOK
<1>1. pc[t] = "PThreadCreate" /\ calls[t] = k /\ k \in 1 .. MaxDepth /\ k > 0
  BY <1>k DEF Inv, Inv1, TypeOK, DepthInv, InFrame, Asks, ServeCreate, PrepareInfo
<1>2. At(t, k) = "PThreadCreate"
  BY <1>k, <1>1, InnermostAt DEF AtByLabel, Asks
<1>3. /\ calls' = calls /\ depth' = depth /\ native' = native /\ pc'[t] = "spawn"
      /\ \A d \in 1 .. MaxDepth : d # k => local'[<<t, d>>] = local[<<t, d>>]
  BY <1>k, <1>1, SlotType DEF Inv, Inv1, TypeOK, ServeCreate, PrepareInfo, hostVars, Goto, Frame
<1>4. At(t, k)' = "PThreadCreate"
  BY <1>k, <1>1, <1>3, InnermostAtNext DEF AtByLabel, Creating
<1>5. \A c \in 1 .. calls[t] : Shown(t, c)' = Shown(t, c)
  <2>1. \A c \in 1 .. calls[t] : c \in 1 .. MaxDepth
    BY <1>1
  <2>2. Shown(t, k)' = Shown(t, k)
    BY <1>2, <1>3, <1>4 DEF Shown
  <2> QED
    BY <1>3, <2>1, <2>2, ShownSame
<1>6. AbsStack' = AbsStack
  <2>1. AbsStack'[t] = AbsStack[t]
    <3>1. AbsStack[t] = [c \in 1 .. calls[t] |-> Shown(t, c)]
      BY StackShown
    <3>2. AbsStack'[t] = [c \in 1 .. calls[t] |-> Shown(t, c)']
      BY <1>3, StackNext
    <3> QED
      BY <1>5, <3>1, <3>2
  <2> QED
    BY <2>1, OthersShown, ShowSame DEF Others
<1>7. UNCHANGED <<AbsStatus, AbsJob, AbsMade>>
  BY SameRest
  DEF ServeCreate, PrepareInfo, Goto, Inv, Inv1, TypeOK, Live, InFrame, Creating, Asks
<1> QED
  BY <1>6, <1>7, Stutters

LEMMA SpawnShows ==
  ASSUME Inv, Inv', NEW t \in Threads, By(t), NEW u \in Threads, SpawnOk(t, u)
  PROVE  Simulated
<1>k. PICK k \in Nat : k = depth[t]
  BY DEF Inv, Inv1, TypeOK
<1>1. pc[t] = "spawn" /\ pc[u] = "unborn" /\ u # t /\ calls[t] = k /\ k \in 1 .. MaxDepth /\ k > 0
  BY <1>k DEF Inv, Inv1, TypeOK, DepthInv, InFrame, Creating, SpawnOk
<1>2. At(t, k) = "PThreadCreate" /\ native[<<t, k>>].arg = info[t].entry
  <2>1. At(t, k) = "PThreadCreate"
    BY <1>k, <1>1, InnermostAt DEF AtByLabel, Creating
  <2>2. InnermostKnows(t)
    BY DEF Inv, NestingInv, NestInv
  <2>3. native[<<t, k>>].arg = info[t].entry
    BY <1>k, <1>1, <2>2 DEF Creating, InnermostKnows
  <2> QED
    BY <2>1, <2>3
<1>3. Abstract!TopAt(t, {"PThreadCreate"}) /\ Abstract!Top(t).arg = info[t].entry
  BY <1>1, <1>2, ShowTop DEF Shown
<1>4. AbsStack' = AbsStack
  BY KeepsStack DEF SpawnOk, guestVars, hostVars
<1> USE DEF Inv, Inv1, TypeOK
<1>5. /\ pc' = [pc EXCEPT ![t] = "park", ![u] = "entry"]
      /\ parent' = [parent EXCEPT ![u] = t] /\ entry' = entry
  BY DEF SpawnOk, AfterCreate
<1>6. /\ info'[t].thread = u /\ info'[t].entry = info[t].entry
      /\ \A x \in Threads \ {t} : info'[x] = info[x]
  BY DEF SpawnOk, Infos
<1>7. AbsStatus[u] = "unborn" /\ AbsStatus' = [AbsStatus EXCEPT ![u] = "given"]
  BY <1>1, <1>5 DEF AbsStatus, Starting
<1>8. AbsMade[t] = None /\ AbsMade' = [AbsMade EXCEPT ![t] = u]
  <2>1. info[t].thread = None
    BY <1>1 DEF HandshakeInv, CreatorKnows
  <2>2. pc'[t] = "park" /\ pc'[u] = "entry" /\ \A x \in Threads \ {t, u} : pc'[x] = pc[x]
    BY <1>1, <1>5
  <2>3. AbsMade'[t] = u /\ \A x \in Threads \ {t} : AbsMade'[x] = AbsMade[x]
    BY <1>1, <1>6, <2>2 DEF AbsMade, Creating
  <2>4. AbsMade[t] = None /\ DOMAIN AbsMade = Threads /\ AbsMade' = [x \in Threads |-> AbsMade'[x]]
    BY <2>1 DEF AbsMade
  <2> QED
    BY <2>3, <2>4
<1>9. AbsJob' = [AbsJob EXCEPT ![u] = info[t].entry]
  <2>1. \A x \in Threads \ {u} : /\ pc'[x] = "entry" <=> pc[x] = "entry"
                                 /\ parent'[x] = parent[x]
                                 /\ pc[x] = "entry" => info'[parent[x]].entry = info[parent[x]].entry
    <3>1. \A x \in Threads : pc[x] = "entry" => parent[x] \in Threads
      BY DEF HandshakeInv, CreatedKnows
    <3> QED
      BY <1>1, <1>5, <1>6, <3>1
  <2>2. pc'[u] = "entry" /\ parent'[u] = t
    BY <1>5
  <2> QED
    BY <1>5, <1>6, <2>1, <2>2 DEF AbsJob
<1>10. Abstract!Spawn(t, u)
  BY <1>3, <1>4, <1>7, <1>8, <1>9 DEF Abstract!Spawn
<1> QED
  BY <1>10 DEF Simulated, Abstract!Next

LEMMA DestroyShows ==
  ASSUME Inv, Inv', NEW t \in Threads, By(t), Destroy(t)
  PROVE  Simulated
<1>k. PICK k \in Nat : k = depth[t]
  BY DEF Inv, Inv1, TypeOK
<1>1. pc[t] = "destroy" /\ calls[t] = k /\ k \in 1 .. MaxDepth /\ k > 0
  BY <1>k DEF Inv, Inv1, TypeOK, DepthInv, InFrame, Creating, Destroy
<1>2. At(t, k) = "PThreadCreate" /\ local[<<t, k>>].ref = <<t, k>>
  <2>1. At(t, k) = "PThreadCreate"
    BY <1>k, <1>1, InnermostAt DEF AtByLabel, Creating
  <2>2. InnermostKnows(t)
    BY DEF Inv, NestingInv, NestInv
  <2>3. local[<<t, k>>].ref = <<t, k>>
    BY <1>k, <1>1, <2>2 DEF Creating, InnermostKnows
  <2> QED
    BY <2>1, <2>3
<1>a. PICK a : a = native[<<t, k>>].arg
  OBVIOUS
<1>3. Abstract!TopAt(t, {"PThreadCreate"}) /\ Abstract!Top(t).arg = a
  BY <1>1, <1>2, <1>a, ShowTop DEF Shown
<1>4. /\ calls' = calls /\ depth' = depth /\ pc'[t] = "resume"
      /\ \A d \in 1 .. MaxDepth : d # k => /\ local'[<<t, d>>] = local[<<t, d>>]
                                           /\ native'[<<t, d>>] = native[<<t, d>>]
      /\ native'[<<t, k>>].fn = native[<<t, k>>].fn /\ native'[<<t, k>>].arg = a
  BY <1>k, <1>1, <1>2, <1>a, SlotType DEF Inv, Inv1, TypeOK, Calls, Destroy, Answer, Goto, Frame
<1>5. At(t, k)' = "answered"
  BY <1>k, <1>1, <1>4, InnermostAtNext DEF AtByLabel
<1>6. Abstract!SetTop(t, "answered", a)
  BY <1>k, <1>1, <1>4, <1>5, TopChanges
<1> USE DEF Inv, Inv1, TypeOK
<1>7. /\ pc' = [pc EXCEPT ![t] = "resume"] /\ parent' = parent /\ entry' = entry
      /\ \A x \in Threads \ {t} : info'[x] = info[x]
  BY DEF Destroy, Goto
<1>8. AbsStatus' = AbsStatus
  BY <1>1, <1>7, SameStatus DEF Live, InFrame, Creating
<1>9. AbsMade[t] = info[t].thread /\ AbsMade' = [AbsMade EXCEPT ![t] = None]
  BY <1>1, <1>7 DEF AbsMade, Creating
<1>10. AbsJob' = AbsJob
  <2>1. \A x \in Threads : pc[x] = "entry" => parent[x] \in Threads \ {t}
    BY <1>1 DEF HandshakeInv, CreatedKnows
  <2> QED
    BY <1>1, <1>7, <2>1, SameJob
<1>11. ASSUME info[t].thread # None PROVE AbsStatus[info[t].thread] # "given"
  <2>1. info[t].thread \in Threads /\ parent[info[t].thread] = t
    BY <1>11 DEF ParentInv, Infos
  <2>2. pc[info[t].thread] # "entry"
    BY <1>1, <2>1 DEF HandshakeInv, CreatedKnows
  <2> QED
    BY <2>1, <2>2 DEF AbsStatus, Starting
<1>12. Abstract!Spawned(t)
  BY <1>3, <1>6, <1>8, <1>9, <1>10, <1>11 DEF Abstract!Spawned
<1> QED
  BY <1>12 DEF Simulated, Abstract!Next

\* A thread that ends, at the end of its routine or by asking to.
LEMMA EndShows ==
  ASSUME Inv, Inv', NEW t \in Threads, By(t), pc[t] \in {"Finished", "PThreadExit"},
         calls'[t] = 0, pc' = [pc EXCEPT ![t] = "exited"], UNCHANGED threadVars,
         \/ AbsStack[t] = << >> /\ t \notin AppThreads
         \/ Abstract!TopAt(t, {"PThreadExit"})
  PROVE  Simulated
<1> USE DEF Inv, Inv1, TypeOK
<1>1. AbsStack' = [AbsStack EXCEPT ![t] = << >>]
  BY OthersShown, ShowEmpty
<1>2. AbsStatus[t] = "running" /\ AbsStatus' = [AbsStatus EXCEPT ![t] = "exited"]
  BY DEF AbsStatus, Starting
<1>3. AbsJob' = AbsJob
  BY SameJob DEF threadVars
<1>4. AbsMade' = AbsMade
  BY DEF threadVars, AbsMade, Creating
<1>5. Abstract!End(t)
  BY <1>1, <1>2, <1>3, <1>4 DEF Abstract!End
<1> QED
  BY <1>5 DEF Simulated, Abstract!Next

LEMMA ServeFinishedShows ==
  ASSUME Inv, Inv', NEW t \in Threads, By(t), ServeFinished(t)
  PROVE  Simulated
<1>k. PICK k \in Nat : k = calls[t]
  BY DEF Inv, Inv1, TypeOK
<1>1. pc[t] = "Finished" /\ depth[t] = k + 1 /\ k + 1 \in 1 .. MaxDepth
  BY <1>k DEF Inv, Inv1, TypeOK, DepthInv, InFrame, ServeFinished
<1>2. /\ calls' = calls /\ native' = native /\ UNCHANGED threadVars
      /\ \A d \in 1 .. MaxDepth : d # k + 1 => local'[<<t, d>>] = local[<<t, d>>]
  BY <1>k, <1>1, SlotType DEF Inv, Inv1, TypeOK, ServeFinished, hostVars, Frame
<1>3. \A c \in 1 .. calls[t] : Shown(t, c)' = Shown(t, c)
  <2>1. \A c \in 1 .. calls[t] : c \in 1 .. MaxDepth /\ c # k + 1
    BY <1>k, <1>1
  <2> QED
    BY <1>2, <2>1, ShownSame
<1>4. AbsStack' = AbsStack
  <2>1. AbsStack'[t] = AbsStack[t]
    <3>1. AbsStack[t] = [c \in 1 .. calls[t] |-> Shown(t, c)]
      BY StackShown
    <3>2. AbsStack'[t] = [c \in 1 .. calls[t] |-> Shown(t, c)']
      BY <1>2, StackNext
    <3> QED
      BY <1>3, <3>1, <3>2
  <2> QED
    BY <2>1, OthersShown, ShowSame DEF Others
<1>5. pc' = [pc EXCEPT ![t] = AfterFrame(t)]
  BY DEF ServeFinished, Goto
<1>6. CASE AfterFrame(t) = "guest"
  <2>1. UNCHANGED <<AbsStatus, AbsJob, AbsMade>>
    BY <1>1, <1>2, <1>5, <1>6, SameRest
    DEF threadVars, Inv, Inv1, TypeOK, Live, InFrame, Creating, Asks
  <2> QED
    BY <1>4, <2>1, Stutters
<1>7. CASE AfterFrame(t) # "guest"
  <2>1. depth[t] = 1 /\ parent[t] # None /\ AfterFrame(t) = "exited"
    BY <1>7 DEF AfterFrame
  <2>2. calls[t] = 0 /\ t \notin AppThreads
    BY <1>k, <1>1, <2>1 DEF Inv, AppInv
  <2>3. AbsStack[t] = << >>
    BY <2>2, ShowTop
  <2> QED
    BY <1>1, <1>2, <1>5, <2>1, <2>2, <2>3, EndShows
<1> QED
  BY <1>6, <1>7

LEMMA ServeExitShows ==
  ASSUME Inv, Inv', NEW t \in Threads, By(t), ServeExit(t)
  PROVE  Simulated
<1>1. pc[t] = "PThreadExit" /\ calls[t] = depth[t] /\ calls[t] > 0
  BY DEF Inv, Inv1, TypeOK, DepthInv, InFrame, Asks, ServeExit
<1>2. At(t, calls[t]) = "PThreadExit"
  BY <1>1, InnermostAt DEF AtByLabel, Asks
<1>3. Abstract!TopAt(t, {"PThreadExit"})
  BY <1>1, <1>2, ShowTop
<1>4. calls'[t] = 0 /\ pc' = [pc EXCEPT ![t] = "exited"] /\ UNCHANGED threadVars
  BY DEF ServeExit, Goto, Inv, Inv1, TypeOK
<1> QED
  BY <1>1, <1>3, <1>4, EndShows

LEMMA EntryReadShows ==
  ASSUME Inv, Inv', NEW t \in Threads, By(t), EntryRead(t)
  PROVE  Simulated
<1> USE DEF Inv, Inv1, TypeOK
<1>1. AbsStack' = AbsStack
  BY KeepsStack DEF EntryRead, guestVars, hostVars
<1>2. pc[t] = "entry" /\ info[parent[t]].live
  BY DEF EntryRead, HandshakeInv, CreatedKnows
<1>3. /\ pc' = [pc EXCEPT ![t] = "lock"] /\ entry' = [entry EXCEPT ![t] = info[parent[t]].entry]
      /\ info' = info /\ parent' = parent
  BY <1>2 DEF EntryRead, Goto
<1>4. AbsStatus[t] = "given" /\ AbsStatus' = [AbsStatus EXCEPT ![t] = "ready"]
  BY <1>2, <1>3 DEF AbsStatus, Starting
<1>5. AbsJob' = AbsJob
  BY <1>2, <1>3 DEF AbsJob
<1>6. AbsMade' = AbsMade
  BY <1>2, <1>3 DEF AbsMade, Creating
<1>7. Abstract!Take(t)
  BY <1>1, <1>4, <1>5, <1>6 DEF Abstract!Take
<1> QED
  BY <1>7 DEF Simulated, Abstract!Next

\* Resuming, waiting, waking and locking change nothing that CrossCall shows.
LEMMA HandshakeHidden ==
  ASSUME Inv, Inv', NEW t \in Threads, By(t),
         \/ Resume(t) \/ SpawnFail(t) \/ CondWait(t) \/ SpuriousWake(t) \/ Reacquire(t) \/ Unlock(t)
         \/ EntryLock(t) \/ EntryBroadcast(t) \/ EntryUnlock(t)
  PROVE  Simulated
<1> USE DEF Inv, Inv1, TypeOK, Goto, guestVars, hostVars, threadVars
<1>1. AbsStack' = AbsStack
  BY KeepsStack DEF Resume, SpawnFail, CondWait, SpuriousWake, Reacquire, Unlock,
                    EntryLock, EntryBroadcast, EntryUnlock
<1>2. /\ parent' = parent /\ entry' = entry
      /\ \A x \in Threads : info'[x].entry = info[x].entry /\ info'[x].thread = info[x].thread
  <2>1. CASE Resume(t) \/ SpawnFail(t) \/ SpuriousWake(t) \/ EntryBroadcast(t)
    BY <2>1 DEF Resume, SpawnFail, SpuriousWake, EntryBroadcast
  <2>2. CASE CondWait(t) \/ Reacquire(t) \/ Unlock(t)
    <3>1. PICK h \in Threads \cup {None} : info' = [info EXCEPT ![t] = [@ EXCEPT !.holder = h]]
      BY <2>2 DEF CondWait, Reacquire, Unlock
    <3>2. \A x \in Threads : info[x] \in Infos
      OBVIOUS
    <3>3. \A i \in Infos : [i EXCEPT !.holder = h].entry = i.entry /\ [i EXCEPT !.holder = h].thread = i.thread
      BY DEF Infos
    <3>4. parent' = parent /\ entry' = entry
      BY <2>2 DEF CondWait, Reacquire, Unlock
    <3> QED
      BY <3>1, <3>2, <3>3, <3>4
  <2>3. CASE EntryLock(t) \/ EntryUnlock(t)
    <3>1. PICK h \in Threads \cup {None} : info' = [info EXCEPT ![parent[t]] = [@ EXCEPT !.holder = h]]
      BY <2>3 DEF EntryLock, EntryUnlock
    <3>2. \A x \in Threads : info[x] \in Infos
      OBVIOUS
    <3>3. \A i \in Infos : [i EXCEPT !.holder = h].entry = i.entry /\ [i EXCEPT !.holder = h].thread = i.thread
      BY DEF Infos
    <3>4. parent' = parent /\ entry' = entry
      BY <2>3 DEF EntryLock, EntryUnlock
    <3> QED
      BY <3>1, <3>2, <3>3, <3>4
  <2> QED
    BY <2>1, <2>2, <2>3
<1>3. \A x \in Threads : \/ pc'[x] = pc[x]
                         \/ {pc[x], pc'[x]} \subseteq {"resume", "trap"}
                         \/ {pc[x], pc'[x]} \subseteq Creating
                         \/ {pc[x], pc'[x]} \subseteq Starting \ {"entry"}
  BY DEF Resume, SpawnFail, CondWait, SpuriousWake, Reacquire, Unlock, AfterCreate,
         EntryLock, EntryBroadcast, Wake, EntryUnlock, Creating, Starting
<1>4. AbsStatus' = AbsStatus
  BY <1>3, SameStatus DEF Live, InFrame
<1>5. AbsJob' = AbsJob
  <2>1. \A x \in Threads : pc'[x] = "entry" <=> pc[x] = "entry"
    BY <1>3 DEF Creating, Starting
  <2>2. \A x \in Threads : pc[x] = "entry" => parent[x] \in Threads
    BY DEF HandshakeInv, CreatedKnows
  <2> QED
    BY <1>2, <2>1, <2>2, SameJob
<1>6. AbsMade' = AbsMade
  BY <1>2, <1>3, SameMade DEF Creating, Starting
<1> QED
  BY <1>1, <1>4, <1>5, <1>6, Stutters

-----------------------------------------------------------------------------
(* The refinement.                                                         *)

\* Every step of NativeCall is a step of CrossCall, or shows nothing.
THEOREM StepSimulated == Inv /\ Inv' /\ [Next]_vars => Simulated
<1> SUFFICES ASSUME Inv, Inv', [Next]_vars PROVE Simulated
  OBVIOUS
<1>1. ASSUME NEW t \in Threads, Program(t) PROVE Simulated
  <2> USE DEF By
  <2>1. ASSUME NEW f \in Fns, GuestCall(t, f) PROVE Simulated
    BY <1>1, <2>1, GuestCallShows
  <2>2. ASSUME NEW f \in Fns, NativeCallback(t, f) PROVE Simulated
    BY <1>1, <2>2, AskSimulated DEF NativeCallback, Asks
  <2>3. ASSUME NEW f \in Fns, NativeCreate(t, f) PROVE Simulated
    BY <1>1, <2>3, AskSimulated DEF NativeCreate, Asks
  <2>4. CASE NativeExit(t)
    BY <1>1, <2>4, AskSimulated DEF NativeExit, Asks
  <2>5. CASE NativeFinish(t)
    BY <1>1, <2>5, NativeFinishShows
  <2>6. CASE CallbackReturn(t)
    BY <1>1, <2>6, CallbackReturnShows
  <2> QED
    BY <1>1, <2>1, <2>2, <2>3, <2>4, <2>5, <2>6 DEF Program
<1>2. ASSUME NEW t \in Threads, Serve(t) PROVE Simulated
  <2> USE DEF By
  <2>1. CASE NativeContinue(t)
    BY <1>2, <2>1, ContinueSimulated
  <2>2. CASE ServeFinished(t)
    BY <1>2, <2>2, ServeFinishedShows
  <2>3. CASE ServeCallback(t)
    BY <1>2, <2>3, ServeCallbackShows
  <2>4. CASE ServeCreate(t)
    BY <1>2, <2>4, ServeCreateShows
  <2>5. ASSUME NEW u \in Threads, SpawnOk(t, u) PROVE Simulated
    BY <1>2, <2>5, SpawnShows
  <2>6. CASE Destroy(t)
    BY <1>2, <2>6, DestroyShows
  <2>7. CASE ServeExit(t)
    BY <1>2, <2>7, ServeExitShows
  <2>8. CASE SpawnFail(t) \/ CondWait(t) \/ Reacquire(t) \/ Unlock(t) \/ Resume(t)
    BY <1>2, <2>8, HandshakeHidden
  <2> QED
    BY <1>2, <2>1, <2>2, <2>3, <2>4, <2>5, <2>6, <2>7, <2>8 DEF Serve
<1>3. ASSUME NEW t \in Threads, Enter(t) PROVE Simulated
  <2> USE DEF By
  <2>1. CASE EntryRead(t)
    BY <1>3, <2>1, EntryReadShows
  <2>2. CASE EntryLock(t) \/ EntryBroadcast(t) \/ EntryUnlock(t)
    BY <1>3, <2>2, HandshakeHidden
  <2>3. CASE EntryStart(t)
    BY <1>3, <2>3, EntryStartShows
  <2> QED
    BY <1>3, <2>1, <2>2, <2>3 DEF Enter
<1>4. ASSUME NEW t \in Threads, SpuriousWake(t) PROVE Simulated
  BY <1>4, HandshakeHidden DEF By
<1>5. CASE UNCHANGED vars
  BY <1>5, Stutters
  DEF vars, guestVars, hostVars, threadVars, AbsStack, At, AbsStatus, AbsJob, AbsMade
<1> QED
  BY <1>1, <1>2, <1>3, <1>4, <1>5 DEF Next, Terminated

LEMMA InitSimulated == Init => Abstract!Init
<1> SUFFICES ASSUME Init PROVE Abstract!Init
  OBVIOUS
<1>1. AbsStack = [t \in Threads |-> << >>]
  BY DEF Init, AbsStack
<1>2. AbsStatus = [t \in Threads |-> IF t \in AppThreads THEN "running" ELSE "unborn"]
  BY DEF Init, AbsStatus, Starting
<1>3. AbsJob = [t \in Threads |-> None] /\ AbsMade = [t \in Threads |-> None]
  BY DEF Init, AbsJob, AbsMade, Creating
<1> QED
  BY <1>1, <1>2, <1>3 DEF Abstract!Init

\* Where pthread_cond_wait returns only when signalled, the program cannot
\* tell NativeCallServe and ThreadEntry from procedure calls and a
\* pthread_create that hands its routine over.
THEOREM Implementation == ASSUME ~ SpuriousWakeups PROVE Spec => ImplementsCrossCall
<1>1. Spec => []Inv
  BY InvHolds
<1>2. Inv /\ Inv' /\ [Next]_vars => [Abstract!Next]_(Abstract!vars)
  BY StepSimulated DEF Simulated
<1>3. Init => Abstract!Init
  BY InitSimulated
<1> QED
  BY <1>1, <1>2, <1>3, PTL DEF Spec, ImplementsCrossCall, Abstract!Spec

\* ThreadEntry, "Signal to the parent that we're ready": without spurious
\* wakeups a creator whose wait is over was signalled.
THEOREM WokenWhenSignalled == ASSUME ~ SpuriousWakeups PROVE Spec => []WokenWhenReady
<1>1. ASSUME Inv PROVE WokenWhenReady
  <2> SUFFICES ASSUME NEW t \in Threads, pc[t] \in {"unlock", "destroy"}, info[t].thread # None
               PROVE  pc[info[t].thread] \notin {"entry", "lock", "broadcast"}
    BY DEF WokenWhenReady
  <2>1. info[t].thread \in Threads /\ parent[info[t].thread] = t
    BY <1>1 DEF Inv, Inv1, TypeOK, Infos, ParentInv
  <2> QED
    BY <1>1, <2>1 DEF Inv, HandshakeInv, CreatedKnows
<1>2. Spec => []Inv
  BY InvHolds
<1> QED
  BY <1>1, <1>2, PTL

=============================================================================
