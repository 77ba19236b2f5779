----------------------------- MODULE BatchProofs -----------------------------
(***************************************************************************)
(* For every list of commands and every number of parts: the parts are the *)
(* commands, running them guards the sources that have calls to guard; in  *)
(* a source a guard is declared before it is used, and a source with plain *)
(* callees is written with its calls guarded and nothing else changed.     *)
(***************************************************************************)
EXTENDS Batch, FlattenProofs

-----------------------------------------------------------------------------
(* The parts.                                                              *)

\* The commands before part k: so many parts before it have one more.
Quota == Len(commands) \div num_parts
Rest  == Len(commands) % num_parts
Start(k) == (k - 1) * Quota + (IF k - 1 <= Rest THEN k - 1 ELSE Rest)

SplitInv ==
  /\ num_parts \in Nat \ {0}
  /\ commands \in Seq(DOMAIN text)
  /\ part \in 1 .. num_parts + 1
  /\ start_idx = Start(part)
  /\ parts \in Seq(Seq(DOMAIN text))
  /\ Len(parts) = part - 1
  /\ \A k \in 1 .. part - 1 : parts[k] = SubSeq(commands, Start(k) + 1, Start(k + 1))
  /\ FlattenSeq(parts) = SubSeq(commands, 1, start_idx)

LEMMA Products ==
  ASSUME NEW q \in Nat, NEW k \in Nat, NEW n \in Nat, k <= n
  PROVE  k * q <= n * q /\ k * q \in Nat /\ (k + 1) * q = k * q + q
  OBVIOUS

LEMMA Division ==
  ASSUME NEW a \in Nat, NEW b \in Nat, b > 0
  PROVE  a \div b \in Nat /\ a % b \in Nat /\ a % b < b /\ a = b * (a \div b) + (a % b)
<1>1. a = b * (a \div b) + (a % b) /\ a % b \in 0 .. b - 1 /\ a \div b \in Int
  BY Z3
<1>2. a \div b \in Nat
  BY Z3
<1> QED
  BY <1>1, <1>2

\* The part after part k starts where part k ends, and the last one ends where
\* the commands do.
LEMMA Starts ==
  ASSUME SplitInv
  PROVE  /\ Start(1) = 0
         /\ Start(num_parts + 1) = Len(commands)
         /\ \A k \in 1 .. num_parts + 1 : Start(k) \in Nat /\ Start(k) <= Len(commands)
         /\ \A k \in 1 .. num_parts : /\ Start(k + 1) = Start(k) + PartSize(k)
                                      /\ PartSize(k) \in {Quota, Quota + 1}
         /\ Quota \in Nat
<1>0. commands \in Seq(DOMAIN text) /\ Len(commands) \in Nat /\ num_parts \in Nat /\ num_parts > 0
  <2>1. num_parts \in Nat \ {0} /\ commands \in Seq(DOMAIN text)
    BY DEF SplitInv
  <2> QED
    BY <2>1
<1>1. /\ Quota \in Nat /\ Rest \in Nat /\ Rest < num_parts
      /\ Len(commands) \in Nat /\ num_parts \in Nat
      /\ Len(commands) = num_parts * Quota + Rest
  BY <1>0, Division DEF Quota, Rest
<1>2. \A k \in Nat : PartSize(k) = Quota + (IF k <= Rest THEN 1 ELSE 0)
  BY DEF PartSize, Quota, Rest
<1> HIDE DEF Quota, Rest
<1>3. Start(1) = 0
  BY <1>1 DEF Start
<1>4. Start(num_parts + 1) = Len(commands)
  BY <1>1 DEF Start
<1>5. ASSUME NEW k \in 1 .. num_parts + 1 PROVE Start(k) \in Nat /\ Start(k) <= Len(commands)
  <2>1. (k - 1) * Quota <= num_parts * Quota /\ (k - 1) * Quota \in Nat
    BY <1>1, Products
  <2> QED
    BY <1>1, <2>1 DEF Start
<1>6. ASSUME NEW k \in 1 .. num_parts
      PROVE  Start(k + 1) = Start(k) + PartSize(k) /\ PartSize(k) \in {Quota, Quota + 1}
  <2>1. k - 1 \in Nat /\ (k - 1) + 1 = k /\ (k + 1) - 1 = k /\ k \in Nat
    BY <1>1
  <2>2. ((k - 1) + 1) * Quota = (k - 1) * Quota + Quota /\ (k - 1) * Quota \in Nat
    BY <1>1, <2>1, Products
  <2>3. Start(k + 1) = (k - 1) * Quota + Quota + (IF k <= Rest THEN k ELSE Rest)
    BY <2>1, <2>2 DEF Start
  <2> QED
    BY <1>1, <1>2, <2>1, <2>2, <2>3 DEF Start
<1> QED
  BY <1>1, <1>3, <1>4, <1>5, <1>6

LEMMA SplitInit == Init => SplitInv
<1> SUFFICES ASSUME Init PROVE SplitInv
  OBVIOUS
<1>1. /\ num_parts \in Nat \ {0} /\ commands \in Seq(DOMAIN text)
      /\ part = 1 /\ start_idx = 0 /\ parts = << >>
  BY BatchesAssumption DEF Init
<1>2. Start(1) = 0
  <2>1. Quota \in Nat /\ Rest \in Nat
    BY <1>1 DEF Quota, Rest
  <2> QED
    BY <2>1 DEF Start
<1>3. FlattenSeq(parts) = << >> /\ SubSeq(commands, 1, 0) = << >>
  BY <1>1, FlattenEmpty
<1>4. parts \in Seq(Seq(DOMAIN text)) /\ Len(parts) = 0
  BY <1>1
<1>5. part \in 1 .. num_parts + 1 /\ (part - 1 = 0) /\ start_idx = Start(part) /\ 1 .. part - 1 = {}
  BY <1>1, <1>2
<1>6. FlattenSeq(parts) = SubSeq(commands, 1, start_idx)
  BY <1>1, <1>3
<1> QED
  BY <1>1, <1>4, <1>5, <1>6 DEF SplitInv

LEMMA SplitNext == SplitInv /\ [Next]_vars => SplitInv'
<1> SUFFICES ASSUME SplitInv, [Next]_vars PROVE SplitInv'
  OBVIOUS
<1>1. ASSUME UNCHANGED <<splitVars, text>> PROVE SplitInv'
  BY <1>1 DEF SplitInv, splitVars, Start, Quota, Rest
<1>2. ASSUME SplitStep, UNCHANGED text PROVE SplitInv'
  <2> DEFINE more == SubSeq(commands, start_idx + 1, Start(part + 1))
  <2>1. /\ part \in 1 .. num_parts /\ part' = part + 1 /\ UNCHANGED <<commands, num_parts, text>>
        /\ num_parts \in Nat
    BY <1>2 DEF SplitStep, SplitOver, SplitInv
  <2>2. \A k : Start(k)' = Start(k)
    BY <2>1 DEF Start, Quota, Rest
  <2>3. /\ start_idx = Start(part) /\ Start(part + 1) = Start(part) + PartSize(part)
        /\ Start(part) \in Nat /\ Start(part + 1) \in Nat /\ Start(part + 1) <= Len(commands)
        /\ Start(part) <= Start(part + 1)
    <3>1. Start(part + 1) \in Nat /\ Start(part) \in Nat /\ Start(part + 1) <= Len(commands)
      BY <2>1, Starts
    <3>2. Start(part + 1) = Start(part) + PartSize(part) /\ PartSize(part) \in {Quota, Quota + 1} /\ Quota \in Nat
      BY <2>1, Starts
    <3>3. start_idx = Start(part)
      BY DEF SplitInv
    <3> HIDE DEF Quota
    <3> QED
      BY <3>1, <3>2, <3>3
  <2>4. start_idx' = Start(part + 1) /\ parts' = Append(parts, more)
    <3>1. start_idx' = start_idx + PartSize(part)
      BY <1>2 DEF SplitStep
    <3>2. start_idx + PartSize(part) = Start(part + 1) /\ ~ (Start(part + 1) > Len(commands))
      <4>1. Len(commands) \in Nat
        BY DEF SplitInv
      <4> QED
        BY <2>3, <4>1
    <3>3. parts' = Append(parts, SubSeq(commands, start_idx + 1,
                     IF start_idx + PartSize(part) > Len(commands) THEN Len(commands)
                     ELSE start_idx + PartSize(part)))
      BY <1>2 DEF SplitStep
    <3> QED
      BY <3>1, <3>2, <3>3
  <2>5. more \in Seq(DOMAIN text)
    BY <2>3 DEF SplitInv
  <2> HIDE DEF more
  <2>p. part - 1 \in Nat /\ parts \in Seq(Seq(DOMAIN text)) /\ Len(parts) = part - 1 /\ (part - 1) + 1 = part
    BY <2>1 DEF SplitInv
  <2>6. /\ parts' \in Seq(Seq(DOMAIN text)) /\ Len(parts') = part
        /\ \A k \in 1 .. part - 1 : parts'[k] = parts[k]
        /\ parts'[part] = more
    BY <2>p, <2>4, <2>5
  <2>7. ASSUME NEW k \in 1 .. part PROVE parts'[k] = SubSeq(commands, Start(k) + 1, Start(k + 1))
    <3>1. k \in 1 .. part - 1 \/ k = part
      BY <2>1
    <3>2. CASE k = part
      BY <2>3, <2>6, <3>2 DEF more
    <3>3. CASE k \in 1 .. part - 1
      BY <2>6, <3>3 DEF SplitInv
    <3> QED
      BY <3>1, <3>2, <3>3
  <2>8. FlattenSeq(parts') = SubSeq(commands, 1, Start(part + 1))
    <3>1. FlattenSeq(parts') = FlattenSeq(parts) \o more
      BY <2>4, <2>5, FlattenAppend DEF SplitInv
    <3>2. FlattenSeq(parts) = SubSeq(commands, 1, start_idx) /\ commands \in Seq(DOMAIN text)
      BY DEF SplitInv
    <3>3. SubSeq(commands, 1, Start(part)) \o SubSeq(commands, Start(part) + 1, Start(part + 1))
            = SubSeq(commands, 1, Start(part + 1))
      <4> DEFINE a == Start(part)
                 b == Start(part + 1)
      <4>1. a \in Nat /\ b \in Nat /\ a <= b /\ b <= Len(commands)
        BY <2>3
      <4> HIDE DEF a, b
      <4>2. SubSeq(commands, 1, a) \o SubSeq(commands, a + 1, b) = SubSeq(commands, 1, b)
        BY <3>2, <4>1
      <4> QED
        BY <4>2 DEF a, b
    <3> QED
      BY <3>1, <3>2, <3>3, <2>3 DEF more
  <2>9. /\ num_parts' \in Nat \ {0} /\ commands' \in Seq(DOMAIN text')
        /\ part' \in 1 .. num_parts' + 1
        /\ Len(parts') = part' - 1 /\ parts' \in Seq(Seq(DOMAIN text'))
    BY <2>1, <2>6 DEF SplitInv
  <2>10. start_idx' = Start(part)' /\ FlattenSeq(parts') = SubSeq(commands', 1, start_idx')
    <3>1. Start(part)' = Start(part + 1)
      BY <2>1 DEF Start, Quota, Rest
    <3> QED
      BY <2>1, <2>4, <2>8, <3>1
  <2>11. \A k \in 1 .. part' - 1 : parts'[k] = SubSeq(commands', Start(k)' + 1, Start(k + 1)')
    <3>1. part' - 1 = part
      BY <2>1
    <3> QED
      BY <2>1, <2>2, <2>7, <3>1
  <2> QED
    BY <2>9, <2>10, <2>11 DEF SplitInv
<1>3. CASE Split
  BY <1>2, <1>3 DEF Split, batchVars
<1>4. CASE ~ Split
  BY <1>1, <1>4 DEF Next, vars, batchVars, SplitEnds, Expand, ExpandFails, Add, Rewrite, Added, Advance, AddFails,
                    AddAgain, NextPart, Rerun, Done
<1> QED
  BY <1>3, <1>4

LEMMA SplitAlways == Spec => []SplitInv
  BY SplitInit, SplitNext, PTL DEF Spec

\* split_cc.py loses and doubles no command, keeps their order, and no part is
\* more than one command longer than another; for every list and number of parts.
THEOREM PartsJoin == Spec => []PartsAreCommands
<1>1. SplitInv => PartsAreCommands
  <2> SUFFICES ASSUME SplitInv, SplitOver PROVE PartsAreCommands
    BY DEF PartsAreCommands
  <2>1. part = num_parts + 1 /\ num_parts \in Nat
    BY DEF SplitInv, SplitOver
  <2>2. FlattenSeq(parts) = commands
    <3>1. FlattenSeq(parts) = SubSeq(commands, 1, Len(commands)) /\ commands \in Seq(DOMAIN text)
      BY <2>1, Starts DEF SplitInv
    <3> QED
      BY <3>1
  <2>3. ASSUME NEW k \in DOMAIN parts PROVE Len(parts[k]) \in {Quota, Quota + 1}
    <3>1. k \in 1 .. num_parts /\ parts[k] = SubSeq(commands, Start(k) + 1, Start(k + 1))
      BY <2>1 DEF SplitInv
    <3>2. /\ Start(k) \in Nat /\ Start(k + 1) \in Nat /\ Start(k + 1) <= Len(commands)
          /\ Start(k + 1) = Start(k) + PartSize(k)
      BY <3>1, <2>1, Starts
    <3>3. PartSize(k) \in {Quota, Quota + 1} /\ Quota \in Nat
      BY <3>1, Starts
    <3> HIDE DEF Quota
    <3>4. Len(parts[k]) = PartSize(k)
      <4> DEFINE a == Start(k)
                 b == Start(k + 1)
      <4>1. a \in Nat /\ b \in Nat /\ a <= b /\ b <= Len(commands) /\ b - a = PartSize(k)
        BY <3>2, <3>3
      <4> HIDE DEF a, b
      <4>2. Len(SubSeq(commands, a + 1, b)) = b - a
        BY <4>1 DEF SplitInv
      <4> QED
        BY <3>1, <4>1, <4>2 DEF a, b
    <3> QED
      BY <3>3, <3>4
  <2>4. Quota \in Nat
    BY Starts
  <2> HIDE DEF Quota
  <2>5. \A k, l \in DOMAIN parts : Len(parts[k]) <= Len(parts[l]) + 1
    BY <2>3, <2>4
  <2> QED
    BY <2>2, <2>5 DEF PartsAreCommands
<1> QED
  BY <1>1, SplitAlways, PTL

-----------------------------------------------------------------------------
(* The rewriting of one file, as far as whether it gets guards.            *)

\* Every call is found among the items, once without a mark.
LEMMA MarkedHoldsCalls ==
  ASSUME NEW calls, calls \in Seq(Range(calls))
  PROVE  /\ Marked(calls) \in Seq([mark : BOOLEAN, call : DOMAIN calls])
         /\ \A k \in DOMAIN calls : [mark |-> FALSE, call |-> k] \in Range(Marked(calls))
<1> DEFINE S == [mark : BOOLEAN, call : DOMAIN calls]
           item(k, m) == [mark |-> m, call |-> k]
           items(k) == IF k = 1 \/ calls[k].fn # calls[k - 1].fn
                         THEN <<item(k, TRUE), item(k, FALSE)>> ELSE <<item(k, FALSE)>>
           ss == [k \in DOMAIN calls |-> items(k)]
<1>1. Len(calls) \in Nat /\ DOMAIN calls = 1 .. Len(calls)
  OBVIOUS
<1>2. ASSUME NEW k \in DOMAIN calls
      PROVE  items(k) \in Seq(S) /\ item(k, FALSE) \in Range(items(k))
  <2>1. item(k, TRUE) \in S /\ item(k, FALSE) \in S
    OBVIOUS
  <2> HIDE DEF S, item
  <2>2. <<item(k, TRUE), item(k, FALSE)>> \in Seq(S) /\ <<item(k, FALSE)>> \in Seq(S)
    <3>1. \A x, y \in S : <<x, y>> \in Seq(S) /\ <<y>> \in Seq(S)
      OBVIOUS
    <3> QED
      BY <2>1, <3>1
  <2>3. item(k, FALSE) \in Range(<<item(k, TRUE), item(k, FALSE)>>)
    <3>1. 2 \in DOMAIN <<item(k, TRUE), item(k, FALSE)>> /\ <<item(k, TRUE), item(k, FALSE)>>[2] = item(k, FALSE)
      OBVIOUS
    <3> QED
      BY <3>1 DEF Range
  <2>4. item(k, FALSE) \in Range(<<item(k, FALSE)>>)
    <3>1. 1 \in DOMAIN <<item(k, FALSE)>> /\ <<item(k, FALSE)>>[1] = item(k, FALSE)
      OBVIOUS
    <3> QED
      BY <3>1 DEF Range
  <2> QED
    BY <2>2, <2>3, <2>4
<1>3. Marked(calls) = FlattenSeq(ss)
  BY DEF Marked
<1> HIDE DEF S, items, item
<1>4. ss \in Seq(Seq(S)) /\ DOMAIN ss = DOMAIN calls /\ \A k \in DOMAIN calls : ss[k] = items(k)
  <2>1. \A k \in 1 .. Len(calls) : items(k) \in Seq(S)
    BY <1>1, <1>2
  <2>2. ss = [k \in 1 .. Len(calls) |-> items(k)]
    BY <1>1
  <2> QED
    BY <1>1, <2>1, <2>2
<1> HIDE DEF ss
<1>5. /\ Marked(calls) \in Seq(S)
      /\ Range(Marked(calls)) = UNION {Range(ss[k]) : k \in DOMAIN ss}
  BY <1>3, <1>4, FlattenElements
<1>6. \A k \in DOMAIN calls : item(k, FALSE) \in Range(Marked(calls))
  BY <1>2, <1>4, <1>5
<1> QED
  BY <1>5, <1>6 DEF S, item

\* Each call still to come or dealt with; what was selected has left a guard.
Items(p) == [mark : BOOLEAN, call : DOMAIN p.calls]
Selects(p) == \E k \in DOMAIN p.calls : Selected(p.calls[k])
FileInv ==
  /\ left \in Seq(Items(prog))
  /\ guards \in Seq({prog.calls[k].sig : k \in DOMAIN prog.calls})
  /\ guards # << >> => Selects(prog)
  /\ \A k \in DOMAIN prog.calls :
       Selected(prog.calls[k]) => guards # << >> \/ [mark |-> FALSE, call |-> k] \in Range(left)
  /\ status \in {"rewriting", "raised", "written", "unchanged"}
  /\ status \in {"written", "unchanged"} => left = << >> /\ (status = "written" <=> guards # << >>)

LEMMA FileLoad ==
  ASSUME NEW p, p.calls \in Seq(Range(p.calls)), Load(p)
  PROVE  FileInv' /\ prog' = p
<1>1. /\ prog' = p /\ left' = Marked(p.calls) /\ guards' = << >> /\ status' = "rewriting"
  BY DEF Load
<1>2. /\ Marked(p.calls) \in Seq(Items(p))
      /\ \A k \in DOMAIN p.calls : [mark |-> FALSE, call |-> k] \in Range(Marked(p.calls))
  BY MarkedHoldsCalls DEF Items
<1>3. << >> \in Seq({p.calls[k].sig : k \in DOMAIN p.calls})
  OBVIOUS
<1> QED
  BY <1>1, <1>2, <1>3 DEF FileInv

\* What is left behind the last item.
LEMMA FrontKeeps ==
  ASSUME NEW S, NEW s \in Seq(S), s # << >>
  PROVE  /\ Front(s) \in Seq(S) /\ s[Len(s)] \in S
         /\ Range(s) \subseteq Range(Front(s)) \cup {s[Len(s)]}
<1>1. /\ Len(s) \in Nat /\ Len(s) # 0 /\ Len(s) \in 1 .. Len(s) /\ DOMAIN s = 1 .. Len(s)
  OBVIOUS
<1>2. Front(s) = [k \in 1 .. Len(s) - 1 |-> s[k]] /\ Front(s) \in Seq(S)
  BY <1>1 DEF Front
<1>3. s[Len(s)] \in S
  BY <1>1
<1>4. ASSUME NEW x \in Range(s) PROVE x \in Range(Front(s)) \cup {s[Len(s)]}
  <2>1. PICK k \in 1 .. Len(s) : x = s[k]
    BY <1>1 DEF Range
  <2>2. CASE k = Len(s)
    BY <2>1, <2>2
  <2>3. CASE k # Len(s)
    <3>0. k \in 1 .. Len(s) - 1
      <4>1. \A n \in Nat : \A l \in 1 .. n : l # n => l \in 1 .. n - 1
        OBVIOUS
      <4>2. Len(s) \in Nat /\ k \in 1 .. Len(s)
        BY <1>1, <2>1
      <4> HIDE <1>1, <2>1
      <4> QED
        BY <4>1, <4>2, <2>3
    <3>1. k \in DOMAIN Front(s) /\ Front(s)[k] = x
      <4> DEFINE front == [l \in 1 .. Len(s) - 1 |-> s[l]]
      <4>1. k \in DOMAIN front /\ front[k] = s[k]
        BY <3>0
      <4> HIDE DEF front
      <4>2. Front(s) = front
        BY <1>2 DEF front
      <4> QED
        BY <2>1, <4>1, <4>2
    <3> QED
      BY <3>1 DEF Range
  <2> QED
    BY <2>2, <2>3
<1> QED
  BY <1>2, <1>3, <1>4

LEMMA FileStep ==
  ASSUME FileInv, Step
  PROVE  FileInv' /\ prog' = prog
<1>1. prog' = prog
  BY DEF Step, Declare, Skip, Unexpected, Guard, Write
<1>2. CASE left = << >> \/ Unexpected
  BY <1>1, <1>2 DEF FileInv, Step, Declare, Skip, Unexpected, Guard, Write
<1>3. CASE left # << >> /\ ~ Unexpected
  <2>1. /\ Front(left) \in Seq(Items(prog)) /\ Item \in Items(prog)
        /\ Range(left) \subseteq Range(Front(left)) \cup {Item}
    BY <1>3, FrontKeeps DEF FileInv, Item
  <2>2. left' = Front(left) /\ status = "rewriting" /\ status' = "rewriting"
    BY <1>3 DEF Step, Declare, Skip, Unexpected, Guard, Write
  <2>3. Item.call \in DOMAIN prog.calls /\ Current = prog.calls[Item.call]
        /\ Item = [mark |-> Item.mark, call |-> Item.call] /\ Item.mark \in BOOLEAN
    BY <2>1 DEF Items, Current
  <2>4. CASE Declare \/ Skip
    <3>1. guards' = guards
      BY <2>4 DEF Declare, Skip
    <3>2. ASSUME NEW k \in DOMAIN prog.calls, Selected(prog.calls[k]), guards = << >>
          PROVE  [mark |-> FALSE, call |-> k] \in Range(Front(left))
      <4>1. [mark |-> FALSE, call |-> k] \in Range(left)
        BY <3>2 DEF FileInv
      <4>2. Item # [mark |-> FALSE, call |-> k]
        BY <2>3, <2>4, <3>2 DEF Declare, Skip
      <4> QED
        BY <2>1, <4>1, <4>2
    <3> QED
      BY <1>1, <2>1, <2>2, <3>1, <3>2 DEF FileInv
  <2>5. CASE Guard
    <3> DEFINE n == Number(Current.sig)
               Sigs == {prog.calls[k].sig : k \in DOMAIN prog.calls}
    <3>1. Selected(Current) /\ guards' = IF n > Len(guards) THEN Append(guards, Current.sig) ELSE guards
      BY <2>5 DEF Guard
    <3>2. Selects(prog)
      BY <2>3, <3>1 DEF Selects
    <3>3. Current.sig \in Sigs /\ guards \in Seq(Sigs)
      BY <2>3 DEF FileInv
    <3> HIDE DEF Sigs
    <3>4. guards' \in Seq(Sigs) /\ guards' # << >>
      <4>1. CASE n > Len(guards)
        <5>1. guards' = Append(guards, Current.sig)
          BY <3>1, <4>1
        <5>2. Len(guards') = Len(guards) + 1 /\ guards' \in Seq(Sigs)
          BY <3>3, <5>1
        <5> QED
          BY <3>3, <5>2
      <4>2. CASE ~ (n > Len(guards))
        <5>1. guards' = guards
          BY <3>1, <4>2
        <5>2. guards # << >>
          <6> SUFFICES ASSUME guards = << >> PROVE FALSE
            OBVIOUS
          <6>1. n = Len(guards) + 1 /\ Len(guards) = 0
            BY DEF Number, NumberIn
          <6> QED
            BY <4>2, <6>1
        <5> QED
          BY <3>3, <5>1, <5>2
      <4> QED
        BY <4>1, <4>2
    <3>5. guards' \in Seq({prog.calls[k].sig : k \in DOMAIN prog.calls})
      BY <3>4 DEF Sigs
    <3> HIDE DEF n
    <3> QED
      BY <1>1, <2>1, <2>2, <3>2, <3>4, <3>5 DEF FileInv, Selects
  <2> QED
    BY <1>3, <2>4, <2>5 DEF Step, Write
<1> QED
  BY <1>1, <1>2, <1>3

\* The file is written if and only if it has calls to guard.
LEMMA FileEnds ==
  ASSUME FileInv, status \in {"written", "unchanged"}
  PROVE  status = "written" <=> Selects(prog)
<1>1. Range(<< >>) = {}
  BY DEF Range
<1> QED
  BY <1>1 DEF FileInv, Selects

-----------------------------------------------------------------------------
(* The run over the parts.                                                 *)

\* How many commands were passed since the run began, of this part since it
\* was last started.
Passed == Start(running) + i - 1

PlaceInv ==
  /\ \A f \in DOMAIN text : Parsed(text[f])
  /\ phase \in {"split", "next", "expanded", "adding", "failed", "done"}
  /\ phase # "split" => SplitOver
  /\ running \in 1 .. num_parts + 1
  /\ phase = "done" => running = num_parts + 1
  /\ i \in Nat \ {0}
  /\ running <= num_parts => i <= PartSize(running) + 1
  /\ running = num_parts + 1 => i = 1
  /\ phase \in {"expanded", "adding"} => running <= num_parts /\ i <= PartSize(running)
  /\ reruns \in Nat

GuardInv ==
  /\ guarded \in [DOMAIN text -> Nat]
  /\ \A f \in DOMAIN text : guarded[f] > 0 => Selects(text[f])
  /\ \A j \in 1 .. Passed : Selects(text[commands[j]]) => guarded[commands[j]] > 0
  /\ phase = "adding" => FileInv /\ prog = text[File] /\ guarded[File] = 0

OnceInv ==
  Distinct /\ reruns = 0 =>
    \A f \in DOMAIN text :
      /\ guarded[f] <= 1
      /\ guarded[f] > 0 => \E j \in 1 .. Passed : commands[j] = f

BatchInv == SplitInv /\ PlaceInv /\ GuardInv /\ OnceInv

\* Where the run is in the list.
LEMMA FileAt ==
  ASSUME SplitInv, SplitOver, running \in 1 .. num_parts, i \in Nat \ {0}
  PROVE  /\ Len(parts[running]) = PartSize(running)
         /\ PartSize(running) \in Nat /\ Start(running) \in Nat
         /\ Start(running + 1) = Start(running) + PartSize(running)
         /\ i <= PartSize(running) => /\ Passed + 1 \in DOMAIN commands
                                      /\ Passed \in Nat
                                      /\ File = commands[Passed + 1]
                                      /\ File \in DOMAIN text
<1>1. /\ running \in 1 .. num_parts + 1 /\ running + 1 \in 1 .. num_parts + 1
      /\ part = num_parts + 1 /\ num_parts \in Nat /\ commands \in Seq(DOMAIN text)
  BY DEF SplitInv, SplitOver
<1>2. /\ Start(running) \in Nat /\ Start(running + 1) \in Nat /\ Start(running + 1) <= Len(commands)
      /\ Start(running + 1) = Start(running) + PartSize(running)
  BY <1>1, Starts
<1>3. PartSize(running) \in Nat
  <2>1. PartSize(running) \in {Quota, Quota + 1} /\ Quota \in Nat
    BY Starts
  <2> HIDE DEF Quota
  <2> QED
    BY <2>1
<1>4. parts[running] = SubSeq(commands, Start(running) + 1, Start(running + 1))
  BY <1>1 DEF SplitInv
<1> DEFINE a == Start(running)
           b == Start(running + 1)
<1>5. a \in Nat /\ b \in Nat /\ a <= b /\ b <= Len(commands) /\ b - a = PartSize(running)
  BY <1>2, <1>3
<1>6. parts[running] = SubSeq(commands, a + 1, b)
  BY <1>4
<1>7. Passed = a + i - 1
  BY DEF Passed
<1> HIDE DEF a, b
<1>8. Len(parts[running]) = b - a
  BY <1>1, <1>5, <1>6
<1>9. ASSUME i <= PartSize(running)
      PROVE  /\ Passed + 1 \in DOMAIN commands /\ Passed \in Nat
             /\ File = commands[Passed + 1] /\ File \in DOMAIN text
  <2>1. i \in 1 .. b - a /\ Passed + 1 = a + i /\ a + i \in 1 .. Len(commands) /\ Passed \in Nat
    BY <1>5, <1>7, <1>9, <1>1
  <2>2. SubSeq(commands, a + 1, b)[i] = commands[a + i]
    <3>1. Len(SubSeq(commands, a + 1, b)) = b - a
      BY <1>1, <1>5
    <3>2. SubSeq(commands, a + 1, b) = [k \in 1 .. (b - (a + 1)) + 1 |-> commands[(a + 1 + k) - 1]]
      BY <1>1, <1>5
    <3> QED
      BY <2>1, <3>2, <1>5
  <2>3. commands[a + i] \in DOMAIN text
    BY <1>1, <2>1
  <2>4. DOMAIN commands = 1 .. Len(commands)
    BY <1>1
  <2>5. File = commands[a + i]
    BY <1>6, <2>2 DEF File
  <2> QED
    BY <2>1, <2>3, <2>4, <2>5
<1> QED
  BY <1>2, <1>3, <1>5, <1>8, <1>9

LEMMA PlaceInit == Init => PlaceInv
<1> SUFFICES ASSUME Init PROVE PlaceInv
  OBVIOUS
<1>1. /\ \A f \in DOMAIN text : Parsed(text[f])
      /\ num_parts \in Nat \ {0}
  BY BatchesAssumption DEF Init
<1>2. running = 1 /\ i = 1 /\ phase = "split" /\ reruns = 0
  BY DEF Init
<1>3. SplitInv
  BY SplitInit
<1>4. PartSize(1) \in Nat
  <2>1. 1 \in 1 .. num_parts
    BY <1>1
  <2>2. PartSize(1) \in {Quota, Quota + 1} /\ Quota \in Nat
    BY <1>3, <2>1, Starts
  <2> HIDE DEF Quota
  <2> QED
    BY <2>2
<1> QED
  BY <1>1, <1>2, <1>4 DEF PlaceInv

\* The list and the files' programs are fixed, and so are the parts once they
\* are written.
LEMMA Steady ==
  ASSUME [Next]_vars
  PROVE  /\ UNCHANGED <<commands, num_parts, text>>
         /\ \A k : Start(k)' = Start(k) /\ PartSize(k)' = PartSize(k)
         /\ ~ Split => UNCHANGED <<part, parts>>
<1>1. UNCHANGED <<commands, num_parts, text>>
  BY DEF Next, vars, batchVars, splitVars, Split, SplitStep, SplitEnds, Expand, ExpandFails, Add, Rewrite, Added, Advance,
         AddFails, AddAgain, NextPart, Rerun, Done
<1>2. ~ Split => UNCHANGED <<part, parts>>
  BY DEF Next, vars, batchVars, splitVars, SplitEnds, Expand, ExpandFails, Add, Rewrite, Added, Advance,
         AddFails, AddAgain, NextPart, Rerun, Done
<1> QED
  BY <1>1, <1>2 DEF Start, PartSize, Quota, Rest

LEMMA AtFile ==
  ASSUME SplitInv, PlaceInv, AtCommand
  PROVE  running \in 1 .. num_parts /\ i <= PartSize(running) /\ SplitOver
<1>1. running \in 1 .. num_parts /\ SplitOver /\ i \in Nat \ {0}
  BY DEF AtCommand, PlaceInv, SplitInv
<1>2. Len(parts[running]) = PartSize(running)
  BY <1>1, FileAt
<1> QED
  BY <1>1, <1>2 DEF AtCommand

LEMMA PlaceNext == SplitInv /\ PlaceInv /\ [Next]_vars => PlaceInv'
<1> SUFFICES ASSUME SplitInv, PlaceInv, [Next]_vars PROVE PlaceInv'
  OBVIOUS
<1>1. /\ UNCHANGED <<commands, num_parts, text>>
      /\ PartSize(running)' = PartSize(running')
      /\ ~ Split => SplitOver' = SplitOver
  BY Steady DEF SplitOver, PartSize
<1>2. num_parts \in Nat
  BY DEF SplitInv
<1>3. CASE UNCHANGED batchVars /\ (Split \/ UNCHANGED splitVars)
  <2>1. UNCHANGED <<phase, running, i, reruns>>
    BY <1>3 DEF batchVars
  <2>2. phase # "split" => ~ Split
    BY DEF Split
  <2> QED
    BY <1>1, <2>1, <2>2 DEF PlaceInv
<1>4. CASE SplitEnds
  <2>1. SplitOver /\ phase' = "next" /\ UNCHANGED <<running, i, reruns>>
    BY <1>4 DEF SplitEnds
  <2>2. ~ Split
    BY <2>1 DEF Split, SplitStep
  <2> QED
    BY <1>1, <2>1, <2>2 DEF PlaceInv
<1>5. CASE Expand \/ ExpandFails
  <2>1. AtCommand /\ UNCHANGED <<running, i, reruns>> /\ phase' \in {"expanded", "failed"} /\ phase = "next"
    BY <1>5 DEF Expand, ExpandFails, AtCommand
  <2>2. running \in 1 .. num_parts /\ i <= PartSize(running)
    BY <2>1, AtFile
  <2>3. ~ Split
    BY <2>1 DEF Split
  <2> QED
    BY <1>1, <2>1, <2>2, <2>3 DEF PlaceInv
<1>6. CASE Add
  <2>1. (phase = "expanded" \/ AtCommand) /\ UNCHANGED <<running, i, reruns>> /\ phase' = "adding"
    BY <1>6 DEF Add, CfiReady
  <2>2. running \in 1 .. num_parts /\ i <= PartSize(running)
    <3>1. CASE phase = "expanded"
      BY <3>1, <1>2 DEF PlaceInv
    <3> QED
      BY <2>1, <3>1, AtFile
  <2>3. ~ Split /\ phase # "split"
    BY <2>1 DEF Split, AtCommand
  <2> QED
    BY <1>1, <2>1, <2>2, <2>3 DEF PlaceInv
<1>7. CASE Rewrite
  BY <1>3, <1>7 DEF Rewrite
<1>8. ASSUME NEW times, Advance(times), running \in 1 .. num_parts, i <= PartSize(running), phase # "split"
      PROVE  PlaceInv'
  <2>1. i' = i + 1 /\ phase' = "next" /\ UNCHANGED <<running, reruns>>
    BY <1>8 DEF Advance
  <2>2. ~ Split
    BY <1>8 DEF Split
  <2>3. SplitOver /\ i \in Nat \ {0}
    BY <1>8 DEF PlaceInv
  <2>4. PartSize(running) \in Nat
    BY <1>8, <2>3, FileAt
  <2>5. i' \in Nat \ {0} /\ i' <= PartSize(running) + 1 /\ running # num_parts + 1
    BY <1>2, <1>8, <2>1, <2>3, <2>4
  <2> QED
    BY <1>1, <2>1, <2>2, <2>3, <2>5 DEF PlaceInv
<1>9. CASE Added
  <2>1. /\ phase = "adding" /\ Advance(IF status = "written" THEN 1 ELSE 0)
        /\ running \in 1 .. num_parts /\ i <= PartSize(running)
    BY <1>2, <1>9 DEF Added, PlaceInv
  <2> QED
    BY <1>8, <2>1
<1>10. CASE AddAgain
  <2>1. (phase = "expanded" \/ AtCommand) /\ Advance(guarded[File] + 1)
    BY <1>10 DEF AddAgain, CfiReady
  <2>2. running \in 1 .. num_parts /\ i <= PartSize(running)
    <3>1. CASE phase = "expanded"
      BY <3>1, <1>2 DEF PlaceInv
    <3> QED
      BY <2>1, <3>1, AtFile
  <2>3. phase # "split"
    BY <2>1 DEF AtCommand
  <2> QED
    BY <1>8, <2>1, <2>2, <2>3
<1>11. CASE AddFails
  BY <1>1, <1>11 DEF AddFails, PlaceInv, Split
<1>12. CASE NextPart
  <2>1. /\ phase = "next" /\ running <= num_parts /\ running' = running + 1 /\ i' = 1
        /\ phase' = IF running = num_parts THEN "done" ELSE "next"
        /\ reruns' = reruns
    BY <1>12 DEF NextPart
  <2>2. running' \in 1 .. num_parts + 1 /\ (phase' = "done" => running' = num_parts + 1)
    BY <1>2, <2>1 DEF PlaceInv
  <2>3. running' <= num_parts => PartSize(running') \in Nat
    <3>1. running' <= num_parts => PartSize(running') \in {Quota, Quota + 1}
      BY <2>2, Starts
    <3>2. Quota \in Nat
      BY Starts
    <3> HIDE DEF Quota
    <3> QED
      BY <3>1, <3>2
  <2>4. running' <= num_parts => i' <= PartSize(running') + 1
    BY <2>1, <2>3
  <2>5. ~ Split
    BY <2>1 DEF Split
  <2> QED
    BY <1>1, <2>1, <2>2, <2>4, <2>5 DEF PlaceInv
<1>13. CASE Rerun
  <2>1. phase = "failed" /\ i' = 1 /\ phase' = "next" /\ running' = running /\ reruns' = reruns + 1
    BY <1>13 DEF Rerun
  <2>2. running <= num_parts => PartSize(running) \in Nat
    <3>1. running <= num_parts => PartSize(running) \in {Quota, Quota + 1}
      BY Starts, <1>2 DEF PlaceInv
    <3>2. Quota \in Nat
      BY Starts
    <3> HIDE DEF Quota
    <3> QED
      BY <3>1, <3>2
  <2>3. running <= num_parts => i' <= PartSize(running) + 1
    BY <2>1, <2>2
  <2>4. ~ Split /\ reruns' \in Nat
    BY <2>1 DEF Split, PlaceInv
  <2> QED
    BY <1>1, <2>1, <2>3, <2>4 DEF PlaceInv
<1>14. CASE UNCHANGED vars
  BY <1>3, <1>14 DEF vars
<1> QED
  BY <1>3, <1>4, <1>5, <1>6, <1>7, <1>9, <1>10, <1>11, <1>12, <1>13, <1>14 DEF Next, Split, Done

LEMMA PlaceAlways == Spec => [](SplitInv /\ PlaceInv)
<1>1. Init => SplitInv /\ PlaceInv
  BY SplitInit, PlaceInit
<1>2. SplitInv /\ PlaceInv /\ [Next]_vars => (SplitInv /\ PlaceInv)'
  BY SplitNext, PlaceNext
<1> QED
  BY <1>1, <1>2, PTL DEF Spec

\* Where the run is, as it goes on.
LEMMA PassedMoves ==
  ASSUME UNCHANGED <<commands, num_parts>>
  PROVE  /\ UNCHANGED <<running, i>> => Passed' = Passed
         /\ running' = running /\ i' = i + 1 => Passed' = Start(running) + (i + 1) - 1
         /\ running' = running /\ i' = 1 => Passed' = Start(running) + 1 - 1
         /\ running' = running + 1 /\ i' = 1 => Passed' = Start(running + 1) + 1 - 1
  BY DEF Passed, Start, Quota, Rest

\* A file that is advanced behind: settled is whether it has guards.
LEMMA GuardsAdvance ==
  ASSUME SplitInv, PlaceInv, GuardInv, [Next]_vars, NEW times \in Nat, Advance(times), SplitOver,
         running \in 1 .. num_parts, i <= PartSize(running),
         times > 0 <=> Selects(text[File])
  PROVE  GuardInv' /\ Passed' = Passed + 1
<1>1. /\ guarded' = [guarded EXCEPT ![File] = times] /\ i' = i + 1 /\ running' = running
      /\ phase' = "next" /\ UNCHANGED <<commands, num_parts, text>>
  BY Steady DEF Advance
<1>2. i \in Nat \ {0}
  BY DEF PlaceInv
<1>3. /\ Passed + 1 \in DOMAIN commands /\ Passed \in Nat /\ Start(running) \in Nat
      /\ File = commands[Passed + 1] /\ File \in DOMAIN text
  BY <1>2, FileAt
<1>4. Passed' = Passed + 1
  <2>1. Passed' = Start(running) + (i + 1) - 1 /\ Passed = Start(running) + i - 1
    BY <1>1, PassedMoves DEF Passed
  <2> QED
    BY <1>2, <1>3, <2>1
<1>5. /\ guarded' \in [DOMAIN text -> Nat] /\ guarded'[File] = times
      /\ \A f \in DOMAIN text : f # File => guarded'[f] = guarded[f]
  BY <1>1, <1>3 DEF GuardInv
<1>6. \A f \in DOMAIN text : guarded'[f] > 0 => Selects(text[f])
  BY <1>5 DEF GuardInv
<1>7. ASSUME NEW j \in 1 .. Passed + 1, Selects(text[commands[j]])
      PROVE  guarded'[commands[j]] > 0
  <2>1. CASE commands[j] = File
    BY <1>5, <1>7, <2>1
  <2>2. CASE commands[j] # File
    <3>1. j \in 1 .. Passed
      BY <1>3, <2>2
    <3>2. guarded[commands[j]] > 0
      BY <1>7, <3>1 DEF GuardInv
    <3>3. commands[j] \in DOMAIN text
      <4>1. commands \in Seq(DOMAIN text) /\ j \in DOMAIN commands
        BY <1>3, <3>1 DEF SplitInv
      <4> QED
        BY <4>1
    <3> QED
      BY <1>5, <2>2, <3>2, <3>3
  <2> QED
    BY <2>1, <2>2
<1>8. \A j \in 1 .. Passed' : Selects(text'[commands'[j]]) => guarded'[commands'[j]] > 0
  BY <1>1, <1>4, <1>7
<1>9. \A f \in DOMAIN text' : guarded'[f] > 0 => Selects(text'[f])
  BY <1>1, <1>6
<1> QED
  BY <1>1, <1>4, <1>5, <1>8, <1>9 DEF GuardInv, Selects

LEMMA GuardsInit == Init => GuardInv
<1> SUFFICES ASSUME Init PROVE GuardInv
  OBVIOUS
<1>1. guarded = [f \in DOMAIN text |-> 0] /\ phase = "split" /\ running = 1 /\ i = 1
  BY DEF Init
<1>2. Passed = 0
  <2>1. Start(1) = 0
    BY SplitInit, Starts
  <2> QED
    BY <1>1, <2>1 DEF Passed
<1> QED
  BY <1>1, <1>2 DEF GuardInv

LEMMA GuardsNext == SplitInv /\ PlaceInv /\ GuardInv /\ [Next]_vars => GuardInv'
<1> SUFFICES ASSUME SplitInv, PlaceInv, GuardInv, [Next]_vars PROVE GuardInv'
  OBVIOUS
<1>1. UNCHANGED <<commands, num_parts, text>> /\ (~ Split => UNCHANGED <<part, parts>>)
  BY Steady
<1>2. \A k \in Nat : PartSize(k)' = PartSize(k)
  BY Steady
\* The settled commands, with the guards and the place as they were.
<1>3. ASSUME UNCHANGED <<guarded, running, i>>
      PROVE  /\ guarded' \in [DOMAIN text' -> Nat]
             /\ \A f \in DOMAIN text' : guarded'[f] > 0 => Selects(text'[f])
             /\ \A j \in 1 .. Passed' : Selects(text'[commands'[j]]) => guarded'[commands'[j]] > 0
  <2>1. Passed' = Passed
    BY <1>1, <1>3, PassedMoves
  <2> QED
    BY <1>1, <1>3, <2>1 DEF GuardInv
<1>4. CASE UNCHANGED vars \/ Split
  <2>1. UNCHANGED <<guarded, running, i, phase, cfiVars>>
    BY <1>4 DEF Split, vars, batchVars
  <2>2. CASE phase = "adding"
    <3>1. UNCHANGED <<parts, prog, left, guards, status>>
      BY <1>1, <2>1, <2>2 DEF Split, cfiVars
    <3>2. FileInv' /\ prog' = text'[File'] /\ guarded'[File'] = 0
      BY <1>1, <2>1, <2>2, <3>1 DEF GuardInv, FileInv, File, Items, Selects
    <3> QED
      BY <1>3, <2>1, <3>2 DEF GuardInv, Selects
  <2> QED
    BY <1>3, <2>1, <2>2 DEF GuardInv, Selects
<1>5. CASE SplitEnds \/ Expand \/ ExpandFails \/ AddFails
  <2>1. UNCHANGED <<guarded, running, i>> /\ phase' # "adding"
    BY <1>5 DEF SplitEnds, Expand, ExpandFails, AddFails
  <2> QED
    BY <1>3, <2>1 DEF GuardInv, Selects
<1>6. ASSUME CfiReady
      PROVE  /\ running \in 1 .. num_parts /\ i <= PartSize(running) /\ SplitOver
             /\ File \in DOMAIN text /\ ~ Split /\ i \in Nat \ {0}
  <2>1. running \in 1 .. num_parts /\ i <= PartSize(running) /\ SplitOver /\ i \in Nat \ {0}
    <3>1. CASE phase = "expanded"
      BY <3>1 DEF PlaceInv, SplitInv
    <3>2. CASE AtCommand
      BY <3>2, AtFile DEF PlaceInv
    <3> QED
      BY <1>6, <3>1, <3>2 DEF CfiReady
  <2>2. ~ Split
    BY <2>1 DEF Split, SplitStep
  <2> QED
    BY <2>1, <2>2, FileAt
<1>7. CASE Add
  <2>1. CfiReady /\ guarded[File] = 0 /\ Load(text[File]) /\ UNCHANGED <<guarded, running, i>>
    BY <1>7 DEF Add
  <2>2. File \in DOMAIN text /\ UNCHANGED parts
    BY <1>1, <1>6, <2>1
  <2>3. FileInv' /\ prog' = text[File]
    BY <2>1, <2>2, FileLoad DEF PlaceInv, Parsed
  <2>4. File' = File
    BY <2>1, <2>2 DEF File
  <2> QED
    BY <1>1, <1>3, <2>1, <2>3, <2>4 DEF GuardInv, Selects
<1>8. CASE Rewrite
  <2>1. phase = "adding" /\ Step /\ UNCHANGED <<guarded, running, i, phase, parts>>
    BY <1>8 DEF Rewrite, splitVars, batchVars
  <2>2. FileInv' /\ prog' = prog
    BY <2>1, FileStep DEF GuardInv
  <2>3. File' = File
    BY <2>1 DEF File
  <2> QED
    BY <1>1, <1>3, <2>1, <2>2, <2>3 DEF GuardInv, Selects
<1>9. CASE Added
  <2> DEFINE times == IF status = "written" THEN 1 ELSE 0
  <2>1. phase = "adding" /\ status \in {"written", "unchanged"} /\ Advance(times)
    BY <1>9 DEF Added
  <2>2. times \in Nat /\ (times > 0 <=> status = "written")
    OBVIOUS
  <2> HIDE DEF times
  <2>3. FileInv /\ prog = text[File]
    BY <2>1 DEF GuardInv
  <2>4. times > 0 <=> Selects(text[File])
    BY <2>1, <2>2, <2>3, FileEnds
  <2>5. running \in 1 .. num_parts /\ i <= PartSize(running) /\ SplitOver
    BY <2>1 DEF PlaceInv, SplitInv
  <2> QED
    BY <2>1, <2>2, <2>4, <2>5, GuardsAdvance
<1>10. CASE AddAgain
  <2>1. CfiReady /\ guarded[File] > 0 /\ Advance(guarded[File] + 1)
    BY <1>10 DEF AddAgain
  <2>2. running \in 1 .. num_parts /\ i <= PartSize(running) /\ SplitOver /\ File \in DOMAIN text
    BY <1>6, <2>1
  <2>3. guarded[File] + 1 \in Nat /\ guarded[File] + 1 > 0 /\ Selects(text[File])
    BY <2>1, <2>2 DEF GuardInv
  <2> QED
    BY <2>1, <2>2, <2>3, GuardsAdvance
<1>11. CASE NextPart
  <2>1. /\ phase = "next" /\ running <= num_parts /\ i > Len(parts[running]) /\ running' = running + 1
        /\ i' = 1 /\ phase' # "adding" /\ guarded' = guarded
    BY <1>11 DEF NextPart
  <2>2. running \in 1 .. num_parts /\ SplitOver /\ i \in Nat \ {0}
    BY <2>1 DEF PlaceInv, SplitInv
  <2>3. /\ Len(parts[running]) = PartSize(running) /\ PartSize(running) \in Nat
        /\ Start(running) \in Nat /\ Start(running + 1) = Start(running) + PartSize(running)
    BY <2>2, FileAt
  <2>4. i = PartSize(running) + 1
    BY <2>1, <2>2, <2>3 DEF PlaceInv
  <2>5. Passed' = Passed
    <3>1. Passed' = Start(running + 1) + 1 - 1 /\ Passed = Start(running) + i - 1
      BY <1>1, <2>1, PassedMoves DEF Passed
    <3> QED
      BY <2>3, <2>4, <3>1
  <2> QED
    BY <1>1, <2>1, <2>5 DEF GuardInv, Selects
<1>12. CASE Rerun
  <2>1. phase = "failed" /\ i' = 1 /\ phase' = "next" /\ UNCHANGED <<running, guarded>>
    BY <1>12 DEF Rerun
  <2>2. Passed' = Start(running) + 1 - 1 /\ Passed = Start(running) + i - 1
    BY <1>1, <2>1, PassedMoves DEF Passed
  <2>3. Start(running) \in Nat /\ i \in Nat \ {0}
    BY Starts DEF PlaceInv
  <2>4. 1 .. Passed' \subseteq 1 .. Passed
    BY <2>2, <2>3
  <2> QED
    BY <1>1, <2>1, <2>4 DEF GuardInv, Selects
<1> QED
  BY <1>4, <1>5, <1>7, <1>8, <1>9, <1>10, <1>11, <1>12 DEF Next, Done

LEMMA OnceNext ==
  SplitInv /\ PlaceInv /\ GuardInv /\ OnceInv /\ [Next]_vars => OnceInv'
<1> SUFFICES ASSUME SplitInv, PlaceInv, GuardInv, OnceInv, [Next]_vars, Distinct, reruns' = 0
             PROVE  \A f \in DOMAIN text : /\ guarded'[f] <= 1
                                           /\ guarded'[f] > 0 => \E j \in 1 .. Passed' : commands[j] = f
  BY Steady DEF OnceInv, Distinct
<1>1. UNCHANGED <<commands, num_parts, text>>
  BY Steady
<1>2. reruns = 0
  BY DEF Next, Split, SplitEnds, Expand, ExpandFails, Add, Rewrite, Added, Advance, AddFails, AddAgain, NextPart,
         Rerun, Done, vars, batchVars, PlaceInv
<1>3. \A f \in DOMAIN text : /\ guarded[f] <= 1
                             /\ guarded[f] > 0 => \E j \in 1 .. Passed : commands[j] = f
  BY <1>2 DEF OnceInv
<1>4. ASSUME UNCHANGED <<guarded, running, i>>
      PROVE  \A f \in DOMAIN text : /\ guarded'[f] <= 1
                                    /\ guarded'[f] > 0 => \E j \in 1 .. Passed' : commands[j] = f
  <2>1. Passed' = Passed
    BY <1>1, <1>4, PassedMoves
  <2> QED
    BY <1>3, <1>4, <2>1
<1>5. ASSUME CfiReady \/ phase = "adding"
      PROVE  running \in 1 .. num_parts /\ i <= PartSize(running) /\ SplitOver /\ i \in Nat \ {0}
  <2>1. CASE phase \in {"expanded", "adding"}
    BY <2>1 DEF PlaceInv, SplitInv
  <2>2. CASE AtCommand
    BY <2>2, AtFile DEF PlaceInv
  <2> QED
    BY <1>5, <2>1, <2>2 DEF CfiReady
\* What is guarded already stands before, so it cannot be the file at hand.
<1>6. ASSUME CfiReady PROVE guarded[File] = 0
  <2>1. Passed + 1 \in DOMAIN commands /\ Passed \in Nat /\ File = commands[Passed + 1] /\ File \in DOMAIN text
    BY <1>5, <1>6, FileAt
  <2>2. SUFFICES ASSUME guarded[File] > 0 PROVE FALSE
    BY <2>1 DEF GuardInv
  <2>3. PICK j \in 1 .. Passed : commands[j] = File
    BY <1>3, <2>1, <2>2
  <2>4. j \in DOMAIN commands
    BY <2>1, <2>3 DEF SplitInv
  <2>5. j = Passed + 1
    BY <2>1, <2>3, <2>4 DEF Distinct
  <2> QED
    BY <2>1, <2>3, <2>5
<1>7. CASE Added
  <2> DEFINE times == IF status = "written" THEN 1 ELSE 0
  <2>1. phase = "adding" /\ status \in {"written", "unchanged"} /\ Advance(times)
    BY <1>7 DEF Added
  <2>2. times \in Nat /\ times <= 1 /\ (times > 0 <=> status = "written")
    OBVIOUS
  <2> HIDE DEF times
  <2>3. times > 0 <=> Selects(text[File])
    BY <2>1, <2>2, FileEnds DEF GuardInv
  <2>4. Passed' = Passed + 1
    BY <1>5, <2>1, <2>2, <2>3, GuardsAdvance
  <2>5. Passed \in Nat /\ File = commands[Passed + 1] /\ File \in DOMAIN text
    BY <1>5, <2>1, FileAt
  <2>6. /\ guarded'[File] = times
        /\ \A f \in DOMAIN text : f # File => guarded'[f] = guarded[f]
    BY <2>1, <2>5 DEF Advance, GuardInv
  <2>7. ASSUME NEW f \in DOMAIN text
        PROVE  guarded'[f] <= 1 /\ (guarded'[f] > 0 => \E j \in 1 .. Passed' : commands[j] = f)
    <3>1. CASE f = File
      <4>1. Passed + 1 \in 1 .. Passed' /\ commands[Passed + 1] = f
        BY <2>4, <2>5, <3>1
      <4> QED
        BY <2>2, <2>6, <3>1, <4>1
    <3>2. CASE f # File
      <4>1. guarded'[f] = guarded[f] /\ 1 .. Passed \subseteq 1 .. Passed'
        BY <2>4, <2>5, <2>6, <3>2
      <4> QED
        BY <1>3, <4>1
    <3> QED
      BY <3>1, <3>2
  <2> QED
    BY <2>7
<1>8. CASE AddAgain
  BY <1>6, <1>8 DEF AddAgain
<1>9. CASE NextPart
  <2>1. /\ phase = "next" /\ running <= num_parts /\ i > Len(parts[running]) /\ running' = running + 1
        /\ i' = 1 /\ guarded' = guarded
    BY <1>9 DEF NextPart
  <2>2. running \in 1 .. num_parts /\ SplitOver /\ i \in Nat \ {0}
    BY <2>1 DEF PlaceInv, SplitInv
  <2>3. /\ Len(parts[running]) = PartSize(running) /\ PartSize(running) \in Nat
        /\ Start(running) \in Nat /\ Start(running + 1) = Start(running) + PartSize(running)
    BY <2>2, FileAt
  <2>4. i = PartSize(running) + 1
    BY <2>1, <2>2, <2>3 DEF PlaceInv
  <2>5. Passed' = Passed
    <3>1. Passed' = Start(running + 1) + 1 - 1 /\ Passed = Start(running) + i - 1
      BY <1>1, <2>1, PassedMoves DEF Passed
    <3> QED
      BY <2>3, <2>4, <3>1
  <2> QED
    BY <1>3, <2>1, <2>5
<1>10. CASE Rerun
  BY <1>2, <1>10 DEF Rerun
<1>11. CASE ~ (Added \/ AddAgain \/ NextPart \/ Rerun)
  <2>1. UNCHANGED <<guarded, running, i>>
    BY <1>11 DEF Next, Split, SplitEnds, Expand, ExpandFails, Add, Rewrite, AddFails, Done, vars, batchVars
  <2> QED
    BY <1>4, <2>1
<1> QED
  BY <1>7, <1>8, <1>9, <1>10, <1>11

\* Wherever a run stands, whichever parts failed and were started again: of the
\* commands it has passed, the files with calls to guard have guards, and no
\* other file has any.
THEOREM BatchInvariant == Spec => []BatchInv
<1>1. Init => OnceInv
  BY DEF Init, OnceInv
<1>2. Init => BatchInv
  BY <1>1, SplitInit, PlaceInit, GuardsInit DEF BatchInv
<1>3. BatchInv /\ [Next]_vars => BatchInv'
  BY SplitNext, PlaceNext, GuardsNext, OnceNext DEF BatchInv
<1> QED
  BY <1>2, <1>3, PTL DEF Spec

\* A run of all parts to their ends guards the sources that have calls to guard and
\* no others, each once if it is listed once and no part was started again.
THEOREM SourcesGuarded == Spec => []AllGuarded
<1>1. BatchInv => AllGuarded
  <2> SUFFICES ASSUME BatchInv, phase = "done" PROVE AllGuarded
    BY DEF AllGuarded
  <2>1. SplitInv /\ PlaceInv /\ GuardInv /\ OnceInv
    BY DEF BatchInv
  <2>2. Passed = Len(commands)
    <3>1. running = num_parts + 1 /\ i = 1 /\ Start(num_parts + 1) = Len(commands)
      BY <2>1, Starts DEF PlaceInv
    <3>2. Len(commands) \in Nat
      BY <2>1 DEF SplitInv
    <3> QED
      BY <3>1, <3>2 DEF Passed
  <2>3. \A f \in DOMAIN text : Selects(text[f]) <=> HasGuards(f)
    BY DEF Selects, HasGuards
  <2>4. ASSUME NEW k \in DOMAIN commands PROVE guarded[commands[k]] > 0 <=> HasGuards(commands[k])
    <3>1. commands[k] \in DOMAIN text /\ k \in 1 .. Passed
      <4>1. commands \in Seq(DOMAIN text)
        BY <2>1 DEF SplitInv
      <4> QED
        BY <2>2, <4>1
    <3> QED
      BY <2>1, <2>3, <3>1 DEF GuardInv
  <2>5. Distinct /\ reruns = 0 => \A f \in Files : guarded[f] <= 1
    BY <2>1 DEF OnceInv, Files
  <2> QED
    BY <2>4, <2>5 DEF AllGuarded
<1> QED
  BY <1>1, BatchInvariant, PTL

-----------------------------------------------------------------------------
(* What the two edits do to a text.                                        *)

\* Position <<l, c>> is before <<m, d>>.
Lt(l, c, m, d) == l < m \/ (l = m /\ c < d)

\* What of line s is before column c, and what is from there on.
IsSliced(S, s, c) ==
  /\ Before(s, c) \in Seq(S) /\ Len(Before(s, c)) = c - 1
  /\ \A k \in 1 .. c - 1 : Before(s, c)[k] = s[k]
  /\ From(s, c) \in Seq(S) /\ Len(From(s, c)) = Len(s) + 1 - c
  /\ \A k \in c .. Len(s) : From(s, c)[k - c + 1] = s[k]

LEMMA Slices ==
  ASSUME NEW S, NEW s \in Seq(S), NEW c \in Nat \ {0}, c <= Len(s) + 1
  PROVE  IsSliced(S, s, c)
<1>1. Len(s) \in Nat /\ c - 1 \in Nat /\ c - 1 <= Len(s)
  OBVIOUS
<1>2. Before(s, c) = SubSeq(s, 1, c - 1)
  BY <1>1 DEF Before
<1>3. /\ SubSeq(s, 1, c - 1) \in Seq(S) /\ Len(SubSeq(s, 1, c - 1)) = c - 1
      /\ \A k \in 1 .. c - 1 : SubSeq(s, 1, c - 1)[k] = s[k]
  BY <1>1
<1>4. From(s, c) = SubSeq(s, c, Len(s))
  BY DEF From
<1>5. SubSeq(s, c, Len(s)) \in Seq(S) /\ Len(SubSeq(s, c, Len(s))) = Len(s) + 1 - c
  BY <1>1
<1>6. ASSUME NEW k \in c .. Len(s) PROVE SubSeq(s, c, Len(s))[k - c + 1] = s[k]
  <2>1. k - c + 1 \in 1 .. Len(s) - c + 1 /\ c + (k - c + 1) - 1 = k
    BY <1>1
  <2>2. SubSeq(s, c, Len(s)) = [m \in 1 .. Len(s) - c + 1 |-> s[c + m - 1]]
    BY <1>1
  <2> QED
    BY <2>1, <2>2
<1> QED
  BY <1>2, <1>3, <1>4, <1>5, <1>6 DEF IsSliced

LEMMA Pair ==
  ASSUME NEW S, NEW a \in Seq(S), NEW b \in Seq(S)
  PROVE  /\ a \o b \in Seq(S) /\ Len(a \o b) = Len(a) + Len(b)
         /\ \A k \in 1 .. Len(a) : (a \o b)[k] = a[k]
         /\ \A k \in 1 .. Len(b) : (a \o b)[Len(a) + k] = b[k]
<1>1. a \o b \in Seq(S) /\ Len(a \o b) = Len(a) + Len(b)
  OBVIOUS
<1>2. \A k \in 1 .. Len(a) : (a \o b)[k] = a[k]
  OBVIOUS
<1>3. \A k \in 1 .. Len(b) : (a \o b)[Len(a) + k] = b[k]
  OBVIOUS
<1> QED
  BY <1>1, <1>2, <1>3

\* w is a, b and c, one behind the other.
IsJoin(S, w, a, b, c) ==
  /\ w \in Seq(S) /\ Len(w) = Len(a) + Len(b) + Len(c)
  /\ \A k \in 1 .. Len(a) : w[k] = a[k]
  /\ \A k \in 1 .. Len(b) : w[Len(a) + k] = b[k]
  /\ \A k \in 1 .. Len(c) : w[Len(a) + Len(b) + k] = c[k]

LEMMA Joined ==
  ASSUME NEW S, NEW a \in Seq(S), NEW b \in Seq(S), NEW c \in Seq(S)
  PROVE  IsJoin(S, a \o b \o c, a, b, c)
<1>1. Len(a) \in Nat /\ Len(b) \in Nat /\ Len(c) \in Nat
  OBVIOUS
<1> DEFINE ab == a \o b
<1>2. /\ ab \in Seq(S) /\ Len(ab) = Len(a) + Len(b)
      /\ \A k \in 1 .. Len(a) : ab[k] = a[k]
      /\ \A k \in 1 .. Len(b) : ab[Len(a) + k] = b[k]
  BY Pair
<1>8. ab \o c = a \o b \o c
  OBVIOUS
<1> HIDE DEF ab
<1>3. /\ ab \o c \in Seq(S) /\ Len(ab \o c) = Len(ab) + Len(c)
      /\ \A k \in 1 .. Len(ab) : (ab \o c)[k] = ab[k]
      /\ \A k \in 1 .. Len(c) : (ab \o c)[Len(ab) + k] = c[k]
  <2>1. ab \in Seq(S)
    BY <1>2
  <2> QED
    BY <2>1, Pair
<1>6. \A k \in 1 .. Len(a) : k \in 1 .. Len(ab)
  BY <1>1, <1>2
<1>7. \A k \in 1 .. Len(b) : Len(a) + k \in 1 .. Len(ab)
  BY <1>1, <1>2
<1> QED
  BY <1>1, <1>2, <1>3, <1>6, <1>7, <1>8 DEF IsJoin

LEMMA Places ==
  ASSUME NEW S, NEW s \in Seq(S)
  PROVE  DOMAIN s \subseteq Nat \ {0}
  OBVIOUS

IsInserted(S, t, at, tokens, u) ==
  /\ u \in Seq(Seq(S)) /\ DOMAIN u = DOMAIN t
  /\ \A l \in DOMAIN t : l # at[1] => u[l] = t[l]
  /\ DOMAIN u[at[1]] = 1 .. Len(t[at[1]]) + Len(tokens)
  /\ \A c \in 1 .. at[2] - 1 : u[at[1]][c] = t[at[1]][c]
  /\ \A k \in 1 .. Len(tokens) : u[at[1]][at[2] - 1 + k] = tokens[k]
  /\ \A c \in at[2] .. Len(t[at[1]]) : u[at[1]][c + Len(tokens)] = t[at[1]][c]

LEMMA InsertIs ==
  ASSUME NEW S, NEW t \in Seq(Seq(S)), NEW at, at[1] \in DOMAIN t, at[2] \in Nat \ {0},
         at[2] <= Len(t[at[1]]) + 1, NEW tokens \in Seq(S)
  PROVE  IsInserted(S, t, at, tokens, Insert(t, at, tokens))
<1> DEFINE line == t[at[1]]
           col == at[2]
           new == Before(line, col) \o tokens \o From(line, col)
           u == [t EXCEPT ![at[1]] = new]
<1>1. Insert(t, at, tokens) = u
  BY DEF Insert
<1>2. line \in Seq(S) /\ col \in Nat \ {0} /\ col <= Len(line) + 1 /\ Len(line) \in Nat /\ Len(tokens) \in Nat
  OBVIOUS
<1>3. DOMAIN t = 1 .. Len(t) /\ t \in [1 .. Len(t) -> Seq(S)] /\ Len(t) \in Nat
  OBVIOUS
<1> HIDE DEF line, col
<1>4. /\ Before(line, col) \in Seq(S) /\ Len(Before(line, col)) = col - 1
      /\ \A k \in 1 .. col - 1 : Before(line, col)[k] = line[k]
      /\ From(line, col) \in Seq(S) /\ Len(From(line, col)) = Len(line) + 1 - col
      /\ \A k \in col .. Len(line) : From(line, col)[k - col + 1] = line[k]
  <2>1. IsSliced(S, line, col)
    BY <1>2, Slices
  <2> QED
    BY <2>1 DEF IsSliced
<1>5. /\ new \in Seq(S) /\ Len(new) = (col - 1) + Len(tokens) + (Len(line) + 1 - col)
      /\ \A k \in 1 .. col - 1 : new[k] = line[k]
      /\ \A k \in 1 .. Len(tokens) : new[(col - 1) + k] = tokens[k]
      /\ \A k \in 1 .. Len(line) + 1 - col : new[(col - 1) + Len(tokens) + k] = From(line, col)[k]
  <2> DEFINE a == Before(line, col)
             c == From(line, col)
  <2>1. a \in Seq(S) /\ tokens \in Seq(S) /\ c \in Seq(S) /\ Len(a) = col - 1 /\ Len(c) = Len(line) + 1 - col
        /\ \A k \in 1 .. col - 1 : a[k] = line[k]
    BY <1>4
  <2>2. new = a \o tokens \o c
    OBVIOUS
  <2> HIDE DEF a, c, new
  <2>3. IsJoin(S, new, a, tokens, c)
    BY <2>1, <2>2, Joined
  <2>4. /\ new \in Seq(S) /\ Len(new) = Len(a) + Len(tokens) + Len(c)
        /\ \A k \in 1 .. Len(a) : new[k] = a[k]
        /\ \A k \in 1 .. Len(tokens) : new[Len(a) + k] = tokens[k]
        /\ \A k \in 1 .. Len(c) : new[Len(a) + Len(tokens) + k] = c[k]
    BY <2>3 DEF IsJoin
  <2> QED
    BY <2>1, <2>4 DEF c
<1> HIDE DEF new
<1>6. ASSUME NEW c \in col .. Len(line) PROVE new[c + Len(tokens)] = line[c]
  <2>1. c - col + 1 \in 1 .. Len(line) + 1 - col /\ (col - 1) + Len(tokens) + (c - col + 1) = c + Len(tokens)
    BY <1>2
  <2>2. new[(col - 1) + Len(tokens) + (c - col + 1)] = From(line, col)[c - col + 1]
    BY <1>5, <2>1
  <2>3. From(line, col)[c - col + 1] = line[c]
    BY <1>4
  <2> QED
    BY <2>1, <2>2, <2>3
<1>7. DOMAIN new = 1 .. Len(line) + Len(tokens)
  <2>1. DOMAIN new = 1 .. Len(new) /\ Len(new) = Len(line) + Len(tokens)
    BY <1>2, <1>5
  <2> QED
    BY <2>1
<1>8. u \in [1 .. Len(t) -> Seq(S)] /\ DOMAIN u = DOMAIN t /\ u[at[1]] = new
      /\ \A l \in DOMAIN t : l # at[1] => u[l] = t[l]
  BY <1>3, <1>5
<1> HIDE DEF u
<1>9. u \in Seq(Seq(S))
  BY <1>3, <1>8, IsSeq
<1> QED
  BY <1>1, <1>5, <1>6, <1>7, <1>8, <1>9 DEF line, col, IsInserted

\* Where the replacement stands in its line.
HeadLen(from, to) == IF from[1] = to[1] THEN from[2] - 1 ELSE 0

IsReplaced(S, t, from, to, token, u) ==
  LET h == HeadLen(from, to) IN
  /\ u \in Seq(Seq(S)) /\ DOMAIN u = DOMAIN t
  /\ \A l \in DOMAIN t : l < from[1] \/ l > to[1] => u[l] = t[l]
  /\ \A l \in DOMAIN t : from[1] < l /\ l < to[1] => u[l] = << >>
  /\ \A c \in 1 .. from[2] - 1 : c \in DOMAIN u[from[1]] /\ u[from[1]][c] = t[from[1]][c]
  /\ from[1] < to[1] => DOMAIN u[from[1]] = 1 .. from[2] - 1
  /\ DOMAIN u[to[1]] = 1 .. h + 1 + (Len(t[to[1]]) + 1 - to[2])
  /\ u[to[1]][h + 1] = token
  /\ \A c \in to[2] .. Len(t[to[1]]) : u[to[1]][h + 2 + (c - to[2])] = t[to[1]][c]

LEMMA ReplaceIs ==
  ASSUME NEW S, NEW t \in Seq(Seq(S)), NEW from, NEW to, NEW token \in S,
         from[1] \in DOMAIN t, from[2] \in Nat \ {0}, from[2] <= Len(t[from[1]]) + 1,
         to[1] \in DOMAIN t, to[2] \in Nat \ {0}, to[2] <= Len(t[to[1]]) + 1,
         Leq(from, to)
  PROVE  IsReplaced(S, t, from, to, token, Replace(t, from, to, token))
<1> DEFINE u == Replace(t, from, to, token)
           h == HeadLen(from, to)
           head(n) == IF n = from[1] THEN Before(t[n], from[2]) ELSE << >>
           line == head(to[1]) \o <<token>> \o From(t[to[1]], to[2])
<1>1. /\ from[1] \in Nat /\ to[1] \in Nat /\ from[1] <= to[1] /\ (from[1] = to[1] => from[2] <= to[2])
      /\ from[1] \in 1 .. Len(t) /\ to[1] \in 1 .. Len(t) /\ Len(t) \in Nat /\ DOMAIN t = 1 .. Len(t)
      /\ t[from[1]] \in Seq(S) /\ t[to[1]] \in Seq(S)
      /\ Len(t[to[1]]) \in Nat /\ Len(t[from[1]]) \in Nat /\ to[2] \in Nat /\ from[2] \in Nat
      /\ 0 < to[2] /\ to[2] <= Len(t[to[1]]) + 1
  <2>1. /\ from[1] \in 1 .. Len(t) /\ to[1] \in 1 .. Len(t) /\ Len(t) \in Nat /\ DOMAIN t = 1 .. Len(t)
        /\ t[from[1]] \in Seq(S) /\ t[to[1]] \in Seq(S)
    BY SMTT(30)
  <2>2. /\ Len(t[to[1]]) \in Nat /\ Len(t[from[1]]) \in Nat /\ to[2] \in Nat /\ from[2] \in Nat
        /\ 0 < to[2] /\ to[2] <= Len(t[to[1]]) + 1
    BY <2>1, SMTT(30)
  <2>3. from[1] < to[1] \/ (from[1] = to[1] /\ from[2] <= to[2])
    BY DEF Leq
  <2> QED
    BY <2>1, <2>2, <2>3
<1>2. /\ Before(t[from[1]], from[2]) \in Seq(S) /\ Len(Before(t[from[1]], from[2])) = from[2] - 1
      /\ \A k \in 1 .. from[2] - 1 : Before(t[from[1]], from[2])[k] = t[from[1]][k]
  <2>1. IsSliced(S, t[from[1]], from[2])
    BY <1>1, Slices
  <2> QED
    BY <2>1 DEF IsSliced
<1>3. /\ From(t[to[1]], to[2]) \in Seq(S) /\ Len(From(t[to[1]], to[2])) = Len(t[to[1]]) + 1 - to[2]
      /\ \A k \in to[2] .. Len(t[to[1]]) : From(t[to[1]], to[2])[k - to[2] + 1] = t[to[1]][k]
  <2>1. IsSliced(S, t[to[1]], to[2])
    BY <1>1, Slices
  <2> QED
    BY <2>1 DEF IsSliced
<1>4. \A n \in DOMAIN t :
        /\ n < from[1] \/ n > to[1] => u[n] = t[n]
        /\ n = to[1] => u[n] = line
        /\ from[1] <= n /\ n < to[1] => u[n] = head(n)
  <2>1. \A n \in DOMAIN t :
          u[n] = CASE n < from[1] \/ n > to[1] -> t[n]
                   [] n = to[1] -> head(n) \o <<token>> \o From(t[n], to[2])
                   [] OTHER -> head(n)
    BY DEF Replace
  <2> HIDE DEF u, head
  <2>2. \A n \in DOMAIN t : n \in Nat
    BY <1>1
  <2>3. ASSUME NEW n \in DOMAIN t, n < from[1] \/ n > to[1] PROVE u[n] = t[n]
    <3>1. n # to[1]
      BY <2>2, <2>3, <1>1
    <3> QED
      BY <2>1, <2>3, <3>1
  <2>4. ASSUME NEW n \in DOMAIN t, n = to[1] PROVE u[n] = line
    <3>1. ~ (n < from[1] \/ n > to[1])
      BY <2>4, <1>1
    <3> QED
      BY <2>1, <2>4, <3>1
  <2>5. ASSUME NEW n \in DOMAIN t, from[1] <= n, n < to[1] PROVE u[n] = head(n)
    <3>1. ~ (n < from[1] \/ n > to[1]) /\ n # to[1]
      BY <2>2, <2>5, <1>1, SMTT(30)
    <3> QED
      BY <2>1, <3>1
  <2> QED
    BY <2>3, <2>4, <2>5
<1>5. DOMAIN u = DOMAIN t /\ u = [n \in DOMAIN t |-> u[n]]
  BY DEF Replace
<1>6. head(to[1]) \in Seq(S) /\ Len(head(to[1])) = h /\ h \in Nat
      /\ (from[1] = to[1] => \A k \in 1 .. from[2] - 1 : head(to[1])[k] = t[from[1]][k])
  <2>1. CASE from[1] = to[1]
    <3>1. head(to[1]) = Before(t[from[1]], from[2]) /\ h = from[2] - 1
      BY <2>1 DEF HeadLen
    <3> HIDE DEF head, h
    <3> QED
      BY <1>2, <2>1, <3>1
  <2>2. CASE from[1] # to[1]
    <3>1. head(to[1]) = << >> /\ h = 0
      BY <2>2 DEF HeadLen
    <3>2. << >> \in Seq(S) /\ Len(<< >>) = 0
      OBVIOUS
    <3> HIDE DEF head, h
    <3> QED
      BY <2>2, <3>1, <3>2
  <2> QED
    BY <2>1, <2>2
<1> HIDE DEF u, h
<1>7. /\ line \in Seq(S) /\ Len(line) = h + 1 + (Len(t[to[1]]) + 1 - to[2])
      /\ \A k \in 1 .. h : line[k] = head(to[1])[k]
      /\ line[h + 1] = token
      /\ \A k \in 1 .. Len(t[to[1]]) + 1 - to[2] : line[h + 1 + k] = From(t[to[1]], to[2])[k]
  <2> DEFINE a == head(to[1])
             b == <<token>>
             c == From(t[to[1]], to[2])
  <2>1. line = a \o b \o c
    OBVIOUS
  <2>2. a \in Seq(S) /\ b \in Seq(S) /\ c \in Seq(S) /\ Len(a) = h /\ Len(b) = 1 /\ b[1] = token
        /\ Len(c) = Len(t[to[1]]) + 1 - to[2]
    BY <1>3, <1>6
  <2> HIDE DEF a, b, c, line
  <2>3. IsJoin(S, line, a, b, c)
    BY <2>1, <2>2, Joined
  <2>4. /\ line \in Seq(S) /\ Len(line) = Len(a) + Len(b) + Len(c)
        /\ \A k \in 1 .. Len(a) : line[k] = a[k]
        /\ \A k \in 1 .. Len(b) : line[Len(a) + k] = b[k]
        /\ \A k \in 1 .. Len(c) : line[Len(a) + Len(b) + k] = c[k]
    BY <2>3 DEF IsJoin
  <2>5. line[h + 1] = token
    BY <2>2, <2>4
  <2> QED
    BY <2>2, <2>4, <2>5 DEF a, c
<1> HIDE DEF line, head
<1>8. ASSUME NEW l \in DOMAIN t PROVE u[l] \in Seq(S)
  <2>1. l < from[1] \/ l > to[1] \/ l = to[1] \/ (from[1] <= l /\ l < to[1])
    BY <1>1, SMTT(30)
  <2>2. CASE from[1] <= l /\ l < to[1]
    <3>1. head(l) \in Seq(S)
      BY <1>2 DEF head
    <3> QED
      BY <1>4, <2>2, <3>1
  <2>3. t[l] \in Seq(S)
    OBVIOUS
  <2> QED
    BY <1>4, <1>7, <2>1, <2>2, <2>3
<1>9. u \in Seq(Seq(S))
  <2>1. u \in [1 .. Len(t) -> Seq(S)]
    BY <1>1, <1>5, <1>8
  <2> QED
    BY <1>1, <2>1, IsSeq
<1>10. ASSUME NEW l \in DOMAIN t, from[1] < l, l < to[1] PROVE u[l] = << >>
  <2>1. head(l) = << >> /\ from[1] <= l
    BY <1>1, <1>10 DEF head
  <2> QED
    BY <1>4, <1>10, <2>1
<1>11. from[1] < to[1] => u[from[1]] = Before(t[from[1]], from[2])
  <2>1. head(from[1]) = Before(t[from[1]], from[2])
    BY DEF head
  <2> QED
    BY <1>1, <1>4, <2>1
<1>12. from[1] < to[1] => DOMAIN u[from[1]] = 1 .. from[2] - 1
  BY <1>2, <1>11
<1>13. u[to[1]] = line
  BY <1>4
<1>14. DOMAIN u[to[1]] = 1 .. h + 1 + (Len(t[to[1]]) + 1 - to[2])
  BY <1>7, <1>13
<1>15. ASSUME NEW c \in to[2] .. Len(t[to[1]]) PROVE u[to[1]][h + 2 + (c - to[2])] = t[to[1]][c]
  <2> DEFINE n == Len(t[to[1]])
             m == to[2]
  <2>0. n \in Nat /\ m \in Nat /\ c \in m .. n /\ h \in Nat
    BY <1>1, <1>6
  <2> HIDE DEF n, m
  <2>4. c - m + 1 \in 1 .. n + 1 - m /\ h + 1 + (c - m + 1) = h + 2 + (c - m)
    BY <2>0
  <2>1. c - to[2] + 1 \in 1 .. Len(t[to[1]]) + 1 - to[2] /\ h + 1 + (c - to[2] + 1) = h + 2 + (c - to[2])
    BY <2>4 DEF n, m
  <2>2. line[h + 1 + (c - to[2] + 1)] = From(t[to[1]], to[2])[c - to[2] + 1]
    BY <1>7, <2>1
  <2>3. From(t[to[1]], to[2])[c - to[2] + 1] = t[to[1]][c]
    BY <1>3
  <2> QED
    BY <1>13, <2>1, <2>2, <2>3
<1>16. ASSUME NEW c \in 1 .. from[2] - 1
       PROVE  c \in DOMAIN u[from[1]] /\ u[from[1]][c] = t[from[1]][c]
  <2>1. CASE from[1] < to[1]
    BY <1>2, <1>11, <1>12, <2>1
  <2>2. CASE from[1] = to[1]
    <3>1. h = from[2] - 1
      BY <2>2 DEF h, HeadLen
    <3>2. c \in 1 .. h + 1 + (Len(t[to[1]]) + 1 - to[2])
      <4> DEFINE n == Len(t[to[1]]) + 1 - to[2]
      <4>1. n \in Nat /\ c \in 1 .. h /\ h \in Nat
        BY <1>1, <1>6, <3>1, SMTT(30)
      <4> HIDE DEF n
      <4>2. c \in 1 .. h + 1 + n
        BY <4>1
      <4> QED
        BY <4>2 DEF n
    <3> QED
      BY <1>6, <1>7, <1>13, <1>14, <2>2, <3>1, <3>2
  <2> QED
    BY <1>1, <2>1, <2>2
<1> QED
  BY <1>4, <1>5, <1>7, <1>9, <1>10, <1>12, <1>13, <1>14, <1>15, <1>16 DEF u, h, IsReplaced

\* A token of the line at[1] behind an insertion of n tokens.
Moved(at, n, l, c) == IF l = at[1] /\ c >= at[2] THEN c + n ELSE c

TokensMoved(t, at, tokens, u) ==
  /\ \A l \in DOMAIN u : \A c \in DOMAIN u[l] :
       \/ \E k \in DOMAIN tokens : u[l][c] = tokens[k]
       \/ \E d \in DOMAIN t[l] : u[l][c] = t[l][d] /\ c = Moved(at, Len(tokens), l, d)
  /\ \A l \in DOMAIN t : \A d \in DOMAIN t[l] :
       /\ Moved(at, Len(tokens), l, d) \in DOMAIN u[l]
       /\ u[l][Moved(at, Len(tokens), l, d)] = t[l][d]

LEMMA InsertTokens ==
  ASSUME NEW S, NEW t \in Seq(Seq(S)), NEW at, at[1] \in DOMAIN t, at[2] \in Nat \ {0},
         at[2] <= Len(t[at[1]]) + 1, NEW tokens \in Seq(S),
         NEW u, u = Insert(t, at, tokens)
  PROVE  TokensMoved(t, at, tokens, u)
<1> DEFINE n == Len(tokens)
           m == Len(t[at[1]])
           a == at[2]
           r == at[1]
<1>1. /\ u \in Seq(Seq(S)) /\ DOMAIN u = DOMAIN t
      /\ \A l \in DOMAIN t : l # r => u[l] = t[l]
      /\ DOMAIN u[r] = 1 .. m + n
      /\ \A c \in 1 .. a - 1 : u[r][c] = t[r][c]
      /\ \A k \in 1 .. n : u[r][a - 1 + k] = tokens[k]
      /\ \A c \in a .. m : u[r][c + n] = t[r][c]
  <2>1. IsInserted(S, t, at, tokens, u)
    BY InsertIs
  <2> QED
    BY <2>1 DEF IsInserted
<1>2. /\ n \in Nat /\ m \in Nat /\ a \in Nat /\ 0 < a /\ a <= m + 1
      /\ DOMAIN tokens = 1 .. n /\ DOMAIN t[r] = 1 .. m /\ r \in DOMAIN t
  <2>1. t[at[1]] \in Seq(S)
    OBVIOUS
  <2> QED
    BY <2>1
<1>3. \A l, d : Moved(at, n, l, d) = IF l = r /\ d >= a THEN d + n ELSE d
  BY DEF Moved
<1> HIDE DEF n, m, a, r
<1>4. ASSUME NEW l \in DOMAIN u, NEW c \in DOMAIN u[l]
      PROVE  \/ \E k \in DOMAIN tokens : u[l][c] = tokens[k]
             \/ \E d \in DOMAIN t[l] : u[l][c] = t[l][d] /\ c = Moved(at, n, l, d)
  <2>1. CASE l # r
    <3>1. u[l] = t[l] /\ Moved(at, n, l, c) = c
      BY <1>1, <1>3, <2>1
    <3> QED
      BY <3>1
  <2>2. CASE l = r /\ c < a
    <3>0. c \in 1 .. m + n
      BY <1>1, <2>2
    <3>1. c \in 1 .. a - 1 /\ c \in 1 .. m /\ ~ (c >= a)
      BY <1>2, <2>2, <3>0
    <3>2. Moved(at, n, l, c) = c /\ u[l][c] = t[l][c]
      BY <1>1, <1>3, <2>2, <3>1, SMTT(30)
    <3> QED
      BY <1>2, <2>2, <3>1, <3>2
  <2>3. CASE l = r /\ a <= c /\ c < a + n
    <3>0. c \in 1 .. m + n
      BY <1>1, <2>3
    <3>a. c \in Nat /\ n \in Nat /\ a \in Nat /\ a <= c /\ c < a + n
      BY <1>2, <2>3, <3>0
    <3>1. c - a + 1 \in 1 .. n /\ a - 1 + (c - a + 1) = c
      BY <3>a
    <3>2. u[l][c] = tokens[c - a + 1]
      BY <1>1, <2>3, <3>1
    <3> QED
      BY <1>2, <3>1, <3>2
  <2>4. CASE l = r /\ c >= a + n
    <3>0. c \in 1 .. m + n
      BY <1>1, <2>4
    <3>a. c \in Nat /\ n \in Nat /\ a \in Nat /\ m \in Nat /\ 0 < a /\ a + n <= c /\ c <= m + n
      BY <1>2, <2>4, <3>0
    <3>1. c - n \in a .. m /\ (c - n) + n = c /\ c - n \in 1 .. m /\ c - n >= a
      BY <3>a
    <3>2. u[l][c] = t[l][c - n] /\ Moved(at, n, l, c - n) = c
      BY <1>1, <1>3, <2>4, <3>1
    <3> QED
      BY <1>2, <2>4, <3>1, <3>2
  <2>5. l = r => c \in 1 .. m + n
    BY <1>1
  <2> QED
    BY <1>2, <2>1, <2>2, <2>3, <2>4, <2>5
<1>5. ASSUME NEW l \in DOMAIN t, NEW d \in DOMAIN t[l]
      PROVE  Moved(at, n, l, d) \in DOMAIN u[l] /\ u[l][Moved(at, n, l, d)] = t[l][d]
  <2>1. CASE l # r
    BY <1>1, <1>3, <2>1, SMTT(30)
  <2>2. CASE l = r /\ ~ (d >= a)
    <3>0. d \in 1 .. m
      BY <1>2, <2>2
    <3>1. d \in 1 .. a - 1 /\ d \in 1 .. m + n
      BY <1>2, <2>2, <3>0
    <3> QED
      BY <1>1, <1>3, <2>2, <3>1
  <2>3. CASE l = r /\ d >= a
    <3>0. d \in 1 .. m
      BY <1>2, <2>3
    <3>1. d \in a .. m /\ d + n \in 1 .. m + n
      BY <1>2, <2>3, <3>0
    <3> QED
      BY <1>1, <1>3, <2>3, <3>1
  <2> QED
    BY <2>1, <2>2, <2>3
<1> QED
  BY <1>4, <1>5 DEF n, TokensMoved

\* A token behind the replaced range, in its last line.
Shifted(from, to, l, c) ==
  IF l = to[1] /\ c >= to[2] THEN HeadLen(from, to) + 2 + (c - to[2]) ELSE c

Outside(from, to, l, c) == Lt(l, c, from[1], from[2]) \/ ~ Lt(l, c, to[1], to[2])

TokensShifted(t, from, to, token, u) ==
  /\ \A l \in DOMAIN u : \A c \in DOMAIN u[l] :
       \/ u[l][c] = token /\ l = to[1] /\ c = HeadLen(from, to) + 1
       \/ \E d \in DOMAIN t[l] : /\ u[l][c] = t[l][d] /\ c = Shifted(from, to, l, d)
                                 /\ Outside(from, to, l, d)
  /\ \A l \in DOMAIN t : \A d \in DOMAIN t[l] :
       Outside(from, to, l, d) => /\ Shifted(from, to, l, d) \in DOMAIN u[l]
                                  /\ u[l][Shifted(from, to, l, d)] = t[l][d]

LEMMA ReplaceTokens ==
  ASSUME NEW S, NEW t \in Seq(Seq(S)), NEW from, NEW to, NEW token \in S,
         from[1] \in DOMAIN t, from[2] \in Nat \ {0}, from[2] <= Len(t[from[1]]) + 1,
         to[1] \in DOMAIN t, to[2] \in Nat \ {0}, to[2] <= Len(t[to[1]]) + 1,
         Leq(from, to), NEW u, u = Replace(t, from, to, token)
  PROVE  TokensShifted(t, from, to, token, u)
<1> DEFINE h == HeadLen(from, to)
           fl == from[1]
           fc == from[2]
           tl == to[1]
           tc == to[2]
           m == Len(t[to[1]])
<1>1. /\ u \in Seq(Seq(S)) /\ DOMAIN u = DOMAIN t
      /\ \A l \in DOMAIN t : l < fl \/ l > tl => u[l] = t[l]
      /\ \A l \in DOMAIN t : fl < l /\ l < tl => u[l] = << >>
      /\ \A c \in 1 .. fc - 1 : c \in DOMAIN u[fl] /\ u[fl][c] = t[fl][c]
      /\ fl < tl => DOMAIN u[fl] = 1 .. fc - 1
      /\ DOMAIN u[tl] = 1 .. h + 1 + (m + 1 - tc)
      /\ u[tl][h + 1] = token
      /\ \A c \in tc .. m : u[tl][h + 2 + (c - tc)] = t[tl][c]
  <2>1. IsReplaced(S, t, from, to, token, u)
    BY ReplaceIs
  <2> QED
    BY <2>1 DEF IsReplaced
<1>2. /\ DOMAIN t \subseteq Nat /\ fl \in DOMAIN t /\ tl \in DOMAIN t
      /\ m \in Nat /\ DOMAIN t[tl] = 1 .. m
      /\ fc - 1 <= Len(t[fl]) /\ Len(t[fl]) \in Nat /\ DOMAIN t[fl] = 1 .. Len(t[fl])
  <2>1. DOMAIN t \subseteq Nat /\ \A n \in DOMAIN t : t[n] \in Seq(S)
    OBVIOUS
  <2> QED
    BY <2>1, SMTT(30)
<1>3. /\ fc \in Nat /\ 0 < fc /\ tc \in Nat /\ 0 < tc /\ tc <= m + 1
      /\ (fl < tl \/ (fl = tl /\ fc <= tc))
      /\ h = IF fl = tl THEN fc - 1 ELSE 0
  BY SMTT(30) DEF Leq, HeadLen
<1>4. /\ \A l, d : Shifted(from, to, l, d) = IF l = tl /\ d >= tc THEN h + 2 + (d - tc) ELSE d
      /\ \A l, d : Outside(from, to, l, d) <=> \/ l < fl \/ (l = fl /\ d < fc)
                                               \/ ~ (l < tl \/ (l = tl /\ d < tc))
  BY DEF Shifted, Outside, Lt
<1>5. \A l \in DOMAIN t : DOMAIN t[l] \subseteq Nat \ {0} /\ DOMAIN u[l] \subseteq Nat \ {0}
  <2> SUFFICES ASSUME NEW l \in DOMAIN t
               PROVE  DOMAIN t[l] \subseteq Nat \ {0} /\ DOMAIN u[l] \subseteq Nat \ {0}
    OBVIOUS
  <2>1. t[l] \in Seq(S)
    OBVIOUS
  <2>2. u[l] \in Seq(S)
    BY <1>1
  <2> QED
    BY <2>1, <2>2, Places
<1> HIDE DEF h, fl, fc, tl, tc, m
<1>6. ASSUME NEW l \in DOMAIN u, NEW c \in DOMAIN u[l]
      PROVE  \/ u[l][c] = token /\ l = tl /\ c = h + 1
             \/ \E d \in DOMAIN t[l] : /\ u[l][c] = t[l][d] /\ c = Shifted(from, to, l, d)
                                       /\ Outside(from, to, l, d)
  <2>0. l \in Nat /\ c \in Nat /\ 1 <= c /\ l \in DOMAIN t /\ fl \in Nat /\ tl \in Nat
    BY <1>1, <1>2, <1>5
  <2>1. CASE l < fl \/ l > tl
    <3>1. u[l] = t[l] /\ l # tl
      BY <1>1, <1>3, <2>0, <2>1, SMTT(30)
    <3>2. Shifted(from, to, l, c) = c
      BY <1>4, <3>1
    <3>3. l < fl \/ ~ (l < tl \/ (l = tl /\ c < tc))
      BY <1>3, <2>0, <2>1, SMTT(30)
    <3>4. Outside(from, to, l, c)
      BY <1>4, <3>3
    <3> QED
      BY <3>1, <3>2, <3>4
  <2>2. CASE fl < l /\ l < tl
    <3>1. u[l] = << >>
      BY <1>1, <2>0, <2>2
    <3> QED
      BY <3>1
  <2>3. CASE l = fl /\ c < fc
    <3>0. c \in 1 .. fc - 1 /\ c <= Len(t[fl])
      BY <1>2, <1>3, <2>0, <2>3, SMTT(30)
    <3>1. c \in 1 .. fc - 1 /\ c \in DOMAIN t[l]
      BY <1>2, <2>0, <2>3, <3>0
    <3>2. u[l][c] = t[l][c]
      BY <1>1, <2>3, <3>1
    <3>3. Shifted(from, to, l, c) = c /\ Outside(from, to, l, c)
      BY <1>3, <1>4, <2>0, <2>3, SMTT(30)
    <3> QED
      BY <3>1, <3>2, <3>3
  <2>4. CASE l = tl /\ (fl < tl \/ c >= fc)
    <3>1. c \in 1 .. h + 1 + (m + 1 - tc) /\ h \in Nat
      BY <1>1, <1>3, <2>4
    <3>2. c >= h + 1
      BY <1>3, <2>0, <2>4, <3>1
    <3>3. CASE c = h + 1
      BY <1>1, <2>4, <3>3
    <3>4. CASE c # h + 1
      <4> DEFINE d == tc + (c - (h + 2))
      <4>0. /\ m \in Nat /\ tc \in Nat /\ 0 < tc /\ tc <= m + 1 /\ h \in Nat /\ c \in Nat
            /\ c >= h + 1 /\ c # h + 1 /\ c <= h + 1 + (m + 1 - tc)
        BY <1>2, <1>3, <2>0, <3>1, <3>2, <3>4, SMTT(30)
      <4>1. d \in tc .. m /\ d \in 1 .. m /\ h + 2 + (d - tc) = c /\ d >= tc /\ d \in Nat
        BY <4>0
      <4> HIDE DEF d
      <4>2. u[l][c] = t[l][d]
        BY <1>1, <2>4, <4>1
      <4>3. Shifted(from, to, l, d) = c
        BY <1>4, <2>4, <4>1
      <4>4. Outside(from, to, l, d)
        BY <1>3, <1>4, <2>0, <2>4, <4>1, SMTT(30)
      <4>5. d \in DOMAIN t[l]
        BY <1>2, <2>4, <4>1
      <4> QED
        BY <4>2, <4>3, <4>4, <4>5
    <3> QED
      BY <3>3, <3>4
  <2>5. CASE l = fl /\ fl < tl /\ c >= fc
    <3>1. c \in 1 .. fc - 1
      BY <1>1, <2>5
    <3> QED
      BY <1>3, <2>0, <2>5, <3>1
  <2> QED
    BY <1>3, <2>0, <2>1, <2>2, <2>3, <2>4, <2>5, SMTT(30)
<1>7. ASSUME NEW l \in DOMAIN t, NEW d \in DOMAIN t[l], Outside(from, to, l, d)
      PROVE  /\ Shifted(from, to, l, d) \in DOMAIN u[l]
             /\ u[l][Shifted(from, to, l, d)] = t[l][d]
  <2>0. l \in Nat /\ d \in Nat /\ fl \in Nat /\ tl \in Nat
    BY <1>2, <1>5
  <2>1. CASE l < fl \/ l > tl
    <3>1. l # tl /\ u[l] = t[l]
      BY <1>1, <1>3, <2>0, <2>1, SMTT(30)
    <3> QED
      BY <1>4, <3>1
  <2>2. CASE l = fl /\ d < fc
    <3>1. d \in 1 .. Len(t[fl])
      BY <1>2, <2>2
    <3>2. d \in 1 .. fc - 1
      BY <1>2, <1>3, <2>0, <2>2, <3>1
    <3>3. ~ (l = tl /\ d >= tc)
      BY <1>3, <2>0, <2>2
    <3>4. Shifted(from, to, l, d) = d
      BY <1>4, <3>3
    <3> QED
      BY <1>1, <2>2, <3>2, <3>4
  <2>3. CASE l = tl /\ d >= tc
    <3>1. d \in tc .. m /\ d \in 1 .. m /\ h \in Nat
      BY <1>2, <1>3, <2>0, <2>3
    <3>2. h + 2 + (d - tc) \in 1 .. h + 1 + (m + 1 - tc)
      BY <1>2, <1>3, <2>3, <3>1
    <3>3. Shifted(from, to, l, d) = h + 2 + (d - tc)
      BY <1>4, <2>3
    <3> QED
      BY <1>1, <2>3, <3>1, <3>2, <3>3
  <2> QED
    BY <1>3, <1>4, <1>7, <2>0, <2>1, <2>2, <2>3, SMTT(30)
<1> QED
  BY <1>6, <1>7 DEF h, tl, TokensShifted

-----------------------------------------------------------------------------
(* Guards and declarations in a text.                                      *)

\* The guards in text t are of the first count numbers, and each has its
\* declaration before it, or its declaration is due (among due) to be put at
\* one of the marks, none of which is behind it.
Declared(t, n, l, c) ==
  \E k \in DOMAIN t : \E d \in DOMAIN t[k] : Lt(k, d, l, c) /\ t[k][d] = DeclOf[n]
Due(marks, due, n, l, c) ==
  DeclOf[n] \in Range(due) /\ \A q \in marks : ~ Lt(l, c, q[1], q[2])
InOrder(t, marks, due, count) ==
  \A n \in DOMAIN GuardName : \A l \in DOMAIN t : \A c \in DOMAIN t[l] :
    t[l][c] = GuardName[n] =>
      n <= count /\ (Declared(t, n, l, c) \/ Due(marks, due, n, l, c))

Positions(marks) == \A q \in marks : q[1] \in Nat /\ q[2] \in Nat

LEMMA MovedInOrder ==
  ASSUME NEW at, at[1] \in Nat, at[2] \in Nat, NEW n \in Nat, NEW l \in Nat, NEW c \in Nat
  PROVE  /\ \A k, d \in Nat : Lt(k, d, l, c) => Lt(k, Moved(at, n, k, d), l, Moved(at, n, l, c))
         /\ \A q : q[1] \in Nat /\ q[2] \in Nat /\ ~ Lt(l, c, q[1], q[2])
                     => ~ Lt(l, Moved(at, n, l, c), q[1], q[2])
         /\ Moved(at, n, l, c) \in Nat
  BY DEF Moved, Lt

\* A text without guards is inserted.
LEMMA InsertKeepsOrder ==
  ASSUME NEW S, NEW t \in Seq(Seq(S)), NEW at, at[1] \in DOMAIN t, at[2] \in Nat \ {0},
         at[2] <= Len(t[at[1]]) + 1, NEW tokens \in Seq(S),
         NEW u, u = Insert(t, at, tokens),
         NEW marks, Positions(marks), NEW due, NEW count,
         InOrder(t, marks, due, count),
         \A k \in DOMAIN tokens : tokens[k] \notin Range(GuardName)
  PROVE  InOrder(u, marks, due, count)
<1> DEFINE move(l, d) == Moved(at, Len(tokens), l, d)
<1>1. /\ \A l \in DOMAIN u : \A c \in DOMAIN u[l] :
           \/ \E k \in DOMAIN tokens : u[l][c] = tokens[k]
           \/ \E d \in DOMAIN t[l] : u[l][c] = t[l][d] /\ c = move(l, d)
      /\ \A l \in DOMAIN t : \A d \in DOMAIN t[l] :
           move(l, d) \in DOMAIN u[l] /\ u[l][move(l, d)] = t[l][d]
      /\ DOMAIN u = DOMAIN t
  <2>1. IsInserted(S, t, at, tokens, u)
    BY InsertIs
  <2>2. TokensMoved(t, at, tokens, u)
    BY InsertTokens
  <2> QED
    BY <2>1, <2>2 DEF IsInserted, TokensMoved
<1>2. /\ DOMAIN t \subseteq Nat /\ \A l \in DOMAIN t : DOMAIN t[l] \subseteq Nat
      /\ at[1] \in Nat /\ at[2] \in Nat /\ Len(tokens) \in Nat
  <2>1. DOMAIN t \subseteq Nat \ {0} /\ Len(tokens) \in Nat
    BY Places
  <2>2. ASSUME NEW l \in DOMAIN t PROVE DOMAIN t[l] \subseteq Nat
    <3>1. t[l] \in Seq(S)
      OBVIOUS
    <3> QED
      BY <3>1, Places
  <2> QED
    BY <2>1, <2>2
<1> SUFFICES ASSUME NEW n \in DOMAIN GuardName, NEW l \in DOMAIN u, NEW c \in DOMAIN u[l],
                    u[l][c] = GuardName[n]
             PROVE  n <= count /\ (Declared(u, n, l, c) \/ Due(marks, due, n, l, c))
  BY DEF InOrder
<1>3. GuardName[n] \in Range(GuardName)
  BY DEF Range
<1>4. PICK d \in DOMAIN t[l] : t[l][d] = GuardName[n] /\ c = move(l, d)
  <2>1. \A k \in DOMAIN tokens : u[l][c] # tokens[k]
    BY <1>3
  <2> HIDE DEF move
  <2> QED
    BY <1>1, <2>1, SMTT(30)
<1>5. n <= count /\ (Declared(t, n, l, d) \/ Due(marks, due, n, l, d))
  BY <1>1, <1>4 DEF InOrder
<1>6. l \in Nat /\ d \in Nat /\ l \in DOMAIN t
  BY <1>1, <1>2, <1>4
<1>7. ASSUME Declared(t, n, l, d) PROVE Declared(u, n, l, c)
  <2>1. PICK k \in DOMAIN t : \E e \in DOMAIN t[k] : Lt(k, e, l, d) /\ t[k][e] = DeclOf[n]
    BY <1>7 DEF Declared
  <2>2. PICK e \in DOMAIN t[k] : Lt(k, e, l, d) /\ t[k][e] = DeclOf[n]
    BY <2>1
  <2>3. k \in Nat /\ e \in Nat
    BY <1>2
  <2>4. Lt(k, move(k, e), l, c)
    BY <1>2, <1>4, <1>6, <2>2, <2>3, MovedInOrder
  <2>5. move(k, e) \in DOMAIN u[k] /\ u[k][move(k, e)] = DeclOf[n] /\ k \in DOMAIN u
    BY <1>1, <2>2
  <2> HIDE DEF move
  <2> QED
    BY <2>4, <2>5 DEF Declared
<1>8. ASSUME Due(marks, due, n, l, d) PROVE Due(marks, due, n, l, c)
  <2>1. ASSUME NEW q \in marks PROVE ~ Lt(l, c, q[1], q[2])
    <3>1. q[1] \in Nat /\ q[2] \in Nat /\ ~ Lt(l, d, q[1], q[2])
      BY <1>8 DEF Due, Positions
    <3> QED
      BY <1>2, <1>4, <1>6, <3>1, MovedInOrder
  <2> QED
    BY <1>8, <2>1 DEF Due
<1> QED
  BY <1>5, <1>7, <1>8

\* The due declarations are put at a mark: nothing is due any more.
LEMMA DeclareSettles ==
  ASSUME NEW S, NEW t \in Seq(Seq(S)), NEW at, at[1] \in DOMAIN t, at[2] \in Nat \ {0},
         at[2] <= Len(t[at[1]]) + 1, NEW due \in Seq(S), Range(due) \cap Range(GuardName) = {},
         NEW u, u = Insert(t, at, due),
         NEW marks, Positions(marks), at \in marks, NEW count, NEW later,
         InOrder(t, marks, due, count)
  PROVE  InOrder(u, later, << >>, count)
<1>1. InOrder(u, marks, due, count)
  <2>1. \A k \in DOMAIN due : due[k] \notin Range(GuardName)
    BY DEF Range
  <2> QED
    BY <2>1, InsertKeepsOrder
<1> SUFFICES ASSUME NEW n \in DOMAIN GuardName, NEW l \in DOMAIN u, NEW c \in DOMAIN u[l],
                    u[l][c] = GuardName[n]
             PROVE  n <= count /\ Declared(u, n, l, c)
  BY DEF InOrder
<1>2. n <= count /\ (Declared(u, n, l, c) \/ Due(marks, due, n, l, c))
  BY <1>1 DEF InOrder
<1>3. ASSUME Due(marks, due, n, l, c) PROVE Declared(u, n, l, c)
  <2> DEFINE a == at[2]
  <2>1. PICK j \in DOMAIN due : due[j] = DeclOf[n]
    BY <1>3 DEF Due, Range
  <2>2. /\ DOMAIN u[at[1]] = 1 .. Len(t[at[1]]) + Len(due)
        /\ \A k \in 1 .. Len(due) : u[at[1]][a - 1 + k] = due[k]
        /\ \A k \in a .. Len(t[at[1]]) : u[at[1]][k + Len(due)] = t[at[1]][k]
        /\ u \in Seq(Seq(S)) /\ DOMAIN u = DOMAIN t
    <3>1. IsInserted(S, t, at, due, u)
      BY InsertIs
    <3> QED
      BY <3>1 DEF IsInserted
  <2>3. /\ j \in 1 .. Len(due) /\ Len(due) \in Nat /\ Len(t[at[1]]) \in Nat
        /\ a \in Nat /\ 0 < a /\ a <= Len(t[at[1]]) + 1
    <3>1. t[at[1]] \in Seq(S) /\ DOMAIN due = 1 .. Len(due)
      OBVIOUS
    <3> QED
      BY <3>1
  <2>4. l \in Nat /\ c \in Nat /\ at[1] \in Nat
    <3>1. DOMAIN u \subseteq Nat \ {0} /\ u[l] \in Seq(S)
      BY <2>2, Places, SMTT(30)
    <3>2. DOMAIN u[l] \subseteq Nat \ {0}
      BY <3>1, Places
    <3> QED
      BY <2>2, <3>1, <3>2
  <2>5. ~ Lt(l, c, at[1], a)
    BY <1>3 DEF Due
  <2> HIDE DEF a
  <2>6. at[1] < l \/ (at[1] = l /\ a <= c)
    BY <2>3, <2>4, <2>5 DEF Lt
\* The guard is no token of the insertion, so it is behind all of it.
  <2>7. ASSUME at[1] = l PROVE c >= a + Len(due)
    <3> SUFFICES ASSUME c < a + Len(due) PROVE FALSE
      BY <2>3, <2>4
    <3>1. c - a + 1 \in 1 .. Len(due) /\ a - 1 + (c - a + 1) = c
      BY <2>3, <2>4, <2>6, <2>7
    <3>2. u[l][c] = due[c - a + 1]
      BY <2>2, <2>7, <3>1
    <3>3. u[l][c] \in Range(due) /\ u[l][c] \in Range(GuardName)
      <4>1. DOMAIN due = 1 .. Len(due)
        OBVIOUS
      <4> QED
        BY <3>1, <3>2, <4>1 DEF Range
    <3> QED
      BY <3>3
  <2>8. a - 1 + j \in 1 .. Len(t[at[1]]) + Len(due)
    BY <2>3, SMTT(30)
  <2>9. Lt(at[1], a - 1 + j, l, c)
    BY <2>3, <2>4, <2>6, <2>7 DEF Lt
  <2>10. u[at[1]][a - 1 + j] = DeclOf[n] /\ at[1] \in DOMAIN u
    BY <2>1, <2>2, <2>3
  <2> QED
    BY <2>2, <2>8, <2>9, <2>10 DEF Declared
<1> QED
  BY <1>2, <1>3

LEMMA ShiftedInOrder ==
  ASSUME NEW from, NEW to, from[1] \in Nat, from[2] \in Nat \ {0}, to[1] \in Nat, to[2] \in Nat,
         Leq(from, to), NEW l \in Nat, NEW c \in Nat, Outside(from, to, l, c)
  PROVE  /\ \A k, d \in Nat : Outside(from, to, k, d) /\ Lt(k, d, l, c)
                                => Lt(k, Shifted(from, to, k, d), l, Shifted(from, to, l, c))
         /\ \A q : q[1] \in Nat /\ q[2] \in Nat /\ Leq(q, from) /\ ~ Lt(l, c, q[1], q[2])
                     => ~ Lt(l, Shifted(from, to, l, c), q[1], q[2])
<1> DEFINE fl == from[1]
           fc == from[2]
           tl == to[1]
           tc == to[2]
<1>1. fl \in Nat /\ fc \in Nat /\ 0 < fc /\ tl \in Nat /\ tc \in Nat /\ (fl < tl \/ (fl = tl /\ fc <= tc))
  BY DEF Leq
<1>2. /\ \A k, d : Shifted(from, to, k, d) =
           IF k = tl /\ d >= tc THEN (IF fl = tl THEN fc - 1 ELSE 0) + 2 + (d - tc) ELSE d
      /\ \A k, d : Outside(from, to, k, d) <=> \/ k < fl \/ (k = fl /\ d < fc)
                                               \/ ~ (k < tl \/ (k = tl /\ d < tc))
      /\ \A q : Leq(q, from) <=> q[1] < fl \/ (q[1] = fl /\ q[2] <= fc)
  BY DEF Shifted, HeadLen, Outside, Lt, Leq
<1> HIDE DEF fl, fc, tl, tc
<1>3. ASSUME NEW k \in Nat, NEW d \in Nat, Outside(from, to, k, d), Lt(k, d, l, c)
      PROVE  Lt(k, Shifted(from, to, k, d), l, Shifted(from, to, l, c))
  <2>1. CASE k < l
    BY <2>1 DEF Lt
  <2>2. CASE k = l /\ d < c
    <3>1. CASE k = tl /\ d >= tc
      BY <1>1, <1>2, <2>2, <3>1 DEF Lt
    <3>2. CASE k = tl /\ d < tc /\ c >= tc
      <4>1. fl = tl /\ d < fc
        BY <1>1, <1>2, <1>3, <3>2
      <4>2. Shifted(from, to, k, d) = d /\ Shifted(from, to, l, c) = fc - 1 + 2 + (c - tc)
        BY <1>1, <1>2, <2>2, <3>2, <4>1
      <4> QED
        BY <1>1, <2>2, <3>2, <4>1, <4>2 DEF Lt
    <3>3. CASE k # tl \/ c < tc
      <4>1. Shifted(from, to, k, d) = d /\ Shifted(from, to, l, c) = c
        BY <1>1, <1>2, <2>2, <3>3
      <4> QED
        BY <2>2, <4>1 DEF Lt
    <3> QED
      BY <1>1, <3>1, <3>2, <3>3
  <2> QED
    BY <1>3, <2>1, <2>2 DEF Lt
<1>4. ASSUME NEW q, q[1] \in Nat, q[2] \in Nat, Leq(q, from), ~ Lt(l, c, q[1], q[2])
      PROVE  ~ Lt(l, Shifted(from, to, l, c), q[1], q[2])
  <2> DEFINE a == q[1]
             b == q[2]
  <2>1. a \in Nat /\ b \in Nat /\ (a < fl \/ (a = fl /\ b <= fc)) /\ ~ (l < a \/ (l = a /\ c < b))
    BY <1>2, <1>4 DEF Lt
  <2> HIDE DEF a, b
  <2>2. CASE l = tl /\ c >= tc
    <3>1. Shifted(from, to, l, c) = (IF fl = tl THEN fc - 1 ELSE 0) + 2 + (c - tc)
      BY <1>2, <2>2
    <3>2. ~ (l < a \/ (l = a /\ (IF fl = tl THEN fc - 1 ELSE 0) + 2 + (c - tc) < b))
      BY <1>1, <2>1, <2>2
    <3> QED
      BY <3>1, <3>2 DEF Lt, a, b
  <2>3. CASE ~ (l = tl /\ c >= tc)
    <3>1. Shifted(from, to, l, c) = c
      BY <1>2, <2>3
    <3> QED
      BY <1>4, <3>1
  <2> QED
    BY <2>2, <2>3
<1> QED
  BY <1>3, <1>4

Behind(marks, at) == \A q \in marks : Leq(q, at)
NoneDeclared(t, from, to) ==
  \A l \in DOMAIN t : \A c \in DOMAIN t[l] :
    ~ Outside(from, to, l, c) => \A n \in DOMAIN GuardName : t[l][c] # DeclOf[n]

\* A guard is put where no declaration is, behind every mark, and is due.
LEMMA ReplaceKeepsOrder ==
  ASSUME NEW S, NEW t \in Seq(Seq(S)), NEW from, NEW to, NEW token \in S,
         from[1] \in DOMAIN t, from[2] \in Nat \ {0}, from[2] <= Len(t[from[1]]) + 1,
         to[1] \in DOMAIN t, to[2] \in Nat \ {0}, to[2] <= Len(t[to[1]]) + 1,
         Leq(from, to), NEW u, u = Replace(t, from, to, token),
         NEW marks, Positions(marks), Behind(marks, from), NEW due, NEW more, Range(due) \subseteq Range(more),
         NEW count \in Nat, NEW count2 \in Nat, count <= count2,
         NEW m \in DOMAIN GuardName, token = GuardName[m], m <= count2, DeclOf[m] \in Range(more),
         NoneDeclared(t, from, to), InOrder(t, marks, due, count)
  PROVE  InOrder(u, marks, more, count2)
<1> DEFINE shift(l, d) == Shifted(from, to, l, d)
<1>1. /\ \A l \in DOMAIN u : \A c \in DOMAIN u[l] :
           \/ u[l][c] = token /\ l = to[1] /\ c = HeadLen(from, to) + 1
           \/ \E d \in DOMAIN t[l] : /\ u[l][c] = t[l][d] /\ c = shift(l, d)
                                     /\ Outside(from, to, l, d)
      /\ \A l \in DOMAIN t : \A d \in DOMAIN t[l] :
           Outside(from, to, l, d) => /\ shift(l, d) \in DOMAIN u[l]
                                      /\ u[l][shift(l, d)] = t[l][d]
      /\ DOMAIN u = DOMAIN t
  <2>1. IsReplaced(S, t, from, to, token, u)
    BY ReplaceIs
  <2>2. TokensShifted(t, from, to, token, u)
    BY ReplaceTokens
  <2> QED
    BY <2>1, <2>2 DEF IsReplaced, TokensShifted
<1>2. /\ DOMAIN t \subseteq Nat /\ \A l \in DOMAIN t : DOMAIN t[l] \subseteq Nat
      /\ from[1] \in Nat /\ from[2] \in Nat \ {0} /\ to[1] \in Nat /\ to[2] \in Nat
  <2>1. DOMAIN t \subseteq Nat \ {0}
    BY Places
  <2>2. ASSUME NEW l \in DOMAIN t PROVE DOMAIN t[l] \subseteq Nat
    <3>1. t[l] \in Seq(S)
      OBVIOUS
    <3> QED
      BY <3>1, Places
  <2> QED
    BY <2>1, <2>2
<1> SUFFICES ASSUME NEW n \in DOMAIN GuardName, NEW l \in DOMAIN u, NEW c \in DOMAIN u[l],
                    u[l][c] = GuardName[n]
             PROVE  n <= count2 /\ (Declared(u, n, l, c) \/ Due(marks, more, n, l, c))
  BY DEF InOrder
<1>3. CASE l = to[1] /\ c = HeadLen(from, to) + 1 /\ u[l][c] = token
  <2>1. n = m
    BY <1>3, GuardNamesAssumption
  <2>2. ASSUME NEW q \in marks PROVE ~ Lt(l, c, q[1], q[2])
    <3> DEFINE a == q[1]
               b == q[2]
               fl == from[1]
               fc == from[2]
               tl == to[1]
    <3>1. a \in Nat /\ b \in Nat /\ (a < fl \/ (a = fl /\ b <= fc)) /\ fl \in Nat /\ fc \in Nat /\ 0 < fc
          /\ tl \in Nat /\ fl <= tl /\ l = tl /\ c = (IF fl = tl THEN fc - 1 ELSE 0) + 1
      BY <1>2, <1>3, SMTT(30) DEF Positions, Behind, Leq, HeadLen
    <3> HIDE DEF a, b, fl, fc, tl
    <3>2. ~ (l < a \/ (l = a /\ c < b))
      BY <3>1
    <3> QED
      BY <3>2 DEF Lt, a, b
  <2> QED
    BY <2>1, <2>2 DEF Due
<1>4. CASE \E d \in DOMAIN t[l] : u[l][c] = t[l][d] /\ c = shift(l, d) /\ Outside(from, to, l, d)
  <2>1. PICK d \in DOMAIN t[l] : t[l][d] = GuardName[n] /\ c = shift(l, d) /\ Outside(from, to, l, d)
    BY <1>4
  <2>2. n <= count /\ (Declared(t, n, l, d) \/ Due(marks, due, n, l, d))
    BY <1>1, <2>1 DEF InOrder
  <2>3. l \in Nat /\ d \in Nat /\ l \in DOMAIN t
    BY <1>1, <1>2, <2>1
  <2>4. n <= count2
    <3>1. n \in Nat
      <4>1. GuardName \in Seq(Range(GuardName))
        BY GuardNamesAssumption
      <4> QED
        BY <4>1, Places
    <3> QED
      BY <2>2, <3>1
  <2>5. ASSUME Declared(t, n, l, d) PROVE Declared(u, n, l, c)
    <3>1. PICK k \in DOMAIN t : \E e \in DOMAIN t[k] : Lt(k, e, l, d) /\ t[k][e] = DeclOf[n]
      BY <2>5 DEF Declared
    <3>2. PICK e \in DOMAIN t[k] : Lt(k, e, l, d) /\ t[k][e] = DeclOf[n]
      BY <3>1
    <3>3. k \in Nat /\ e \in Nat /\ Outside(from, to, k, e)
      BY <1>2, <3>1, <3>2 DEF NoneDeclared
    <3>4. Lt(k, shift(k, e), l, c)
      BY <1>2, <2>1, <2>3, <3>2, <3>3, ShiftedInOrder
    <3>5. shift(k, e) \in DOMAIN u[k] /\ u[k][shift(k, e)] = DeclOf[n] /\ k \in DOMAIN u
      BY <1>1, <3>2, <3>3
    <3> HIDE DEF shift
    <3> QED
      BY <3>4, <3>5 DEF Declared
  <2>6. ASSUME Due(marks, due, n, l, d) PROVE Due(marks, more, n, l, c)
    <3>1. ASSUME NEW q \in marks PROVE ~ Lt(l, c, q[1], q[2])
      <4>1. q[1] \in Nat /\ q[2] \in Nat /\ ~ Lt(l, d, q[1], q[2]) /\ Leq(q, from)
        BY <2>6 DEF Due, Positions, Behind
      <4> QED
        BY <1>2, <2>1, <2>3, <4>1, ShiftedInOrder
    <3> QED
      BY <2>6, <3>1 DEF Due
  <2> QED
    BY <2>2, <2>4, <2>5, <2>6
<1> QED
  BY <1>1, <1>3, <1>4

\* Up to position q a text is what was parsed.
Pristine(base, t, q) ==
  /\ \A l \in DOMAIN base : l < q[1] => t[l] = base[l]
  /\ q[2] <= Len(t[q[1]]) + 1
  /\ \A c \in 1 .. q[2] - 1 : t[q[1]][c] = base[q[1]][c]

LEMMA PristineDown ==
  ASSUME NEW S, NEW base \in Seq(Seq(S)), NEW t, NEW q, NEW p,
         p[1] \in DOMAIN base, p[2] \in 1 .. Len(base[p[1]]) + 1,
         q[1] \in DOMAIN base, q[2] \in Nat, Leq(p, q), Pristine(base, t, q)
  PROVE  Pristine(base, t, p)
<1> DEFINE pl == p[1]
           pc == p[2]
           ql == q[1]
           qc == q[2]
<1>1. /\ DOMAIN base \subseteq Nat /\ pl \in DOMAIN base /\ pc \in Nat /\ pc <= Len(base[pl]) + 1
      /\ ql \in DOMAIN base /\ qc \in Nat /\ (pl < ql \/ (pl = ql /\ pc <= qc))
  <2>1. DOMAIN base \subseteq Nat \ {0} /\ Len(base[pl]) \in Nat
    BY Places
  <2> QED
    BY <2>1 DEF Leq
<1>2. /\ \A l \in DOMAIN base : l < ql => t[l] = base[l]
      /\ qc <= Len(t[ql]) + 1
      /\ \A c \in 1 .. qc - 1 : t[ql][c] = base[ql][c]
  BY DEF Pristine
<1> HIDE DEF pl, pc, ql, qc
<1>3. \A l \in DOMAIN base : l < pl => t[l] = base[l]
  <2> SUFFICES ASSUME NEW l \in DOMAIN base, l < pl PROVE t[l] = base[l]
    OBVIOUS
  <2>1. l \in Nat /\ pl \in Nat /\ ql \in Nat
    BY <1>1
  <2>2. pl < ql \/ pl = ql
    BY <1>1
  <2>3. l < ql
    BY <2>1, <2>2
  <2> QED
    BY <1>2, <2>3
<1>4. CASE pl < ql
  <2>1. t[pl] = base[pl]
    BY <1>1, <1>2, <1>4
  <2> QED
    BY <1>1, <1>3, <2>1 DEF Pristine, pl, pc
<1>5. CASE pl = ql /\ pc <= qc
  <2>0. Len(t[ql]) \in Nat \/ Len(t[ql]) \notin Nat
    OBVIOUS
  <2>1. \A c \in 1 .. pc - 1 : c \in 1 .. qc - 1
    BY <1>1, <1>5
  <2>2. \A c \in 1 .. pc - 1 : t[pl][c] = base[pl][c]
    BY <1>2, <1>5, <2>1
  <2>3. pc <= Len(t[pl]) + 1
    BY <1>1, <1>2, <1>5
  <2> QED
    BY <1>3, <2>2, <2>3 DEF Pristine, pl, pc
<1> QED
  BY <1>1, <1>4, <1>5

LEMMA InsertPristine ==
  ASSUME NEW S, NEW t \in Seq(Seq(S)), NEW at, at[1] \in DOMAIN t, at[2] \in Nat \ {0},
         at[2] <= Len(t[at[1]]) + 1, NEW tokens \in Seq(S), NEW u, u = Insert(t, at, tokens),
         NEW base, DOMAIN base = DOMAIN t, NEW q, q[1] \in DOMAIN t, q[2] \in Nat,
         Leq(q, at), Pristine(base, t, q)
  PROVE  Pristine(base, u, q)
<1> DEFINE r == at[1]
           a == at[2]
           ql == q[1]
           qc == q[2]
           m == Len(t[at[1]])
           n == Len(tokens)
<1>1. /\ u \in Seq(Seq(S)) /\ DOMAIN u = DOMAIN t
      /\ \A l \in DOMAIN t : l # r => u[l] = t[l]
      /\ DOMAIN u[r] = 1 .. m + n
      /\ \A c \in 1 .. a - 1 : u[r][c] = t[r][c]
  <2>1. IsInserted(S, t, at, tokens, u)
    BY InsertIs
  <2> QED
    BY <2>1 DEF IsInserted
<1>2. /\ DOMAIN t \subseteq Nat /\ r \in DOMAIN t /\ a \in Nat /\ 0 < a /\ a <= m + 1
      /\ ql \in DOMAIN t /\ qc \in Nat /\ (ql < r \/ (ql = r /\ qc <= a)) /\ m \in Nat /\ n \in Nat
  <2>1. DOMAIN t \subseteq Nat \ {0} /\ Len(t[r]) \in Nat
    BY Places
  <2> QED
    BY <2>1, SMTT(30) DEF Leq
<1>3. /\ \A l \in DOMAIN t : l < ql => t[l] = base[l]
      /\ qc <= Len(t[ql]) + 1
      /\ \A c \in 1 .. qc - 1 : t[ql][c] = base[ql][c]
  BY DEF Pristine
<1>4. Len(u[r]) = m + n
  <2>1. u[r] \in Seq(S)
    BY <1>1
  <2> HIDE DEF m, n, r
  <2>2. DOMAIN u[r] = 1 .. Len(u[r]) /\ Len(u[r]) \in Nat
    BY <2>1
  <2>3. \A x, y \in Nat : 1 .. x = 1 .. y => x = y
    <3> SUFFICES ASSUME NEW x \in Nat, NEW y \in Nat, 1 .. x = 1 .. y PROVE x = y
      OBVIOUS
    <3>1. (x = 0 \/ x \in 1 .. y) /\ (y = 0 \/ y \in 1 .. x)
      BY SMT
    <3>2. (x # 0 => 1 \in 1 .. y) /\ (y # 0 => 1 \in 1 .. x)
      BY SMT
    <3> QED
      BY <3>1, <3>2
  <2>4. m + n \in Nat
    BY <1>2
  <2> QED
    BY <1>1, <2>2, <2>3, <2>4
<1> HIDE DEF r, a, ql, qc, m, n
<1>5. \A l \in DOMAIN t : l < ql => u[l] = base[l]
  <2> SUFFICES ASSUME NEW l \in DOMAIN t, l < ql PROVE u[l] = base[l]
    OBVIOUS
  <2>1. l \in Nat /\ ql \in Nat /\ r \in Nat
    BY <1>2
  <2>2. l # r
    BY <1>2, <2>1
  <2> QED
    BY <1>1, <1>3, <2>2
<1>6. CASE ql < r
  <2>1. u[ql] = t[ql]
    BY <1>1, <1>2, <1>6
  <2> QED
    BY <1>3, <1>5, <2>1 DEF Pristine, ql, qc
<1>7. CASE ql = r /\ qc <= a
  <2>1. \A c \in 1 .. qc - 1 : c \in 1 .. a - 1
    BY <1>2, <1>7
  <2>2. \A c \in 1 .. qc - 1 : u[ql][c] = base[ql][c]
    BY <1>1, <1>3, <1>7, <2>1
  <2>3. qc <= Len(u[ql]) + 1
    BY <1>2, <1>4, <1>7, SMTT(30)
  <2> QED
    BY <1>5, <2>2, <2>3 DEF Pristine, ql, qc
<1> QED
  BY <1>2, <1>6, <1>7

LEMMA ReplacePristine ==
  ASSUME NEW S, NEW t \in Seq(Seq(S)), NEW from, NEW to, NEW token \in S,
         from[1] \in DOMAIN t, from[2] \in Nat \ {0}, from[2] <= Len(t[from[1]]) + 1,
         to[1] \in DOMAIN t, to[2] \in Nat \ {0}, to[2] <= Len(t[to[1]]) + 1,
         Leq(from, to), NEW u, u = Replace(t, from, to, token),
         NEW base, DOMAIN base = DOMAIN t, NEW q, q[1] \in DOMAIN t, q[2] \in Nat,
         Leq(q, from), Pristine(base, t, q)
  PROVE  Pristine(base, u, q)
<1> DEFINE fl == from[1]
           fc == from[2]
           ql == q[1]
           qc == q[2]
<1>1. /\ u \in Seq(Seq(S)) /\ DOMAIN u = DOMAIN t
      /\ \A l \in DOMAIN t : l < fl \/ l > to[1] => u[l] = t[l]
      /\ \A c \in 1 .. fc - 1 : c \in DOMAIN u[fl] /\ u[fl][c] = t[fl][c]
  <2>1. IsReplaced(S, t, from, to, token, u)
    BY ReplaceIs
  <2> QED
    BY <2>1 DEF IsReplaced
<1>2. /\ DOMAIN t \subseteq Nat /\ fl \in DOMAIN t /\ fc \in Nat /\ 0 < fc
      /\ ql \in DOMAIN t /\ qc \in Nat /\ (ql < fl \/ (ql = fl /\ qc <= fc))
  <2>1. DOMAIN t \subseteq Nat \ {0}
    BY Places
  <2> QED
    BY <2>1, SMTT(30) DEF Leq
<1>3. /\ \A l \in DOMAIN t : l < ql => t[l] = base[l]
      /\ qc <= Len(t[ql]) + 1
      /\ \A c \in 1 .. qc - 1 : t[ql][c] = base[ql][c]
  BY DEF Pristine
<1> HIDE DEF fl, fc, ql, qc
<1>5. \A l \in DOMAIN t : l < ql => u[l] = base[l]
  <2> SUFFICES ASSUME NEW l \in DOMAIN t, l < ql PROVE u[l] = base[l]
    OBVIOUS
  <2>1. l \in Nat /\ ql \in Nat /\ fl \in Nat
    BY <1>2
  <2>2. ql < fl \/ ql = fl
    BY <1>2
  <2>3. l < fl
    BY <2>1, <2>2
  <2> QED
    BY <1>1, <1>3, <2>3
<1>6. CASE ql < fl
  <2>1. u[ql] = t[ql]
    BY <1>1, <1>2, <1>6
  <2> QED
    BY <1>3, <1>5, <2>1 DEF Pristine, ql, qc
<1>7. CASE ql = fl /\ qc <= fc
  <2>1. \A c \in 1 .. qc - 1 : c \in 1 .. fc - 1
    BY <1>2, <1>7
  <2>2. \A c \in 1 .. qc - 1 : u[ql][c] = base[ql][c]
    BY <1>1, <1>3, <1>7, <2>1
  <2>3. qc <= Len(u[ql]) + 1
    <3>0. u[fl] \in Seq(S)
      BY <1>1, <1>2
    <3>1. u[fl] \in Seq(S) /\ Len(u[fl]) \in Nat
      BY <3>0, SMTT(30)
    <3>2. \A c \in 1 .. fc - 1 : c \in 1 .. Len(u[fl])
      <4>1. DOMAIN u[fl] = 1 .. Len(u[fl])
        BY <3>1
      <4> QED
        BY <1>1, <4>1
    <3>4. fc = 1 \/ fc - 1 \in 1 .. fc - 1
      <4>1. fc \in Nat /\ 0 < fc
        BY <1>2
      <4> QED
        BY <4>1
    <3>3. fc = 1 \/ fc - 1 \in 1 .. Len(u[fl])
      BY <3>2, <3>4
    <3> QED
      BY <1>2, <1>7, <3>1, <3>3
  <2> QED
    BY <1>5, <2>2, <2>3 DEF Pristine, ql, qc
<1> QED
  BY <1>2, <1>6, <1>7

\* Up to there it has the parsed text's tokens only.
LEMMA PristineTokens ==
  ASSUME NEW S, NEW base \in Seq(Seq(S)), NEW t, DOMAIN t = DOMAIN base, NEW q, q[1] \in DOMAIN base,
         q[2] \in 1 .. Len(base[q[1]]) + 1, Pristine(base, t, q),
         NEW l \in DOMAIN t, NEW c \in DOMAIN t[l], NEW T, t[l] \in Seq(T), Lt(l, c, q[1], q[2])
  PROVE  t[l][c] \in UNION {Range(base[k]) : k \in DOMAIN base}
<1>1. /\ \A k \in DOMAIN base : k < q[1] => t[k] = base[k]
      /\ \A d \in 1 .. q[2] - 1 : t[q[1]][d] = base[q[1]][d]
  BY DEF Pristine
<1>2. CASE l < q[1]
  <2>1. t[l][c] \in Range(base[l])
    BY <1>1, <1>2 DEF Range
  <2> QED
    BY <2>1
<1>3. CASE l = q[1] /\ c < q[2]
  <2>1. c \in Nat \ {0} /\ base[l] \in Seq(S)
    BY Places
  <2>2. q[2] \in Nat /\ q[2] <= Len(base[l]) + 1 /\ Len(base[l]) \in Nat /\ DOMAIN base[l] = 1 .. Len(base[l])
    BY <1>3, <2>1
  <2>3. c \in 1 .. q[2] - 1 /\ c \in DOMAIN base[l]
    BY <1>3, <2>1, <2>2
  <2>4. t[l][c] \in Range(base[l])
    BY <1>1, <1>3, <2>3 DEF Range
  <2> QED
    BY <2>4
<1> QED
  BY <1>2, <1>3 DEF Lt

\* If x has a y before it in the lines, it has in the lines put together.
Precedes(y, x, ss) ==
  \A l \in DOMAIN ss : \A c \in DOMAIN ss[l] : ss[l][c] = x =>
    \E k \in DOMAIN ss : \E d \in DOMAIN ss[k] : Lt(k, d, l, c) /\ ss[k][d] = y

LEMMA FlattenOrder ==
  ASSUME NEW S, NEW ss \in Seq(Seq(S)), NEW x, NEW y, Precedes(y, x, ss)
  PROVE  \A p \in DOMAIN FlattenSeq(ss) : FlattenSeq(ss)[p] = x =>
           \E q \in 1 .. p - 1 : FlattenSeq(ss)[q] = y
<1>1. Len(ss) \in Nat /\ DOMAIN ss = 1 .. Len(ss) /\ \A k \in 1 .. Len(ss) : ss[k] \in Seq(S)
  OBVIOUS
<1>2. CASE Len(ss) = 0
  <2>1. ss = << >> /\ DOMAIN << >> = {}
    BY <1>2
  <2> QED
    BY <2>1, FlattenEmpty
<1>3. CASE Len(ss) # 0
  <2>1. PICK f : Joins(ss, f, Len(ss))
    BY <1>1, JoinsExists
  <2> DEFINE Good(n) == \A p \in DOMAIN f[n] : f[n][p] = x => \E q \in 1 .. p - 1 : f[n][q] = y
             T == {n \in 1 .. Len(ss) : ~ Good(n)}
  <2>2. T = {}
    <3> SUFFICES ASSUME T # {} PROVE FALSE
      OBVIOUS
    <3>1. PICK m \in T : \A k \in T : m <= k
      <4> T \subseteq Nat
        BY <1>1
      <4> HIDE DEF T
      <4> QED
        BY LeastNatural
    <3>2. m \in 1 .. Len(ss) /\ ~ Good(m) /\ (m # 1 => m - 1 \in 1 .. Len(ss) /\ Good(m - 1))
      <4> HIDE DEF Good
      <4>1. m \in 1 .. Len(ss) /\ ~ Good(m)
        BY <3>1
      <4>2. m # 1 => m - 1 \in 1 .. Len(ss) /\ ~ (m <= m - 1)
        BY <4>1, <1>1
      <4>3. m # 1 => m - 1 \notin T
        BY <3>1, <4>2
      <4> QED
        BY <4>1, <4>2, <4>3
    <3>3. f[m] = IF m = 1 THEN ss[m] ELSE f[m - 1] \o ss[m]
      BY <2>1, <3>2 DEF Joins
    <3>4. m \in Nat /\ ss[m] \in Seq(S) /\ DOMAIN ss[m] \subseteq Nat \ {0}
      BY <1>1, <3>2, Places
    <3>5. CASE m = 1
      <4>1. ASSUME NEW p \in DOMAIN ss[m], ss[m][p] = x PROVE \E q \in 1 .. p - 1 : ss[m][q] = y
        <5>0. m \in DOMAIN ss
          BY <1>1, <3>2
        <5>1. PICK k \in DOMAIN ss : \E d \in DOMAIN ss[k] : Lt(k, d, m, p) /\ ss[k][d] = y
          BY <4>1, <5>0 DEF Precedes
        <5>2. PICK d \in DOMAIN ss[k] : Lt(k, d, m, p) /\ ss[k][d] = y
          BY <5>1
        <5>3. k \in Nat /\ k >= 1 /\ d \in Nat \ {0} /\ p \in Nat
          BY <1>1, <3>4, <5>2, Places
        <5>4. k = m /\ d < p
          BY <3>5, <5>2, <5>3 DEF Lt
        <5> QED
          BY <5>2, <5>3, <5>4
      <4> QED
        BY <3>2, <3>3, <3>5, <4>1
    <3>6. CASE m # 1
      <4> DEFINE a == f[m - 1]
                 b == ss[m]
      <4>1. a \in Seq(S) /\ Range(a) = UNION {Range(ss[k]) : k \in 1 .. m - 1} /\ b \in Seq(S) /\ f[m] = a \o b
        <5>1. Collects(S, ss, f, m - 1)
          BY <2>1, <3>2, <3>6, JoinsElements
        <5> QED
          BY <3>3, <3>4, <3>6, <5>1 DEF Collects
      <4>2. \A p \in DOMAIN a : a[p] = x => \E q \in 1 .. p - 1 : a[q] = y
        BY <3>2, <3>6
      <4>3. b = ss[m]
        OBVIOUS
      <4> HIDE DEF a, b
      <4>4. /\ a \o b \in Seq(S) /\ Len(a \o b) = Len(a) + Len(b)
            /\ \A k \in 1 .. Len(a) : (a \o b)[k] = a[k]
            /\ \A k \in 1 .. Len(b) : (a \o b)[Len(a) + k] = b[k]
        BY <4>1, Pair, SMTT(30)
      <4>5. /\ Len(a) \in Nat /\ Len(b) \in Nat /\ DOMAIN a = 1 .. Len(a) /\ DOMAIN b = 1 .. Len(b)
            /\ DOMAIN (a \o b) = 1 .. Len(a) + Len(b)
        BY <4>1, <4>4
      <4>6. ASSUME NEW p \in DOMAIN f[m], f[m][p] = x PROVE \E q \in 1 .. p - 1 : f[m][q] = y
        <5>0. p \in Nat /\ 1 <= p /\ p <= Len(a) + Len(b) /\ (a \o b)[p] = x
          BY <4>1, <4>5, <4>6
        <5>1. CASE p <= Len(a)
          <6>1. p \in 1 .. Len(a)
            BY <4>5, <5>0, <5>1
          <6>2. PICK q \in 1 .. p - 1 : a[q] = y
            BY <4>2, <4>4, <4>5, <5>0, <6>1
          <6>3. q \in 1 .. Len(a)
            BY <4>5, <6>1
          <6> QED
            BY <4>1, <4>4, <6>2, <6>3
        <5>2. CASE p > Len(a)
          <6> DEFINE c == p - Len(a)
          <6>1. c \in 1 .. Len(b) /\ Len(a) + c = p
            BY <4>5, <5>0, <5>2
          <6> HIDE DEF c
          <6>2. ss[m][c] = x /\ c \in DOMAIN ss[m] /\ m \in DOMAIN ss
            BY <1>1, <3>2, <4>3, <4>4, <4>5, <5>0, <6>1
          <6>3. PICK k \in DOMAIN ss : \E d \in DOMAIN ss[k] : Lt(k, d, m, c) /\ ss[k][d] = y
            BY <6>2 DEF Precedes
          <6>4. PICK d \in DOMAIN ss[k] : Lt(k, d, m, c) /\ ss[k][d] = y
            BY <6>3
          <6>5. k \in Nat /\ k >= 1 /\ c \in Nat
            BY <1>1, <3>4, <6>2
          <6>6. CASE k < m
            <7>1. k \in 1 .. m - 1
              BY <3>4, <6>5, <6>6
            <7>2. y \in Range(ss[k])
              BY <6>4 DEF Range
            <7>3. y \in Range(a)
              BY <4>1, <7>1, <7>2
            <7>4. PICK q \in 1 .. Len(a) : a[q] = y
              BY <4>5, <7>3 DEF Range
            <7>5. q \in 1 .. p - 1
              BY <4>5, <5>0, <5>2
            <7> QED
              BY <4>1, <4>4, <7>4, <7>5
          <6>7. CASE k = m /\ d < c
            <7>1. d \in 1 .. Len(b) /\ b[d] = y
              BY <4>3, <4>5, <6>4, <6>7
            <7>2. Len(a) + d \in 1 .. p - 1
              BY <4>5, <5>0, <6>1, <6>7, <7>1, SMTT(30)
            <7>3. (a \o b)[Len(a) + d] = y
              BY <4>4, <7>1
            <7> QED
              BY <4>1, <7>2, <7>3
          <6> QED
            BY <6>4, <6>6, <6>7 DEF Lt
        <5> QED
          BY <4>5, <5>0, <5>1, <5>2
      <4> QED
        BY <3>2, <4>6
    <3> QED
      BY <3>5, <3>6
  <2>3. Good(Len(ss))
    <3> HIDE DEF Good
    <3>1. Len(ss) \in 1 .. Len(ss) /\ Len(ss) \notin T
      BY <2>2, <1>1, <1>3
    <3> QED
      BY <3>1
  <2>4. FlattenSeq(ss) = f[Len(ss)]
    BY <2>1, <1>1, <1>3, FlattenIs
  <2> QED
    BY <2>3, <2>4
<1> QED
  BY <1>2, <1>3

-----------------------------------------------------------------------------
(* The items, last first.                                                  *)

\* Items follow the calls; a mark is before the calls of its function, behind
\* those of the functions before it.
Ordered(calls, items) ==
  \A k \in DOMAIN items : \A j \in 1 .. k - 1 :
    LET a == items[j].call
        b == items[k].call
    IN /\ a <= b
       /\ items[k].mark => a < b /\ calls[a].fn < calls[b].fn
       /\ ~ items[k].mark /\ ~ items[j].mark => a < b

LEMMA MarkedOrdered ==
  ASSUME NEW calls, calls \in Seq(Range(calls)), \A k \in DOMAIN calls : calls[k].fn \in Nat,
         \A j, k \in DOMAIN calls : j < k => calls[j].fn <= calls[k].fn
  PROVE  /\ Ordered(calls, Marked(calls))
         /\ Marked(calls) # << >> => Marked(calls)[1].mark
<1> DEFINE S == [mark : BOOLEAN, call : DOMAIN calls]
           item(k, m) == [mark |-> m, call |-> k]
           opens(k) == k = 1 \/ calls[k].fn # calls[k - 1].fn
           items(k) == IF opens(k) THEN <<item(k, TRUE), item(k, FALSE)>> ELSE <<item(k, FALSE)>>
           ss == [k \in DOMAIN calls |-> items(k)]
<1>1. Len(calls) \in Nat /\ DOMAIN calls = 1 .. Len(calls)
  OBVIOUS
<1>2. Marked(calls) = FlattenSeq(ss)
  BY DEF Marked
<1>3. /\ \A k : item(k, TRUE).mark = TRUE /\ item(k, FALSE).mark = FALSE
      /\ \A k : item(k, TRUE).call = k /\ item(k, FALSE).call = k
      /\ \A k \in DOMAIN calls : item(k, TRUE) \in S /\ item(k, FALSE) \in S
  OBVIOUS
<1> HIDE DEF S, item, opens
<1>4. /\ \A k : opens(k) => /\ Len(items(k)) = 2 /\ DOMAIN items(k) = 1 .. 2
                            /\ items(k)[1] = item(k, TRUE) /\ items(k)[2] = item(k, FALSE)
      /\ \A k : ~ opens(k) => DOMAIN items(k) = 1 .. 1 /\ items(k)[1] = item(k, FALSE)
  OBVIOUS
<1>5. \A k \in DOMAIN calls : items(k) \in Seq(S)
  <2>1. \A x, y \in S : <<x, y>> \in Seq(S) /\ <<y>> \in Seq(S)
    OBVIOUS
  <2> QED
    BY <1>3, <2>1
<1> HIDE DEF items
<1>6. ss \in Seq(Seq(S)) /\ Len(ss) = Len(calls) /\ \A k \in DOMAIN calls : ss[k] = items(k)
  <2>1. \A k \in 1 .. Len(calls) : items(k) \in Seq(S)
    BY <1>1, <1>5
  <2>2. ss = [k \in 1 .. Len(calls) |-> items(k)]
    BY <1>1
  <2>3. [k \in 1 .. Len(calls) |-> items(k)] \in [1 .. Len(calls) -> Seq(S)]
    BY <2>1
  <2> HIDE DEF ss
  <2>4. ss \in Seq(Seq(S)) /\ Len(ss) = Len(calls)
    BY <1>1, <2>2, <2>3, IsSeq
  <2> QED
    BY <1>1, <2>2, <2>4
<1> HIDE DEF ss
\* items(k) by itself.
<1>7. ASSUME NEW k
      PROVE  /\ \A c \in DOMAIN items(k) : items(k)[c].call = k /\ c \in 1 .. 2
             /\ \A c \in DOMAIN items(k) : items(k)[c].mark => opens(k) /\ c = 1
             /\ \A c, d \in DOMAIN items(k) : d < c => c = 2 /\ d = 1 /\ items(k)[d].mark
  <2> DEFINE s == items(k)
  <2>1. item(k, TRUE).mark /\ ~ item(k, FALSE).mark /\ item(k, TRUE).call = k /\ item(k, FALSE).call = k
    BY <1>3
  <2>2. CASE opens(k)
    <3>1. DOMAIN s = 1 .. 2 /\ s[1] = item(k, TRUE) /\ s[2] = item(k, FALSE)
      BY <1>4, <2>2
    <3> HIDE DEF s
    <3>2. \A c \in DOMAIN s : c = 1 \/ c = 2
      BY <3>1
    <3>3. \A c \in DOMAIN s : s[c].call = k /\ (s[c].mark => c = 1) /\ c \in 1 .. 2
      BY <2>1, <3>1, <3>2
    <3>4. \A c, d \in DOMAIN s : d < c => c = 2 /\ d = 1
      BY <3>2
    <3>5. s[1].mark
      BY <2>1, <3>1
    <3> QED
      BY <2>2, <3>3, <3>4, <3>5 DEF s
  <2>3. CASE ~ opens(k)
    <3>1. DOMAIN s = 1 .. 1 /\ s[1] = item(k, FALSE)
      BY <1>4, <2>3
    <3> HIDE DEF s
    <3>2. \A c \in DOMAIN s : c = 1 /\ c \in 1 .. 2
      BY <3>1
    <3>3. \A c \in DOMAIN s : s[c].call = k /\ ~ s[c].mark /\ c \in 1 .. 2
      BY <2>1, <3>1, <3>2
    <3> QED
      BY <3>2, <3>3 DEF s
  <2> QED
    BY <2>2, <2>3
<1>8. CASE Len(calls) = 0
  <2>1. ss = << >> /\ DOMAIN << >> = {}
    BY <1>6, <1>8
  <2> QED
    BY <1>2, <2>1, FlattenEmpty DEF Ordered
<1>9. CASE Len(calls) # 0
  <2>1. PICK f : Joins(ss, f, Len(ss))
    BY <1>1, <1>6, JoinsExists
  <2> DEFINE Good(n) == Ordered(calls, f[n]) /\ Len(f[n]) # 0 /\ f[n][1].mark
             T == {n \in 1 .. Len(calls) : ~ Good(n)}
  <2>2. T = {}
    <3> SUFFICES ASSUME T # {} PROVE FALSE
      OBVIOUS
    <3>1. PICK m \in T : \A k \in T : m <= k
      <4> T \subseteq Nat
        BY <1>1
      <4> HIDE DEF T
      <4> QED
        BY LeastNatural
    <3>2. m \in 1 .. Len(calls) /\ ~ Good(m) /\ (m # 1 => m - 1 \in 1 .. Len(calls) /\ Good(m - 1))
      <4> HIDE DEF Good
      <4>1. m \in 1 .. Len(calls) /\ ~ Good(m)
        BY <3>1
      <4>2. m # 1 => m - 1 \in 1 .. Len(calls) /\ ~ (m <= m - 1)
        BY <4>1, <1>1
      <4>3. m # 1 => m - 1 \notin T
        BY <3>1, <4>2
      <4> QED
        BY <4>1, <4>2, <4>3
    <3>3. f[m] = IF m = 1 THEN items(m) ELSE f[m - 1] \o items(m)
      BY <1>1, <1>6, <2>1, <3>2 DEF Joins
    <3>4. m \in Nat /\ m \in DOMAIN calls /\ items(m) \in Seq(S)
      BY <1>1, <1>5, <3>2
    <3>5. CASE m = 1
      <4>1. opens(m)
        BY <3>5 DEF opens
      <4>2. Len(f[m]) = 2 /\ f[m][1].mark
        <5>1. f[m] = items(m)
          BY <3>3, <3>5
        <5>2. Len(items(m)) = 2 /\ items(m)[1] = item(m, TRUE) /\ item(m, TRUE).mark
          BY <1>3, <1>4, <4>1
        <5> QED
          BY <5>1, <5>2
      <4>3. Ordered(calls, f[m])
        <5> SUFFICES ASSUME NEW k \in DOMAIN items(m), NEW j \in 1 .. k - 1
                     PROVE  /\ items(m)[j].call <= items(m)[k].call
                            /\ ~ items(m)[k].mark /\ items(m)[j].mark
          BY <3>3, <3>5 DEF Ordered
        <5>0. DOMAIN items(m) = 1 .. 2
          BY <1>4, <4>1
        <5>1. k = 2 /\ j = 1 /\ k \in DOMAIN items(m) /\ j \in DOMAIN items(m) /\ j < k
          BY <5>0
        <5>2. items(m)[j].call = m /\ items(m)[k].call = m
          BY <1>7, <5>1
        <5>3. ~ items(m)[k].mark
          BY <1>3, <1>4, <4>1, <5>1
        <5> QED
          BY <1>7, <3>4, <5>1, <5>2, <5>3
      <4> QED
        BY <3>2, <4>2, <4>3
    <3>6. CASE m # 1
      <4> DEFINE a == f[m - 1]
                 b == items(m)
                 w == a \o b
      <4>1. /\ a \in Seq(S) /\ Range(a) = UNION {Range(ss[k]) : k \in 1 .. m - 1} /\ f[m] = w
            /\ Ordered(calls, a) /\ Len(a) # 0 /\ a[1].mark
        <5>1. Collects(S, ss, f, m - 1)
          BY <1>6, <2>1, <3>2, <3>6, JoinsElements
        <5> QED
          BY <3>2, <3>3, <3>6, <5>1 DEF Collects
      <4>2. b \in Seq(S) /\ b = items(m) /\ w = a \o b
        BY <3>4
      <4> HIDE DEF a, b, w
      <4>3. /\ w \in Seq(S) /\ Len(w) = Len(a) + Len(b)
            /\ \A k \in 1 .. Len(a) : w[k] = a[k]
            /\ \A k \in 1 .. Len(b) : w[Len(a) + k] = b[k]
        BY <4>1, <4>2, Pair
      <4>4. /\ Len(a) \in Nat /\ Len(b) \in Nat /\ DOMAIN a = 1 .. Len(a) /\ DOMAIN b = 1 .. Len(b)
            /\ DOMAIN w = 1 .. Len(a) + Len(b)
        BY <4>1, <4>2, <4>3
\* What came before is of calls before m, and no function of theirs is behind m's.
      <4>5. ASSUME NEW j \in 1 .. Len(a) PROVE a[j].call \in 1 .. m - 1
        <5>1. a[j] \in Range(a)
          BY <4>4 DEF Range
        <5>2. PICK k \in 1 .. m - 1 : a[j] \in Range(ss[k])
          BY <4>1, <5>1
        <5>3. k \in DOMAIN calls
          BY <1>1, <3>2
        <5>4. PICK c \in DOMAIN items(k) : a[j] = items(k)[c]
          BY <1>6, <5>2, <5>3 DEF Range
        <5> QED
          BY <1>7, <5>4
      <4>6. ASSUME NEW k \in DOMAIN calls, k < m, opens(m) PROVE calls[k].fn < calls[m].fn
        <5>1. m - 1 \in DOMAIN calls /\ k \in Nat /\ m - 1 < m
          BY <1>1, <3>2, <3>6
        <5>2. k = m - 1 \/ k < m - 1
          BY <3>4, <4>6, <5>1
        <5>3. calls[m - 1].fn < calls[m].fn
          <6>1. calls[m - 1].fn # calls[m].fn /\ calls[m - 1].fn <= calls[m].fn
            BY <3>4, <3>6, <4>6, <5>1 DEF opens
          <6>2. calls[m - 1].fn \in Nat /\ calls[m].fn \in Nat
            BY <3>4, <5>1
          <6> QED
            BY <6>1, <6>2
        <5>4. calls[k].fn <= calls[m - 1].fn
          <6>1. calls[k].fn \in Nat
            OBVIOUS
          <6> QED
            BY <5>1, <5>2, <6>1
        <5>5. calls[k].fn \in Nat /\ calls[m - 1].fn \in Nat /\ calls[m].fn \in Nat
          BY <3>4, <5>1
        <5> QED
          BY <5>3, <5>4, <5>5
      <4>7. Ordered(calls, w)
        <5> SUFFICES ASSUME NEW k \in DOMAIN w, NEW j \in 1 .. k - 1
                     PROVE  /\ w[j].call <= w[k].call
                            /\ w[k].mark => w[j].call < w[k].call /\ calls[w[j].call].fn < calls[w[k].call].fn
                            /\ ~ w[k].mark /\ ~ w[j].mark => w[j].call < w[k].call
          BY DEF Ordered
        <5>0. k \in Nat /\ j \in Nat /\ 1 <= j /\ j < k /\ k <= Len(a) + Len(b)
          BY <4>4
        <5>1. CASE k <= Len(a)
          <6>1. k \in DOMAIN a /\ w[k] = a[k] /\ w[j] = a[j]
            BY <4>3, <4>4, <5>0, <5>1
          <6> QED
            BY <4>1, <6>1 DEF Ordered
        <5>2. CASE k > Len(a)
          <6> DEFINE c == k - Len(a)
          <6>1. c \in 1 .. Len(b) /\ Len(a) + c = k
            BY <4>4, <5>0, <5>2
          <6> HIDE DEF c
          <6>2. w[k] = items(m)[c] /\ c \in DOMAIN items(m)
            BY <4>2, <4>3, <4>4, <6>1
          <6>3. w[k].call = m /\ (w[k].mark => opens(m) /\ c = 1)
            BY <1>7, <6>2
          <6>4. CASE j <= Len(a)
            <7>1. w[j] = a[j] /\ a[j].call \in 1 .. m - 1
              BY <4>3, <4>4, <4>5, <5>0, <6>4
            <7>2. w[j].call < m /\ w[j].call \in DOMAIN calls /\ w[j].call <= m
              BY <1>1, <3>2, <3>4, <7>1
            <7> QED
              BY <4>6, <6>3, <7>2
          <6>5. CASE j > Len(a)
            <7> DEFINE d == j - Len(a)
            <7>1. d \in 1 .. Len(b) /\ Len(a) + d = j /\ d < c
              BY <4>4, <5>0, <6>1, <6>5
            <7> HIDE DEF d
            <7>2. w[j] = items(m)[d] /\ d \in DOMAIN items(m)
              BY <4>2, <4>3, <4>4, <7>1
            <7>3. w[j].call = m /\ w[j].mark /\ c # 1
              <8>1. c = 2 /\ items(m)[d].mark /\ items(m)[d].call = m
                BY <1>7, <6>2, <7>1, <7>2
              <8> QED
                BY <7>2, <8>1
            <7> QED
              BY <3>4, <6>3, <7>3
          <6> QED
            BY <4>4, <5>0, <6>4, <6>5
        <5> QED
          BY <4>4, <5>0, <5>1, <5>2
      <4>8. Len(w) # 0 /\ w[1].mark
        <5>1. 1 \in 1 .. Len(a)
          BY <4>1, <4>4
        <5> QED
          BY <4>1, <4>3, <4>4, <5>1
      <4> QED
        BY <3>2, <4>1, <4>7, <4>8
    <3> QED
      BY <3>5, <3>6
  <2>3. Good(Len(calls))
    <3> HIDE DEF Good
    <3>1. Len(calls) \in 1 .. Len(calls) /\ Len(calls) \notin T
      BY <2>2, <1>1, <1>9
    <3> QED
      BY <3>1
  <2>4. FlattenSeq(ss) = f[Len(calls)]
    BY <2>1, <1>1, <1>6, <1>9, FlattenIs
  <2> QED
    BY <1>2, <2>3, <2>4
<1> QED
  BY <1>8, <1>9

\* All but the last.
LEMMA FrontIs ==
  ASSUME NEW S, NEW s \in Seq(S), s # << >>
  PROVE  /\ Len(s) \in Nat \ {0} /\ DOMAIN s = 1 .. Len(s)
         /\ Front(s) \in Seq(S) /\ Len(Front(s)) = Len(s) - 1 /\ DOMAIN Front(s) = 1 .. Len(s) - 1
         /\ \A k \in 1 .. Len(s) - 1 : Front(s)[k] = s[k]
<1>1. Len(s) \in Nat \ {0} /\ DOMAIN s = 1 .. Len(s) /\ Len(s) - 1 \in Nat
  OBVIOUS
<1> DEFINE n == Len(s) - 1
           f == [k \in 1 .. n |-> s[k]]
<1>2. Front(s) = f
  BY <1>1 DEF Front
<1>3. f \in [1 .. n -> S] /\ DOMAIN f = 1 .. n /\ \A k \in 1 .. n : f[k] = s[k]
  OBVIOUS
<1> HIDE DEF f, n
<1>4. f \in Seq(S) /\ Len(f) = n
  BY <1>1, <1>3, IsSeq DEF n
<1> QED
  BY <1>1, <1>2, <1>3, <1>4 DEF n

LEMMA FrontOrdered ==
  ASSUME NEW S, NEW calls, NEW items \in Seq(S), items # << >>, Ordered(calls, items)
  PROVE  Ordered(calls, Front(items))
<1>1. /\ DOMAIN Front(items) = 1 .. Len(items) - 1 /\ Len(items) \in Nat \ {0}
      /\ DOMAIN items = 1 .. Len(items)
      /\ \A k \in 1 .. Len(items) - 1 : Front(items)[k] = items[k]
  BY FrontIs
<1> DEFINE n == Len(items)
           front == Front(items)
<1> HIDE DEF n, front
<1>2. ASSUME NEW k \in 1 .. n - 1, NEW j \in 1 .. k - 1
      PROVE  k \in DOMAIN items /\ j \in 1 .. n - 1 /\ front[k] = items[k] /\ front[j] = items[j]
  <2>1. n \in Nat \ {0} /\ k \in 1 .. n /\ j \in 1 .. n - 1
    BY <1>1 DEF n
  <2> QED
    BY <1>1, <2>1 DEF n, front
<1>3. DOMAIN front = 1 .. n - 1
  BY <1>1 DEF n, front
<1>4. Ordered(calls, front)
  BY <1>2, <1>3 DEF Ordered
<1> QED
  BY <1>4 DEF front

\* Different elements of a finite set: no more than it has.
LEMMA NoMoreThan ==
  ASSUME NEW S, IsFiniteSet(S), NEW s \in Seq(S), \A m, n \in DOMAIN s : s[m] = s[n] => m = n
  PROVE  Len(s) <= Cardinality(S)
<1>1. s \in [1 .. Len(s) -> S] /\ DOMAIN s = 1 .. Len(s) /\ Len(s) \in Nat
  OBVIOUS
<1>2. s \in Injection(1 .. Len(s), S)
  BY <1>1 DEF Injection, IsInjective
<1>3. Cardinality(1 .. Len(s)) <= Cardinality(S)
  BY <1>2, FS_Injection
<1>4. Cardinality(1 .. Len(s)) = Len(s)
  <2>1. Cardinality(1 .. Len(s)) = IF 1 > Len(s) THEN 0 ELSE Len(s) - 1 + 1
    BY <1>1, FS_Interval
  <2> QED
    BY <1>1, <2>1
<1> QED
  BY <1>3, <1>4

Sigs(p) == {p.calls[k].sig : k \in DOMAIN p.calls}

LEMMA SigsFinite ==
  ASSUME NEW p, p.calls \in Seq(Range(p.calls))
  PROVE  IsFiniteSet(Sigs(p))
<1> DEFINE n == Len(p.calls)
           f == [k \in 1 .. n |-> p.calls[k].sig]
<1>1. n \in Nat /\ DOMAIN p.calls = 1 .. n
  OBVIOUS
<1>2. f \in Surjection(1 .. n, Sigs(p))
  BY <1>1 DEF Surjection, Sigs
<1>3. IsFiniteSet(1 .. n)
  BY <1>1, FS_Interval
<1> QED
  BY <1>2, <1>3, FS_Surjection

\* The guard of a signature is one of those there are, or the next.
LEMMA NumberIs ==
  ASSUME NEW S, IsFiniteSet(S), guards \in Seq(S), NEW sig \in S,
         \A m, n \in DOMAIN guards : guards[m] = guards[n] => m = n,
         NEW more, more = IF Number(sig) > Len(guards) THEN Append(guards, sig) ELSE guards
  PROVE  /\ Number(sig) \in 1 .. Len(more) /\ Len(guards) <= Len(more) /\ Len(more) <= Cardinality(S)
         /\ more \in Seq(S) /\ \A m, n \in DOMAIN more : more[m] = more[n] => m = n
<1>1. Len(guards) \in Nat /\ DOMAIN guards = 1 .. Len(guards)
  OBVIOUS
<1>2. CASE \E n \in DOMAIN guards : guards[n] = sig
  <2>1. Number(sig) \in DOMAIN guards
    BY <1>2 DEF Number, NumberIn
  <2>2. Number(sig) \in 1 .. Len(guards) /\ ~ (Number(sig) > Len(guards))
    BY <1>1, <2>1
  <2>3. more = guards
    BY <2>2
  <2> QED
    BY <1>1, <2>2, <2>3, NoMoreThan
<1>3. CASE ~ \E n \in DOMAIN guards : guards[n] = sig
  <2>1. Number(sig) = Len(guards) + 1
    BY <1>3 DEF Number, NumberIn
  <2>2. more = Append(guards, sig)
    <3>1. Number(sig) > Len(guards)
      BY <1>1, <2>1
    <3> QED
      BY <3>1
  <2>3. /\ more \in Seq(S) /\ Len(more) = Len(guards) + 1 /\ DOMAIN more = 1 .. Len(guards) + 1
        /\ more[Len(guards) + 1] = sig /\ \A n \in 1 .. Len(guards) : more[n] = guards[n]
    BY <1>1, <2>2
  <2>4. ASSUME NEW m \in DOMAIN more, NEW n \in DOMAIN more, more[m] = more[n] PROVE m = n
    <3>1. (m \in 1 .. Len(guards) \/ m = Len(guards) + 1) /\ (n \in 1 .. Len(guards) \/ n = Len(guards) + 1)
      BY <1>1, <2>3
    <3> QED
      BY <1>1, <1>3, <2>3, <2>4, <3>1
  <2>5. Len(more) <= Cardinality(S)
    BY <2>3, <2>4, NoMoreThan
  <2>6. Number(sig) \in 1 .. Len(more) /\ Len(guards) <= Len(more)
    BY <1>1, <2>1, <2>3
  <2> QED
    BY <2>3, <2>4, <2>5, <2>6
<1> QED
  BY <1>2, <1>3

-----------------------------------------------------------------------------
(* The text of the file that is rewritten.                                 *)

\* What is known of the work list, whatever the callees are.
ListInv ==
  /\ Parsed(prog)
  /\ left \in Seq(Items(prog)) /\ Ordered(prog.calls, left) /\ (left # << >> => left[1].mark)
  /\ pending \in Seq(Range(DeclOf)) /\ (left = << >> => pending = << >>)
  /\ guards \in Seq(Sigs(prog)) /\ \A m, n \in DOMAIN guards : guards[m] = guards[n] => m = n

\* The marks that are left, and where the text is still to be changed.
Tok(p) == Alphabet(p) \cup Range(GuardName) \cup Range(DeclOf) \cup {","}
PlaceOf(p, item) == IF item.mark THEN p.fns[p.calls[item.call].fn] ELSE p.calls[item.call].first
Marks(p, items)  == {PlaceOf(p, items[k]) : k \in {j \in DOMAIN items : items[j].mark}}
Ahead(p, item)   == item.mark \/ Selected(p.calls[item.call])
TextInv ==
  /\ source \in Seq(Seq(Tok(prog))) /\ DOMAIN source = DOMAIN prog.lines
  /\ InOrder(source, Marks(prog, left), pending, Len(guards))
  /\ \A k \in DOMAIN left :
       Ahead(prog, left[k]) => Pristine(prog.lines, source, PlaceOf(prog, left[k]))

\* A place in a parsed file.
Proper(p, q) ==
  /\ q[1] \in DOMAIN p.lines /\ q[1] \in Nat /\ q[2] \in Nat \ {0}
  /\ q[2] <= Len(p.lines[q[1]]) + 1 /\ q[2] \in 1 .. Len(p.lines[q[1]]) + 1

LEMMA Placement ==
  ASSUME NEW p, Parsed(p)
  PROVE  /\ p.lines \in Seq(Seq(Alphabet(p)))
         /\ \A q : Within(p, q) => Proper(p, q)
         /\ \A k \in DOMAIN p.calls :
              /\ Proper(p, p.calls[k].from) /\ Proper(p, p.calls[k].to) /\ Proper(p, p.calls[k].first)
              /\ p.calls[k].fn \in DOMAIN p.fns /\ p.calls[k].fn \in Nat
         /\ \A f \in DOMAIN p.fns : Proper(p, p.fns[f])
<1>1. p.lines \in Seq(Seq(Alphabet(p))) /\ p.fns \in Seq(Range(p.fns))
  BY DEF Parsed
<1>2. DOMAIN p.lines \subseteq Nat \ {0} /\ DOMAIN p.fns \subseteq Nat \ {0}
  BY <1>1, Places
<1>3. ASSUME NEW q, Within(p, q) PROVE Proper(p, q)
  <2>1. q[1] \in DOMAIN p.lines /\ q[2] \in 1 .. Len(p.lines[q[1]]) + 1
    BY <1>3 DEF Within
  <2>2. p.lines[q[1]] \in Seq(Alphabet(p))
    BY <1>1, <2>1
  <2>3. Len(p.lines[q[1]]) \in Nat
    BY <2>2
  <2> QED
    BY <1>2, <2>1, <2>3 DEF Proper
<1>4. ASSUME NEW k \in DOMAIN p.calls
      PROVE  /\ Within(p, p.calls[k].from) /\ Within(p, p.calls[k].to) /\ Within(p, p.calls[k].first)
             /\ p.calls[k].fn \in DOMAIN p.fns
  BY DEF Parsed, AtToken
<1>5. \A f \in DOMAIN p.fns : Within(p, p.fns[f])
  BY DEF Parsed
<1> QED
  BY <1>1, <1>2, <1>3, <1>4, <1>5

LEMMA LeqTrans ==
  ASSUME NEW p, NEW a, NEW b, NEW c, Proper(p, a), Proper(p, b), Proper(p, c), Leq(a, b), Leq(b, c)
  PROVE  Leq(a, c)
<1>1. /\ a[1] \in Nat /\ a[2] \in Nat /\ b[1] \in Nat /\ b[2] \in Nat /\ c[1] \in Nat /\ c[2] \in Nat
      /\ a[1] < b[1] \/ (a[1] = b[1] /\ a[2] <= b[2])
      /\ b[1] < c[1] \/ (b[1] = c[1] /\ b[2] <= c[2])
  BY DEF Proper, Leq
<1> DEFINE al == a[1]
           ac == a[2]
           bl == b[1]
           bc == b[2]
           cl == c[1]
           cc == c[2]
<1>2. /\ al \in Nat /\ ac \in Nat /\ bl \in Nat /\ bc \in Nat /\ cl \in Nat /\ cc \in Nat
      /\ al < bl \/ (al = bl /\ ac <= bc)
      /\ bl < cl \/ (bl = cl /\ bc <= cc)
  BY <1>1
<1> HIDE DEF al, ac, bl, bc, cl, cc
<1>3. al < cl \/ (al = cl /\ ac <= cc)
  BY <1>2
<1> QED
  BY <1>3 DEF Leq, al, ac, cl, cc

\* A function of a later call starts behind what is rewritten of an earlier one.
LEMMA FunctionsApart ==
  ASSUME NEW p, Parsed(p), NEW j \in DOMAIN p.calls, NEW k \in DOMAIN p.calls
  PROVE  /\ Leq(p.fns[p.calls[k].fn], p.calls[k].from)
         /\ Leq(p.calls[k].from, p.calls[k].to) /\ Leq(p.calls[k].to, p.calls[k].first)
         /\ p.calls[j].fn < p.calls[k].fn =>
              /\ Leq(p.calls[j].first, p.fns[p.calls[k].fn])
              /\ Leq(p.fns[p.calls[j].fn], p.fns[p.calls[k].fn])
         /\ p.calls[j].fn <= p.calls[k].fn => Leq(p.fns[p.calls[j].fn], p.calls[k].from)
<1> DEFINE c == p.calls[j]
           d == p.calls[k]
<1>1. /\ Proper(p, c.from) /\ Proper(p, c.to) /\ Proper(p, c.first) /\ c.fn \in DOMAIN p.fns /\ c.fn \in Nat
      /\ Proper(p, d.from) /\ Proper(p, d.to) /\ Proper(p, d.first) /\ d.fn \in DOMAIN p.fns /\ d.fn \in Nat
      /\ Proper(p, p.fns[c.fn]) /\ Proper(p, p.fns[d.fn])
  BY Placement
<1>2. /\ Leq(p.fns[c.fn], c.from) /\ Leq(c.from, c.to) /\ Leq(c.to, c.first)
      /\ \A f \in DOMAIN p.fns : f > c.fn => Leq(c.first, p.fns[f])
  BY DEF Parsed
<1>3. Leq(p.fns[d.fn], d.from) /\ Leq(d.from, d.to) /\ Leq(d.to, d.first)
  BY DEF Parsed
<1> HIDE DEF c, d
<1>4. Leq(p.fns[c.fn], c.first)
  <2>1. Leq(p.fns[c.fn], c.to)
    BY <1>1, <1>2, LeqTrans
  <2> QED
    BY <1>1, <1>2, <2>1, LeqTrans
<1>5. ASSUME c.fn < d.fn PROVE Leq(c.first, p.fns[d.fn]) /\ Leq(p.fns[c.fn], p.fns[d.fn])
  <2>1. Leq(c.first, p.fns[d.fn])
    BY <1>1, <1>2, <1>5
  <2> QED
    BY <1>1, <1>4, <2>1, LeqTrans
<1>6. ASSUME c.fn <= d.fn PROVE Leq(p.fns[c.fn], d.from)
  <2>1. CASE c.fn = d.fn
    BY <1>3, <2>1
  <2>2. CASE c.fn < d.fn
    BY <1>1, <1>3, <1>5, <2>2, LeqTrans
  <2> QED
    BY <1>1, <1>6, <2>1, <2>2
<1> QED
  BY <1>2, <1>3, <1>5, <1>6 DEF c, d

LEMMA SeqsGrow ==
  ASSUME NEW S, NEW T, S \subseteq T
  PROVE  Seq(S) \subseteq Seq(T)
<1> SUFFICES ASSUME NEW s \in Seq(S) PROVE s \in Seq(T)
  OBVIOUS
<1>1. s \in [1 .. Len(s) -> S] /\ Len(s) \in Nat
  OBVIOUS
<1>2. s \in [1 .. Len(s) -> T]
  BY <1>1
<1> QED
  BY <1>1, <1>2, IsSeq

LEMMA FnsRise ==
  ASSUME NEW p, Parsed(p)
  PROVE  /\ p.calls \in Seq(Range(p.calls)) /\ \A k \in DOMAIN p.calls : p.calls[k].fn \in Nat
         /\ \A j, k \in DOMAIN p.calls : j < k => p.calls[j].fn <= p.calls[k].fn
<1>1. p.calls \in Seq(Range(p.calls)) /\ \A k \in DOMAIN p.calls : p.calls[k].fn \in Nat
  BY Placement DEF Parsed
<1>2. ASSUME NEW j \in DOMAIN p.calls, NEW k \in DOMAIN p.calls, j < k PROVE p.calls[j].fn <= p.calls[k].fn
  <2>1. j \in Nat /\ k \in Nat
    BY <1>1, Places
  <2>2. k > j
    BY <1>2, <2>1
  <2> QED
    BY <2>2 DEF Parsed
<1> QED
  BY <1>1, <1>2

\* The file as it is parsed has no guards.
LEMMA TextLoad ==
  ASSUME NEW p, Parsed(p), Load(p)
  PROVE  ListInv' /\ TextInv'
<1>1. /\ prog' = p /\ source' = p.lines /\ left' = Marked(p.calls) /\ guards' = << >> /\ pending' = << >>
  BY DEF Load
<1>2. Marked(p.calls) \in Seq(Items(p))
  BY FnsRise, MarkedHoldsCalls DEF Items
<1>3. Ordered(p.calls, Marked(p.calls)) /\ (Marked(p.calls) # << >> => Marked(p.calls)[1].mark)
  BY FnsRise, MarkedOrdered
<1>4. << >> \in Seq(Range(DeclOf)) /\ << >> \in Seq(Sigs(p)) /\ DOMAIN << >> = {}
  OBVIOUS
<1>5. ListInv'
  BY <1>1, <1>2, <1>3, <1>4 DEF ListInv
<1>6. p.lines \in Seq(Seq(Alphabet(p)))
  BY DEF Parsed
<1>7. p.lines \in Seq(Seq(Tok(p)))
  <2>1. Seq(Alphabet(p)) \subseteq Seq(Tok(p))
    BY SeqsGrow DEF Tok
  <2> QED
    BY <1>6, <2>1, SeqsGrow
<1>8. ASSUME NEW n \in DOMAIN GuardName, NEW l \in DOMAIN p.lines, NEW c \in DOMAIN p.lines[l],
             p.lines[l][c] = GuardName[n]
      PROVE  FALSE
  <2>1. p.lines[l][c] \in Alphabet(p)
    BY DEF Alphabet, Range
  <2>2. GuardName[n] \in Range(GuardName)
    BY DEF Range
  <2> QED
    BY <1>8, <2>1, <2>2 DEF Parsed
<1>9. ASSUME NEW k \in DOMAIN Marked(p.calls)
      PROVE  Pristine(p.lines, p.lines, PlaceOf(p, Marked(p.calls)[k]))
  <2>1. Marked(p.calls)[k] \in Items(p)
    BY <1>2
  <2>2. Marked(p.calls)[k].call \in DOMAIN p.calls
    BY <2>1 DEF Items
  <2>3. Proper(p, PlaceOf(p, Marked(p.calls)[k]))
    BY <2>2, Placement DEF PlaceOf
  <2> QED
    BY <2>3 DEF Proper, Pristine
<1>10. InOrder(p.lines, Marks(p, Marked(p.calls)), << >>, Len(<< >>))
  BY <1>8 DEF InOrder
<1>11. TextInv'
  BY <1>1, <1>7, <1>9, <1>10 DEF TextInv
<1> QED
  BY <1>5, <1>11

\* The last item, and what is in front of it.
LEMMA LastItem ==
  ASSUME ListInv, left # << >>
  PROVE  /\ Item \in Items(prog) /\ Item.call \in DOMAIN prog.calls /\ Current = prog.calls[Item.call]
         /\ Item.mark \in BOOLEAN
         /\ Len(left) \in Nat \ {0} /\ DOMAIN left = 1 .. Len(left) /\ Item = left[Len(left)]
         /\ Front(left) \in Seq(Items(prog)) /\ DOMAIN Front(left) = 1 .. Len(left) - 1
         /\ \A k \in 1 .. Len(left) - 1 : Front(left)[k] = left[k] /\ left[k] \in Items(prog)
         /\ Ordered(prog.calls, Front(left))
         /\ Front(left) # << >> => Front(left)[1].mark
         /\ ~ Item.mark => Front(left) # << >>
<1>1. /\ Len(left) \in Nat \ {0} /\ DOMAIN left = 1 .. Len(left)
      /\ Front(left) \in Seq(Items(prog)) /\ Len(Front(left)) = Len(left) - 1
      /\ DOMAIN Front(left) = 1 .. Len(left) - 1
      /\ \A k \in 1 .. Len(left) - 1 : Front(left)[k] = left[k]
  BY FrontIs DEF ListInv
<1>2. Item = left[Len(left)] /\ Len(left) \in DOMAIN left
  BY <1>1 DEF Item
<1>3. Item \in Items(prog)
  BY <1>2 DEF ListInv
<1>4. Item.call \in DOMAIN prog.calls /\ Current = prog.calls[Item.call] /\ Item.mark \in BOOLEAN
  BY <1>3 DEF Items, Current
<1>5. \A k \in 1 .. Len(left) - 1 : left[k] \in Items(prog)
  <2>1. \A k \in 1 .. Len(left) - 1 : k \in DOMAIN left
    BY <1>1
  <2>2. \A k \in DOMAIN left : left[k] \in Items(prog)
    BY DEF ListInv
  <2> QED
    BY <2>1, <2>2
<1>6. Ordered(prog.calls, Front(left))
  BY FrontOrdered DEF ListInv
<1>7. Front(left) # << >> => Front(left)[1].mark
  <2> SUFFICES ASSUME Front(left) # << >> PROVE Front(left)[1].mark
    OBVIOUS
  <2>1. Len(Front(left)) # 0
    BY <1>1
  <2>2. 1 \in 1 .. Len(left) - 1
    BY <1>1, <2>1
  <2> QED
    BY <1>1, <2>2 DEF ListInv
<1>8. ~ Item.mark => Front(left) # << >>
  <2> SUFFICES ASSUME Front(left) = << >> PROVE Item.mark
    OBVIOUS
  <2>1. Len(Front(left)) = 0
    OBVIOUS
  <2>2. Len(left) = 1
    <3>1. Len(left) \in Nat /\ Len(left) - 1 = 0
      BY <1>1, <2>1
    <3>2. \A n : n \in Nat /\ n - 1 = 0 => n = 1
      OBVIOUS
    <3> QED
      BY <3>1, <3>2
  <2> QED
    BY <1>2, <2>2 DEF ListInv
<1> QED
  BY <1>1, <1>2, <1>3, <1>4, <1>5, <1>6, <1>7, <1>8

\* The number a call's guard gets.
LEMMA GuardNumber ==
  ASSUME ListInv, left # << >>, NEW more,
         more = IF Number(Current.sig) > Len(guards) THEN Append(guards, Current.sig) ELSE guards
  PROVE  /\ Number(Current.sig) \in 1 .. Len(more) /\ Len(guards) <= Len(more)
         /\ Len(more) \in Nat /\ Len(guards) \in Nat
         /\ Number(Current.sig) \in DOMAIN GuardName /\ Number(Current.sig) \in DOMAIN DeclOf
         /\ more \in Seq(Sigs(prog)) /\ \A m, n \in DOMAIN more : more[m] = more[n] => m = n
<1> DEFINE num == Number(Current.sig)
<1>1. Current.sig \in Sigs(prog)
  BY LastItem DEF Sigs
<1>2. IsFiniteSet(Sigs(prog))
  BY FnsRise, SigsFinite DEF ListInv
<1>3. guards \in Seq(Sigs(prog)) /\ \A m, n \in DOMAIN guards : guards[m] = guards[n] => m = n
  BY DEF ListInv
<1>4. /\ num \in 1 .. Len(more) /\ Len(guards) <= Len(more) /\ Len(more) <= Cardinality(Sigs(prog))
      /\ more \in Seq(Sigs(prog)) /\ \A m, n \in DOMAIN more : more[m] = more[n] => m = n
  BY <1>1, <1>2, <1>3, NumberIs
<1>5. Cardinality(Sigs(prog)) <= Len(GuardName)
  BY DEF ListInv, Parsed, Sigs
<1>6. /\ Len(GuardName) \in Nat /\ Len(DeclOf) \in Nat /\ Len(GuardName) <= Len(DeclOf)
      /\ DOMAIN GuardName = 1 .. Len(GuardName) /\ DOMAIN DeclOf = 1 .. Len(DeclOf)
  <2>1. GuardName \in Seq(Range(GuardName)) /\ DeclOf \in Seq(Range(DeclOf)) /\ Len(GuardName) <= Len(DeclOf)
    BY GuardNamesAssumption
  <2> QED
    BY <2>1
<1>7. Len(more) \in Nat /\ Len(guards) \in Nat /\ Cardinality(Sigs(prog)) \in Nat
  BY <1>2, <1>3, <1>4, FS_CardinalityType
<1> HIDE DEF num
<1>8. num \in 1 .. Len(GuardName) /\ num \in 1 .. Len(DeclOf)
  BY <1>4, <1>5, <1>6, <1>7
<1> QED
  BY <1>4, <1>6, <1>7, <1>8 DEF num

LEMMA ListStep ==
  ASSUME ListInv, Step
  PROVE  ListInv'
<1>1. prog' = prog
  BY DEF Step, Declare, Skip, Unexpected, Guard, Write
<1>2. CASE Unexpected \/ Write
  BY <1>1, <1>2 DEF ListInv, Unexpected, Write
<1>3. CASE Declare
  <2>1. left # << >> /\ left' = Front(left) /\ pending' = << >> /\ guards' = guards
    BY <1>3 DEF Declare
  <2>2. << >> \in Seq(Range(DeclOf))
    OBVIOUS
  <2> QED
    BY <1>1, <2>1, <2>2, LastItem DEF ListInv
<1>4. CASE Skip
  <2>1. left # << >> /\ left' = Front(left) /\ pending' = pending /\ guards' = guards /\ ~ Item.mark
    BY <1>4 DEF Skip
  <2> QED
    BY <1>1, <2>1, LastItem DEF ListInv
<1>5. CASE Guard
  <2> DEFINE n == Number(Current.sig)
  <2>1. /\ left # << >> /\ left' = Front(left) /\ ~ Item.mark
        /\ guards' = IF n > Len(guards) THEN Append(guards, Current.sig) ELSE guards
        /\ pending' = <<DeclOf[n]>> \o pending
    BY <1>5 DEF Guard
  <2>2. /\ n \in DOMAIN DeclOf /\ guards' \in Seq(Sigs(prog))
        /\ \A k, m \in DOMAIN guards' : guards'[k] = guards'[m] => k = m
    BY <2>1, GuardNumber
  <2> HIDE DEF n
  <2>3. pending' \in Seq(Range(DeclOf))
    <3>1. DeclOf[n] \in Range(DeclOf) /\ pending \in Seq(Range(DeclOf))
      BY <2>2 DEF Range, ListInv
    <3> QED
      BY <2>1, <3>1
  <2> QED
    BY <1>1, <2>1, <2>2, <2>3, LastItem DEF ListInv
<1> QED
  BY <1>2, <1>3, <1>4, <1>5 DEF Step

LEMMA SelectedOught ==
  ASSUME NEW call, Selected(call)
  PROVE  Ought(call)
<1>1. Reveal(call) = "pointer" /\ HasThunk(call)
  BY DEF Selected
<1>2. CASE call.base = "odd"
  BY <1>1, <1>2 DEF Reveal
<1>3. CASE call.base # "odd" /\ call.levels = 0
  <2>1. Reveal(call) = IF call.base = "deref" THEN "pointer" ELSE call.base
    BY <1>3 DEF Reveal
  <2> QED
    BY <1>1, <2>1 DEF Ought
<1>4. CASE call.base # "odd" /\ call.levels # 0
  <2>1. Reveal(call) = IF call.levels = 1 /\ call.base # "pointer" THEN "pointer" ELSE "untyped"
    BY <1>4 DEF Reveal
  <2>2. call.levels = 1
    BY <1>1, <2>1
  <2> QED
    BY <1>1, <2>2 DEF Ought
<1> QED
  BY <1>2, <1>3, <1>4

\* What is still to be changed is in front of what the last item changes.
LEMMA PlacesLeft ==
  ASSUME ListInv, left # << >>, CalleesPlain, NEW k \in 1 .. Len(left) - 1, Ahead(prog, left[k])
  PROVE  /\ Proper(prog, PlaceOf(prog, left[k]))
         /\ Item.mark => Leq(PlaceOf(prog, left[k]), PlaceOf(prog, Item))
         /\ ~ Item.mark /\ Selected(Current) => Leq(PlaceOf(prog, left[k]), Current.from)
<1> DEFINE it == left[k]
           a  == it.call
           b  == Item.call
<1>1. /\ Parsed(prog) /\ it \in Items(prog) /\ a \in DOMAIN prog.calls /\ it.mark \in BOOLEAN
      /\ b \in DOMAIN prog.calls /\ Current = prog.calls[b]
  BY LastItem DEF ListInv, Items
<1>2. /\ a <= b
      /\ Item.mark => a < b /\ prog.calls[a].fn < prog.calls[b].fn
      /\ ~ Item.mark /\ ~ it.mark => a < b
  <2>1. Len(left) \in DOMAIN left /\ k \in 1 .. Len(left) - 1 /\ Item = left[Len(left)]
    BY LastItem
  <2> QED
    BY <2>1 DEF ListInv, Ordered
<1>3. PlaceOf(prog, it) = IF it.mark THEN prog.fns[prog.calls[a].fn] ELSE prog.calls[a].first
  BY DEF PlaceOf
<1>4. ~ it.mark => Selected(prog.calls[a])
  BY DEF Ahead
<1> HIDE DEF it, a, b
<1>5. Proper(prog, PlaceOf(prog, it))
  BY <1>1, <1>3, Placement
<1>6. ASSUME Item.mark PROVE Leq(PlaceOf(prog, it), PlaceOf(prog, Item))
  <2>1. PlaceOf(prog, Item) = prog.fns[prog.calls[b].fn]
    BY <1>6 DEF PlaceOf, b
  <2>2. /\ Leq(prog.calls[a].first, prog.fns[prog.calls[b].fn])
        /\ Leq(prog.fns[prog.calls[a].fn], prog.fns[prog.calls[b].fn])
    BY <1>1, <1>2, <1>6, FunctionsApart
  <2> QED
    BY <1>3, <2>1, <2>2
<1>7. ASSUME ~ Item.mark, Selected(Current) PROVE Leq(PlaceOf(prog, it), Current.from)
  <2>1. a \in Nat /\ b \in Nat
    <3>1. DOMAIN prog.calls \subseteq Nat \ {0}
      BY <1>1, FnsRise, Places
    <3> QED
      BY <1>1, <3>1
  <2>2. CASE it.mark
    <3>1. prog.calls[a].fn <= prog.calls[b].fn
      <4>1. a = b \/ a < b
        BY <1>2, <2>1
      <4>2. prog.calls[a].fn \in Nat
        BY <1>1, FnsRise
      <4> QED
        BY <1>1, <4>1, <4>2, FnsRise
    <3> QED
      BY <1>1, <1>3, <2>2, <3>1, FunctionsApart
  <2>3. CASE ~ it.mark
    <3>1. b > a
      BY <1>2, <1>7, <2>1, <2>3
    <3>2. Ought(prog.calls[a]) /\ Ought(prog.calls[b])
      BY <1>1, <1>4, <1>7, <2>3, SelectedOught
    <3>3. Leq(prog.calls[a].to, prog.calls[b].from)
      BY <1>1, <3>1, <3>2 DEF CalleesPlain, Plain
    <3>4. Leq(prog.calls[a].first, prog.calls[b].from)
      BY <1>1, <3>1, <3>3 DEF Parsed
    <3> QED
      BY <1>1, <1>3, <2>3, <3>4
  <2> QED
    BY <2>2, <2>3
<1> QED
  BY <1>5, <1>6, <1>7 DEF it

\* What is read of the parsed text has its tokens.
LEMMA RangeTextTokens ==
  ASSUME Parsed(prog), NEW from, NEW to, Proper(prog, from), Proper(prog, to), Leq(from, to)
  PROVE  RangeText(from, to) \in Seq(Alphabet(prog))
<1> DEFINE A == Alphabet(prog)
           upto(l) == IF l = to[1] THEN Before(prog.lines[l], to[2]) ELSE prog.lines[l]
           piece(l) == CASE l < from[1] \/ l > to[1] -> << >>
                         [] l = from[1]              -> From(upto(l), from[2])
                         [] OTHER                    -> upto(l)
           ss == [n \in DOMAIN prog.lines |-> piece(n)]
<1>1. /\ from[1] \in Nat /\ to[1] \in Nat /\ from[2] \in Nat \ {0} /\ to[2] \in Nat \ {0}
      /\ from[2] <= Len(prog.lines[from[1]]) + 1 /\ to[2] <= Len(prog.lines[to[1]]) + 1
      /\ from[1] < to[1] \/ (from[1] = to[1] /\ from[2] <= to[2])
  BY DEF Proper, Leq
<1>2. prog.lines \in Seq(Seq(A)) /\ DOMAIN prog.lines = 1 .. Len(prog.lines) /\ Len(prog.lines) \in Nat
  <2>1. prog.lines \in Seq(Seq(A))
    BY DEF Parsed
  <2> HIDE DEF A
  <2> QED
    BY <2>1
<1>3. RangeText(from, to) = FlattenSeq(ss)
  BY DEF RangeText
<1> HIDE DEF A
<1>4. ASSUME NEW l \in DOMAIN prog.lines
      PROVE  upto(l) \in Seq(A) /\ (l = from[1] => from[2] <= Len(upto(l)) + 1)
  <2>2. prog.lines[l] \in Seq(A)
    BY <1>2
  <2>3. CASE l = to[1]
    <3>1. /\ Before(prog.lines[l], to[2]) \in Seq(A)
          /\ Len(Before(prog.lines[l], to[2])) = to[2] - 1
      <4>1. IsSliced(A, prog.lines[l], to[2])
        BY <1>1, <2>2, <2>3, Slices
      <4> QED
        BY <4>1 DEF IsSliced
    <3>2. l = from[1] => from[2] <= to[2]
      BY <1>1, <2>3
    <3>3. l = from[1] => from[2] <= (to[2] - 1) + 1
      BY <1>1, <3>2
    <3> QED
      BY <2>3, <3>1, <3>3
  <2>4. CASE l # to[1]
    BY <1>1, <2>2, <2>4
  <2> QED
    BY <2>3, <2>4
<1> HIDE DEF upto
<1>5. ASSUME NEW l \in DOMAIN prog.lines PROVE piece(l) \in Seq(A)
  <2>1. upto(l) \in Seq(A) /\ << >> \in Seq(A)
    BY <1>4
  <2>2. l = from[1] => From(upto(l), from[2]) \in Seq(A)
    <3> SUFFICES ASSUME l = from[1] PROVE From(upto(l), from[2]) \in Seq(A)
      OBVIOUS
    <3>1. from[2] <= Len(upto(l)) + 1
      BY <1>4
    <3>2. IsSliced(A, upto(l), from[2])
      BY <1>1, <2>1, <3>1, Slices
    <3> QED
      BY <3>2 DEF IsSliced
  <2> QED
    BY <2>1, <2>2
<1> HIDE DEF piece
<1>6. ss \in Seq(Seq(A))
  <2>1. ss \in [1 .. Len(prog.lines) -> Seq(A)]
    BY <1>2, <1>5
  <2> HIDE DEF ss
  <2> QED
    BY <1>2, <2>1, IsSeq
<1> HIDE DEF ss
<1> QED
  BY <1>3, <1>6, FlattenElements DEF A

LEMMA FewerMarks ==
  ASSUME NEW t, NEW marks, NEW later, later \subseteq marks, NEW due, NEW count, InOrder(t, marks, due, count)
  PROVE  InOrder(t, later, due, count)
  BY DEF InOrder, Due

LEMMA MarksLeft ==
  ASSUME ListInv, left # << >>
  PROVE  /\ Positions(Marks(prog, left))
         /\ Marks(prog, Front(left)) \subseteq Marks(prog, left)
         /\ Item.mark => PlaceOf(prog, Item) \in Marks(prog, left)
         /\ ~ Item.mark => \A q \in Marks(prog, left) :
                             \E k \in 1 .. Len(left) - 1 : left[k].mark /\ q = PlaceOf(prog, left[k])
<1>1. /\ Len(left) \in Nat \ {0} /\ DOMAIN left = 1 .. Len(left) /\ Item = left[Len(left)]
      /\ DOMAIN Front(left) = 1 .. Len(left) - 1
      /\ \A k \in 1 .. Len(left) - 1 : Front(left)[k] = left[k]
  BY LastItem
<1>2. ASSUME NEW k \in DOMAIN left PROVE Proper(prog, PlaceOf(prog, left[k]))
  <2>1. left[k] \in Items(prog)
    BY DEF ListInv
  <2>2. left[k].call \in DOMAIN prog.calls
    BY <2>1 DEF Items
  <2> QED
    BY <2>2, Placement DEF PlaceOf, ListInv
<1>3. Positions(Marks(prog, left))
  BY <1>2 DEF Positions, Marks, Proper
<1>4. \A k \in 1 .. Len(left) - 1 : k \in DOMAIN left
  BY <1>1
<1>5. Marks(prog, Front(left)) \subseteq Marks(prog, left)
  BY <1>1, <1>4 DEF Marks
<1>6. Len(left) \in DOMAIN left
  BY <1>1
<1>7. Item.mark => PlaceOf(prog, Item) \in Marks(prog, left)
  BY <1>1, <1>6 DEF Marks
<1>8. ASSUME ~ Item.mark, NEW q \in Marks(prog, left)
      PROVE  \E k \in 1 .. Len(left) - 1 : left[k].mark /\ q = PlaceOf(prog, left[k])
  <2>1. PICK k \in DOMAIN left : left[k].mark /\ q = PlaceOf(prog, left[k])
    BY DEF Marks
  <2>2. k # Len(left)
    BY <1>1, <1>8, <2>1
  <2>3. k \in 1 .. Len(left) - 1
    BY <1>1, <2>2
  <2> QED
    BY <2>1, <2>3
<1> QED
  BY <1>3, <1>5, <1>7, <1>8

\* What is left of the work after this item is where it was.
LEMMA TextDeclare ==
  ASSUME ListInv, TextInv, CalleesPlain, Declare
  PROVE  TextInv'
<1> DEFINE at == PlaceOf(prog, Item)
           S == Tok(prog)
<1>1. /\ left # << >> /\ Item.mark /\ source' = Insert(source, at, pending)
      /\ pending' = << >> /\ left' = Front(left) /\ prog' = prog /\ guards' = guards
  <2>1. Declare
    OBVIOUS
  <2>2. Item.mark => at = prog.fns[Current.fn]
    BY DEF PlaceOf, Current
  <2> HIDE DEF at
  <2> QED
    BY <2>1, <2>2 DEF Declare
<1>2. /\ Item.call \in DOMAIN prog.calls /\ Len(left) \in Nat \ {0} /\ Item = left[Len(left)]
      /\ DOMAIN Front(left) = 1 .. Len(left) - 1 /\ Len(left) \in DOMAIN left
      /\ \A k \in 1 .. Len(left) - 1 : Front(left)[k] = left[k]
  BY <1>1, LastItem
<1>3. Proper(prog, at)
  BY <1>2, Placement DEF PlaceOf, ListInv
<1>4. /\ source \in Seq(Seq(S)) /\ DOMAIN source = DOMAIN prog.lines
      /\ InOrder(source, Marks(prog, left), pending, Len(guards))
      /\ \A k \in DOMAIN left : Ahead(prog, left[k]) => Pristine(prog.lines, source, PlaceOf(prog, left[k]))
  BY DEF TextInv
<1>5. Pristine(prog.lines, source, at)
  BY <1>1, <1>2, <1>4 DEF Ahead
<1>6. at[1] \in DOMAIN source /\ at[2] \in Nat \ {0} /\ at[2] \in Nat /\ at[2] <= Len(source[at[1]]) + 1
  BY <1>3, <1>4, <1>5 DEF Proper, Pristine
<1>7. pending \in Seq(S) /\ Range(pending) \cap Range(GuardName) = {}
  <2>1. pending \in Seq(Range(DeclOf))
    BY DEF ListInv
  <2>2. Seq(Range(DeclOf)) \subseteq Seq(S)
    BY SeqsGrow DEF Tok
  <2>3. Range(pending) \subseteq Range(DeclOf)
    <3>1. \A n \in DOMAIN pending : pending[n] \in Range(DeclOf)
      BY <2>1
    <3> QED
      BY <3>1 DEF Range
  <2> QED
    BY <2>1, <2>2, <2>3, GuardNamesAssumption
<1>8. Positions(Marks(prog, left)) /\ at \in Marks(prog, left)
  BY <1>1, MarksLeft
<1>9. ASSUME NEW k \in DOMAIN left', Ahead(prog, left'[k])
      PROVE  /\ Proper(prog, PlaceOf(prog, left'[k])) /\ Leq(PlaceOf(prog, left'[k]), at)
             /\ Pristine(prog.lines, source, PlaceOf(prog, left'[k]))
  <2>1. k \in 1 .. Len(left) - 1 /\ left'[k] = left[k]
    BY <1>1, <1>2
  <2>2. k \in DOMAIN left
    BY <2>1, LastItem, <1>1
  <2> QED
    BY <1>1, <1>4, <1>9, <2>1, <2>2, PlacesLeft
<1> HIDE DEF at, S
<1> DEFINE u == Insert(source, at, pending)
<1>10. IsInserted(S, source, at, pending, u)
  BY <1>4, <1>6, <1>7, InsertIs
<1>11. InOrder(u, Marks(prog, left'), << >>, Len(guards))
  BY <1>4, <1>6, <1>7, <1>8, DeclareSettles
<1>12. ASSUME NEW k \in DOMAIN left', Ahead(prog, left'[k])
       PROVE  Pristine(prog.lines, u, PlaceOf(prog, left'[k]))
  <2> DEFINE q == PlaceOf(prog, left'[k])
  <2>1. q[1] \in DOMAIN source /\ q[2] \in Nat /\ Leq(q, at) /\ Pristine(prog.lines, source, q)
    BY <1>4, <1>9, <1>12 DEF Proper
  <2> HIDE DEF q
  <2>2. Pristine(prog.lines, u, q)
    BY <1>4, <1>6, <1>7, <2>1, InsertPristine
  <2> QED
    BY <2>2 DEF q
<1>13. u \in Seq(Seq(S)) /\ DOMAIN u = DOMAIN source
  BY <1>10 DEF IsInserted
<1>14. source' = u
  BY <1>1
<1> HIDE DEF u
<1> QED
  BY <1>1, <1>4, <1>11, <1>12, <1>13, <1>14 DEF TextInv, S

LEMMA TextGuard ==
  ASSUME ListInv, TextInv, CalleesPlain, Guard
  PROVE  TextInv'
<1> DEFINE S == Tok(prog)
           n == Number(Current.sig)
           from == Current.from
           to == Current.to
           first == Current.first
           callee == RangeText(from, to)
           tokens == IF Current.bare THEN callee ELSE Append(callee, ",")
           t == Insert(source, first, tokens)
           u == Replace(t, from, to, GuardName[n])
           marks == Marks(prog, left)
           base == prog.lines
<1>1. /\ left # << >> /\ ~ Item.mark /\ Selected(Current) /\ source' = u
      /\ pending' = <<DeclOf[n]>> \o pending /\ left' = Front(left) /\ prog' = prog
      /\ guards' = IF n > Len(guards) THEN Append(guards, Current.sig) ELSE guards
  BY DEF Guard, Edit
<1>2. /\ Item.call \in DOMAIN prog.calls /\ Len(left) \in Nat \ {0} /\ Item = left[Len(left)]
      /\ DOMAIN Front(left) = 1 .. Len(left) - 1 /\ Len(left) \in DOMAIN left
      /\ \A k \in 1 .. Len(left) - 1 : Front(left)[k] = left[k] /\ k \in DOMAIN left
      /\ Current = prog.calls[Item.call]
  <2>1. Len(left) \in Nat \ {0} /\ DOMAIN left = 1 .. Len(left)
    BY <1>1, LastItem
  <2>2. Len(left) \in DOMAIN left /\ \A k \in 1 .. Len(left) - 1 : k \in DOMAIN left
    BY <2>1
  <2> QED
    BY <1>1, <2>2, LastItem
<1>3. /\ Proper(prog, from) /\ Proper(prog, to) /\ Proper(prog, first)
      /\ Leq(from, to) /\ Leq(to, first) /\ Leq(from, first)
  <2>1. Proper(prog, from) /\ Proper(prog, to) /\ Proper(prog, first)
    BY <1>2, Placement DEF ListInv
  <2>2. Leq(from, to) /\ Leq(to, first)
    BY <1>2, FunctionsApart DEF ListInv
  <2> QED
    BY <2>1, <2>2, LeqTrans
<1>4. /\ source \in Seq(Seq(S)) /\ DOMAIN source = DOMAIN base
      /\ InOrder(source, marks, pending, Len(guards))
      /\ \A k \in DOMAIN left : Ahead(prog, left[k]) => Pristine(base, source, PlaceOf(prog, left[k]))
  BY DEF TextInv
<1>5. Pristine(base, source, first)
  <2>1. PlaceOf(prog, Item) = first /\ Ahead(prog, Item)
    BY <1>1, <1>2 DEF PlaceOf, Ahead
  <2> HIDE DEF first
  <2> QED
    BY <1>2, <1>4, <2>1
<1>6. tokens \in Seq(S) /\ \A k \in DOMAIN tokens : tokens[k] \notin Range(GuardName)
  <2>1. callee \in Seq(Alphabet(prog))
    BY <1>3, RangeTextTokens DEF ListInv
  <2> HIDE DEF callee
  <2> DEFINE A == Alphabet(prog) \cup {","}
  <2>2. Seq(Alphabet(prog)) \subseteq Seq(A)
    BY SeqsGrow
  <2>3. "," \in A
    OBVIOUS
  <2>4. A \subseteq S /\ A \cap Range(GuardName) = {}
    <3>1. Parsed(prog)
      BY DEF ListInv
    <3>2. Alphabet(prog) \cap (Range(GuardName) \cup Range(DeclOf)) = {}
      BY <3>1 DEF Parsed
    <3>3. "," \notin Range(GuardName)
      BY GuardNamesAssumption
    <3> QED
      BY <3>2, <3>3 DEF Tok
  <2> HIDE DEF A, S
  <2>5. tokens \in Seq(A)
    <3>1. callee \in Seq(A)
      BY <2>1, <2>2
    <3>2. \A x \in A : Append(callee, x) \in Seq(A)
      BY <3>1
    <3> QED
      BY <2>3, <3>1, <3>2
  <2>6. Seq(A) \subseteq Seq(S)
    BY <2>4, SeqsGrow
  <2> HIDE DEF tokens
  <2>7. \A k \in DOMAIN tokens : tokens[k] \in A
    BY <2>5
  <2> QED
    BY <2>4, <2>5, <2>6, <2>7
<1>7. /\ n \in 1 .. Len(guards') /\ Len(guards) <= Len(guards') /\ Len(guards') \in Nat /\ Len(guards) \in Nat
      /\ n \in DOMAIN GuardName /\ n \in DOMAIN DeclOf
  BY <1>1, GuardNumber
<1>8. Positions(marks) /\ Marks(prog, left') \subseteq marks
  BY <1>1, MarksLeft
<1>9. Behind(marks, from)
  <2> SUFFICES ASSUME NEW q \in marks PROVE Leq(q, from)
    BY DEF Behind
  <2>1. PICK k \in 1 .. Len(left) - 1 : left[k].mark /\ q = PlaceOf(prog, left[k])
    BY <1>1, MarksLeft
  <2>2. Ahead(prog, left[k])
    BY <2>1 DEF Ahead
  <2> QED
    BY <1>1, <2>1, <2>2, PlacesLeft
<1>10. ASSUME NEW k \in DOMAIN left', Ahead(prog, left'[k])
       PROVE  /\ Proper(prog, PlaceOf(prog, left'[k])) /\ Leq(PlaceOf(prog, left'[k]), from)
              /\ Pristine(base, source, PlaceOf(prog, left'[k]))
  <2>1. k \in 1 .. Len(left) - 1 /\ left'[k] = left[k] /\ k \in DOMAIN left
    BY <1>1, <1>2
  <2> QED
    BY <1>1, <1>4, <1>10, <2>1, PlacesLeft
<1>11. GuardName[n] \in S /\ DeclOf[n] \in Range(DeclOf) /\ base \in Seq(Seq(Alphabet(prog)))
       /\ Alphabet(prog) \cap Range(DeclOf) = {}
  BY <1>7 DEF Range, Tok, ListInv, Parsed
<1>12. pending \in Seq(Range(DeclOf))
  BY DEF ListInv
<1> DEFINE token == GuardName[n]
<1>a. /\ base \in Seq(Seq(Alphabet(prog))) /\ token \in S /\ Leq(from, to)
      /\ to[1] \in DOMAIN base /\ to[2] \in 1 .. Len(base[to[1]]) + 1
      /\ u = Replace(t, from, to, token) /\ t = Insert(source, first, tokens)
  BY <1>3, <1>11 DEF Proper
<1> HIDE DEF S, n, from, to, first, callee, tokens, marks, u, t, token
\* After the first edit.
<1>13. /\ first[1] \in DOMAIN source /\ first[2] \in Nat \ {0} /\ first[2] \in Nat
       /\ first[2] <= Len(source[first[1]]) + 1
  BY <1>3, <1>4, <1>5 DEF Proper, Pristine
<1>14. IsInserted(S, source, first, tokens, t)
  BY <1>4, <1>6, <1>13, InsertIs DEF t
<1>15. t \in Seq(Seq(S)) /\ DOMAIN t = DOMAIN base
  BY <1>4, <1>14 DEF IsInserted
<1>16. InOrder(t, marks, pending, Len(guards))
  BY <1>4, <1>6, <1>8, <1>13, InsertKeepsOrder DEF t
<1>17. ASSUME NEW q, Proper(prog, q), Leq(q, first), Pristine(base, source, q)
       PROVE  Pristine(base, t, q)
  <2>1. q[1] \in DOMAIN source /\ q[2] \in Nat
    BY <1>4, <1>17 DEF Proper
  <2> QED
    BY <1>4, <1>6, <1>13, <1>17, <2>1, InsertPristine DEF t
<1>18. Pristine(base, t, first) /\ Pristine(base, t, to) /\ Pristine(base, t, from)
  <2>1. Leq(first, first)
    BY <1>3 DEF Leq, Proper
  <2>2. Pristine(base, t, first)
    BY <1>3, <1>5, <1>17, <2>1
  <2>3. first[1] \in DOMAIN base /\ first[2] \in Nat
    BY <1>3 DEF Proper
  <2>4. Pristine(base, t, to)
    BY <1>3, <1>11, <2>2, <2>3, PristineDown DEF Proper
  <2>5. Pristine(base, t, from)
    BY <1>3, <1>11, <2>2, <2>3, PristineDown DEF Proper
  <2> QED
    BY <2>2, <2>4, <2>5
<1>19. /\ from[1] \in DOMAIN t /\ from[2] \in Nat \ {0} /\ from[2] <= Len(t[from[1]]) + 1
       /\ to[1] \in DOMAIN t /\ to[2] \in Nat \ {0} /\ to[2] <= Len(t[to[1]]) + 1
  BY <1>3, <1>15, <1>18 DEF Proper, Pristine
\* What is replaced is the callee as it was parsed.
<1>20. ASSUME NEW l \in DOMAIN t, NEW c \in DOMAIN t[l], ~ Outside(from, to, l, c),
              NEW m \in DOMAIN GuardName
       PROVE  t[l][c] # DeclOf[m]
  <2>1. Lt(l, c, to[1], to[2])
    BY <1>20 DEF Outside
  <2>2. t[l] \in Seq(S)
    BY <1>15
  <2> HIDE DEF base
  <2>3. t[l][c] \in UNION {Range(base[k]) : k \in DOMAIN base}
    BY <1>a, <1>15, <1>18, <1>20, <2>1, <2>2, PristineTokens
  <2>4. DeclOf[m] \in Range(DeclOf)
    <3>1. /\ GuardName \in Seq(Range(GuardName)) /\ DeclOf \in Seq(Range(DeclOf))
          /\ Len(GuardName) <= Len(DeclOf)
      BY GuardNamesAssumption
    <3>2. /\ DOMAIN GuardName = 1 .. Len(GuardName) /\ DOMAIN DeclOf = 1 .. Len(DeclOf)
          /\ Len(GuardName) \in Nat /\ Len(DeclOf) \in Nat
      BY <3>1
    <3>3. m \in DOMAIN DeclOf
      BY <3>1, <3>2
    <3> QED
      BY <3>3 DEF Range
  <2> QED
    BY <1>11, <2>3, <2>4 DEF Alphabet, base
\* After the second.
<1>21. IsReplaced(S, t, from, to, token, u)
  BY <1>a, <1>15, <1>19, ReplaceIs
<1>22. Range(pending') = {DeclOf[n]} \cup Range(pending)
  <2>1. <<DeclOf[n]>> \in Seq(Range(DeclOf)) /\ Range(<<DeclOf[n]>>) = {DeclOf[n]}
    <3>1. <<DeclOf[n]>> \in Seq(Range(DeclOf))
      BY <1>11
    <3>2. DOMAIN <<DeclOf[n]>> = {1} /\ <<DeclOf[n]>>[1] = DeclOf[n]
      OBVIOUS
    <3> QED
      BY <3>1, <3>2 DEF Range
  <2> QED
    <3> DEFINE one == <<DeclOf[n]>>
    <3>1. /\ pending' = one \o pending /\ pending \in Seq(Range(DeclOf))
          /\ one \in Seq(Range(DeclOf)) /\ Range(one) = {DeclOf[n]}
      BY <1>1, <1>12, <2>1
    <3> HIDE DEF one
    <3>2. Range(one \o pending) = Range(one) \cup Range(pending)
      BY <3>1, RangeConcat
    <3> QED
      BY <3>1, <3>2
<1>23. InOrder(u, marks, pending', Len(guards'))
  <2>1. n <= Len(guards')
    BY <1>7
  <2>2. Range(pending) \subseteq Range(pending') /\ DeclOf[n] \in Range(pending')
    BY <1>22
  <2>3. NoneDeclared(t, from, to)
    BY <1>20 DEF NoneDeclared
  <2> QED
    <3> DEFINE g2 == Len(guards')
               due2 == pending'
    <3>1. /\ n \in DOMAIN GuardName /\ token = GuardName[n] /\ n <= g2 /\ DeclOf[n] \in Range(due2)
          /\ g2 \in Nat /\ Len(guards) \in Nat /\ Len(guards) <= g2 /\ Range(pending) \subseteq Range(due2)
      BY <1>7, <2>1, <2>2 DEF token
    <3> HIDE DEF g2, due2, base
    <3>2. InOrder(u, marks, due2, g2)
      BY <1>a, <1>8, <1>9, <1>15, <1>16, <1>19, <2>3, <3>1, ReplaceKeepsOrder
    <3> QED
      BY <3>2 DEF g2, due2
<1>24. InOrder(u, Marks(prog, left'), pending', Len(guards'))
  BY <1>8, <1>23, FewerMarks
<1>25. ASSUME NEW k \in DOMAIN left', Ahead(prog, left'[k])
       PROVE  Pristine(base, u, PlaceOf(prog, left'[k]))
  <2> DEFINE q == PlaceOf(prog, left'[k])
  <2>1. Proper(prog, q) /\ Leq(q, from) /\ Pristine(base, source, q)
    BY <1>10, <1>25
  <2> HIDE DEF q, base
  <2>2. Pristine(base, t, q)
    BY <1>3, <1>17, <2>1, LeqTrans
  <2>3. q[1] \in DOMAIN t /\ q[2] \in Nat
    BY <1>15, <2>1 DEF Proper, base
  <2>4. Pristine(base, u, q)
    <3>1. DOMAIN base = DOMAIN t
      BY <1>15
    <3> QED
      BY <1>a, <1>15, <1>19, <2>1, <2>2, <2>3, <3>1, ReplacePristine
  <2> QED
    BY <2>4 DEF q
<1>26. u \in Seq(Seq(S)) /\ DOMAIN u = DOMAIN base
  BY <1>15, <1>21 DEF IsReplaced
<1> QED
  BY <1>1, <1>24, <1>25, <1>26 DEF TextInv, S

LEMMA TextStep ==
  ASSUME ListInv, TextInv, CalleesPlain, Step
  PROVE  TextInv'
<1>1. CASE Unexpected \/ Write
  BY <1>1 DEF TextInv, Unexpected, Write
<1>2. CASE Skip
  <2>1. /\ left # << >> /\ left' = Front(left)
        /\ UNCHANGED <<prog, source, guards, pending>>
    BY <1>2 DEF Skip
  <2>2. /\ DOMAIN Front(left) = 1 .. Len(left) - 1 /\ Len(left) \in Nat \ {0} /\ DOMAIN left = 1 .. Len(left)
        /\ \A k \in 1 .. Len(left) - 1 : Front(left)[k] = left[k]
    BY <2>1, LastItem
  <2>3. \A k \in 1 .. Len(left) - 1 : k \in DOMAIN left
    BY <2>2
  <2>4. Marks(prog, Front(left)) \subseteq Marks(prog, left)
    BY <2>1, MarksLeft
  <2>5. InOrder(source, Marks(prog, Front(left)), pending, Len(guards))
    BY <2>4, FewerMarks DEF TextInv
  <2> QED
    BY <2>1, <2>2, <2>3, <2>5 DEF TextInv
<1> QED
  BY <1>1, <1>2, TextDeclare, TextGuard DEF Step

\* Of every file that is being rewritten, or was last.
RewriteInv ==
  status # "none" =>
    /\ status \in {"rewriting", "raised", "written", "unchanged"}
    /\ status = "written" => left = << >>
    /\ ListInv
    /\ CalleesPlain => TextInv

LEMMA RewriteNext == SplitInv /\ PlaceInv /\ RewriteInv /\ [Next]_vars => RewriteInv'
<1> SUFFICES ASSUME SplitInv, PlaceInv, RewriteInv, [Next]_vars PROVE RewriteInv'
  OBVIOUS
<1>1. CASE UNCHANGED cfiVars
  BY <1>1 DEF cfiVars, RewriteInv, ListInv, TextInv, CalleesPlain, Plain
<1>2. CASE Add
  <2>1. CfiReady /\ Load(text[File])
    BY <1>2 DEF Add
  <2>2. running \in 1 .. num_parts /\ i <= PartSize(running) /\ SplitOver /\ i \in Nat \ {0}
    <3>1. CASE phase = "expanded"
      BY <3>1 DEF PlaceInv, SplitInv
    <3>2. CASE AtCommand
      BY <3>2, AtFile DEF PlaceInv
    <3> QED
      BY <2>1, <3>1, <3>2 DEF CfiReady
  <2>3. Parsed(text[File])
    BY <2>2, FileAt DEF PlaceInv
  <2>4. ListInv' /\ TextInv' /\ status' = "rewriting"
    BY <2>1, <2>3, TextLoad DEF Load
  <2> QED
    BY <2>4 DEF RewriteInv
<1>3. CASE Rewrite
  <2>1. Step /\ status = "rewriting"
    BY <1>3 DEF Rewrite, Step, Declare, Skip, Unexpected, Guard, Write
  <2>2. ListInv /\ (CalleesPlain => TextInv)
    BY <2>1 DEF RewriteInv
  <2>3. prog' = prog /\ status' \in {"rewriting", "raised", "written", "unchanged"}
        /\ (status' = "written" => left' = << >>)
    BY <2>1 DEF Step, Declare, Skip, Unexpected, Guard, Write
  <2>4. CalleesPlain' <=> CalleesPlain
    BY <2>3 DEF CalleesPlain, Plain
  <2>5. ListInv' /\ (CalleesPlain => TextInv')
    BY <2>1, <2>2, ListStep, TextStep
  <2> QED
    BY <2>3, <2>4, <2>5 DEF RewriteInv
<1> QED
  BY <1>1, <1>2, <1>3 DEF Next, Done, vars, Split, SplitEnds, Expand, ExpandFails, Added, Advance, AddFails,
                          AddAgain, NextPart, Rerun

\* Whatever the file: a guard is declared in front of every use of it, and is
\* one of those that are defined at the end, one for a signature.
THEOREM GuardsDeclared == Spec => []DeclaredBeforeUse
<1>1. Init => RewriteInv
  BY DEF Init, RewriteInv
<1>2. RewriteInv => DeclaredBeforeUse
  <2> SUFFICES ASSUME RewriteInv, status = "written", CalleesPlain
               PROVE  /\ \A m, n \in DOMAIN guards : guards[m] = guards[n] => m = n
                      /\ \A n \in DOMAIN GuardName : \A p \in DOMAIN Tokens :
                           Tokens[p] = GuardName[n] =>
                             n <= Len(guards) /\ \E q \in 1 .. p - 1 : Tokens[q] = DeclOf[n]
    BY DEF DeclaredBeforeUse
  <2>1. ListInv /\ TextInv /\ left = << >>
    BY DEF RewriteInv
  <2>2. pending = << >>
    BY <2>1 DEF ListInv
  <2>3. /\ source \in Seq(Seq(Tok(prog)))
        /\ InOrder(source, Marks(prog, left), pending, Len(guards))
    BY <2>1 DEF TextInv
  <2>4. ASSUME NEW n \in DOMAIN GuardName, NEW l \in DOMAIN source, NEW c \in DOMAIN source[l],
               source[l][c] = GuardName[n]
        PROVE  n <= Len(guards) /\ Declared(source, n, l, c)
    <3>1. Range(<< >>) = {}
      BY DEF Range
    <3> QED
      BY <2>2, <2>3, <2>4, <3>1 DEF InOrder, Due
  <2>5. ASSUME NEW n \in DOMAIN GuardName, NEW p \in DOMAIN Tokens, Tokens[p] = GuardName[n]
        PROVE  n <= Len(guards) /\ \E q \in 1 .. p - 1 : Tokens[q] = DeclOf[n]
    <3>1. GuardName[n] \in Range(FlattenSeq(source))
      BY <2>5 DEF Range, Tokens
    <3>2. PICK l \in DOMAIN source : GuardName[n] \in Range(source[l])
      BY <2>3, <3>1, FlattenElements
    <3>3. PICK c \in DOMAIN source[l] : source[l][c] = GuardName[n]
      BY <3>2 DEF Range
    <3>4. n <= Len(guards)
      BY <2>4, <3>3
    <3> DEFINE x == GuardName[n]
               y == DeclOf[n]
    <3>6. Precedes(y, x, source)
      BY <2>4 DEF Declared, Precedes
    <3> HIDE DEF x, y
    <3>7. \A r \in DOMAIN FlattenSeq(source) : FlattenSeq(source)[r] = x =>
            \E q \in 1 .. r - 1 : FlattenSeq(source)[q] = y
      BY <2>3, <3>6, FlattenOrder
    <3>8. \E q \in 1 .. p - 1 : Tokens[q] = y
      <4>1. p \in DOMAIN FlattenSeq(source) /\ FlattenSeq(source)[p] = x
        BY <2>5 DEF Tokens, x
      <4> QED
        BY <3>7, <4>1 DEF Tokens
    <3> QED
      BY <3>4, <3>8 DEF y
  <2> QED
    BY <2>1, <2>5 DEF ListInv
<1>3. Spec => []RewriteInv
  BY <1>1, RewriteNext, PlaceAlways, PTL DEF Spec
<1> QED
  BY <1>2, <1>3, PTL

-----------------------------------------------------------------------------
(* Sequences put together: what FlattenSeq makes of pieces.                *)

\* What holds of 0, and of a number if of the one before, holds up to n.
LEMMA Climb ==
  ASSUME NEW n \in Nat, NEW G, 0 \in G, \A k \in 1 .. n : k - 1 \in G => k \in G
  PROVE  \A k \in 0 .. n : k \in G
<1> DEFINE T == {k \in 0 .. n : k \notin G}
<1> SUFFICES ASSUME T # {} PROVE FALSE
  OBVIOUS
<1>1. PICK m \in T : \A k \in T : m <= k
  <2> T \subseteq Nat
    OBVIOUS
  <2> HIDE DEF T
  <2> QED
    BY LeastNatural
<1>2. m \in 1 .. n /\ m \notin G /\ m - 1 \in 0 .. n /\ ~ (m <= m - 1)
  BY <1>1
<1>3. m - 1 \in G
  BY <1>1, <1>2
<1> QED
  BY <1>2, <1>3

\* f[k]: the first k sequences of ss, one behind the other.
Parts(S, ss, f) ==
  /\ f[0] = << >>
  /\ \A k \in 1 .. Len(ss) : f[k] = f[k - 1] \o ss[k]
  /\ \A k \in 0 .. Len(ss) : f[k] \in Seq(S)

\* The pieces put together one by one: that is what FlattenSeq makes.
LEMMA PartsExist ==
  ASSUME NEW S, NEW ss \in Seq(Seq(S))
  PROVE  \E f : Parts(S, ss, f) /\ FlattenSeq(ss) = f[Len(ss)]
<1>1. Len(ss) \in Nat /\ \A k \in 1 .. Len(ss) : ss[k] \in Seq(S)
  OBVIOUS
<1>2. PICK h : Joins(ss, h, Len(ss))
  BY <1>1, JoinsExists
<1>3. \A k \in 1 .. Len(ss) : h[k] \in Seq(S)
  BY <1>2, JoinsElements DEF Collects
<1> DEFINE f == [k \in 0 .. Len(ss) |-> IF k = 0 THEN << >> ELSE h[k]]
<1>4. ASSUME NEW k \in 1 .. Len(ss) PROVE f[k] = f[k - 1] \o ss[k]
  <2>1. k \in 0 .. Len(ss) /\ k # 0 /\ k - 1 \in 0 .. Len(ss) /\ (k # 1 => k - 1 # 0)
    BY <1>1
  <2>2. f[k] = IF k = 1 THEN ss[k] ELSE h[k - 1] \o ss[k]
    BY <1>2, <2>1 DEF Joins
  <2>3. CASE k = 1
    <3>1. << >> \o ss[k] = ss[k]
      BY <1>1, ConcatEmptySeq
    <3> QED
      BY <2>2, <2>3, <3>1, <1>1
  <2>4. CASE k # 1
    BY <2>1, <2>2, <2>4
  <2> QED
    BY <2>3, <2>4
<1>5. f[0] = << >>
  BY <1>1
<1>6. ASSUME NEW k \in 0 .. Len(ss) PROVE f[k] \in Seq(S)
  <2>1. k = 0 \/ k \in 1 .. Len(ss)
    BY <1>1
  <2>2. << >> \in Seq(S)
    OBVIOUS
  <2> QED
    BY <1>3, <2>1, <2>2
<1>7. FlattenSeq(ss) = f[Len(ss)]
  <2>1. CASE Len(ss) = 0
    <3>1. ss = << >>
      BY <2>1
    <3> QED
      BY <1>5, <2>1, <3>1, FlattenEmpty
  <2>2. CASE Len(ss) # 0
    <3>1. FlattenSeq(ss) = h[Len(ss)]
      BY <1>1, <1>2, <2>2, FlattenIs
    <3> QED
      BY <1>1, <2>2, <3>1
  <2> QED
    BY <2>1, <2>2
<1> HIDE DEF f
<1>8. Parts(S, ss, f)
  BY <1>4, <1>5, <1>6 DEF Parts
<1> QED
  BY <1>7, <1>8

\* There is one way to put them together.
LEMMA PartsUnique ==
  ASSUME NEW S, NEW ss, Len(ss) \in Nat, NEW f, Parts(S, ss, f), NEW g, Parts(S, ss, g)
  PROVE  \A k \in 0 .. Len(ss) : f[k] = g[k]
<1> DEFINE G == {k \in 0 .. Len(ss) : f[k] = g[k]}
<1>1. 0 \in G
  BY DEF Parts
<1>2. ASSUME NEW k \in 1 .. Len(ss), k - 1 \in G PROVE k \in G
  <2>1. f[k] = f[k - 1] \o ss[k] /\ g[k] = g[k - 1] \o ss[k]
    BY DEF Parts
  <2>2. k \in 0 .. Len(ss)
    OBVIOUS
  <2> QED
    BY <1>2, <2>1, <2>2
<1>3. \A k \in 0 .. Len(ss) : k \in G
  <2> HIDE DEF G
  <2> QED
    BY <1>1, <1>2, Climb
<1> QED
  BY <1>3

\* The first k sequences.
LEMMA FlattenUpTo ==
  ASSUME NEW S, NEW ss \in Seq(Seq(S)), NEW f, Parts(S, ss, f), NEW k \in 0 .. Len(ss)
  PROVE  FlattenSeq(SubSeq(ss, 1, k)) = f[k]
<1>1. Len(ss) \in Nat /\ k \in Nat /\ k <= Len(ss)
  OBVIOUS
<1> DEFINE tt == SubSeq(ss, 1, k)
<1>2. tt \in Seq(Seq(S)) /\ Len(tt) = k /\ \A j \in 1 .. k : tt[j] = ss[j]
  <2>1. \A j \in 1 .. k : ss[j] \in Seq(S) /\ j \in 1 .. Len(ss)
    BY <1>1
  <2>2. 1 \in Int /\ k \in Int /\ k - 1 + 1 = k /\ (~ (1 <= k) => k = 0)
    BY <1>1
  <2>3. /\ SubSeq(ss, 1, k) \in Seq(Seq(S))
        /\ Len(SubSeq(ss, 1, k)) = IF 1 <= k THEN k - 1 + 1 ELSE 0
        /\ \A j \in 1 .. k - 1 + 1 : SubSeq(ss, 1, k)[j] = ss[1 + j - 1]
    BY <2>1, <2>2, SubSeqProperties
  <2>4. \A j \in 1 .. k : 1 + j - 1 = j
    BY <1>1
  <2> QED
    BY <2>2, <2>3, <2>4
<1> HIDE DEF tt
<1>3. PICK g : Parts(S, tt, g) /\ FlattenSeq(tt) = g[Len(tt)]
  BY <1>2, PartsExist
<1>4. Parts(S, tt, f)
  <2>1. \A j \in 1 .. k : j \in 1 .. Len(ss)
    BY <1>1
  <2>2. \A j \in 0 .. k : j \in 0 .. Len(ss)
    BY <1>1
  <2> QED
    BY <1>2, <2>1, <2>2 DEF Parts
<1>5. f[k] = g[k]
  <2>1. Len(tt) \in Nat /\ k \in 0 .. Len(tt)
    BY <1>1, <1>2
  <2>2. \A j \in 0 .. Len(tt) : f[j] = g[j]
    BY <1>3, <1>4, <2>1, PartsUnique
  <2> QED
    BY <2>1, <2>2
<1> QED
  BY <1>2, <1>3, <1>5 DEF tt

\* The n pieces c are each cut in two, so that behind x all of the first parts
\* are empty and in front of x all of the second.
Cut(S, n, c, a, b, x) ==
  /\ n \in Nat /\ x \in Int
  /\ c \in [1 .. n -> Seq(S)] /\ a \in [1 .. n -> Seq(S)] /\ b \in [1 .. n -> Seq(S)]
  /\ \A k \in 1 .. n : c[k] = a[k] \o b[k]
  /\ \A k \in 1 .. n : k > x => a[k] = << >>
  /\ \A k \in 1 .. n : k < x => b[k] = << >>

\* Pieces that are cut at x are put together from what is before and after.
LEMMA FlatSplit ==
  ASSUME NEW S, NEW n, NEW c, NEW a, NEW b, NEW x, Cut(S, n, c, a, b, x)
  PROVE  FlattenSeq(c) = FlattenSeq(a) \o FlattenSeq(b)
<1>0. n \in Nat /\ x \in Int
  BY DEF Cut
<1>1. /\ a \in Seq(Seq(S)) /\ Len(a) = n /\ b \in Seq(Seq(S)) /\ Len(b) = n
      /\ c \in Seq(Seq(S)) /\ Len(c) = n
      /\ \A k \in 1 .. n : a[k] \in Seq(S) /\ b[k] \in Seq(S) /\ c[k] = a[k] \o b[k]
  BY IsSeq DEF Cut
<1>2. PICK f : Parts(S, a, f) /\ FlattenSeq(a) = f[n]
  BY <1>1, PartsExist
<1>3. PICK g : Parts(S, b, g) /\ FlattenSeq(b) = g[n]
  BY <1>1, PartsExist
<1>4. PICK h : Parts(S, c, h) /\ FlattenSeq(c) = h[n]
  BY <1>1, PartsExist
<1>5. /\ f[0] = << >> /\ g[0] = << >> /\ h[0] = << >>
      /\ \A k \in 0 .. n : f[k] \in Seq(S) /\ g[k] \in Seq(S)
      /\ \A k \in 1 .. n : /\ f[k] = f[k - 1] \o a[k] /\ g[k] = g[k - 1] \o b[k]
                           /\ h[k] = h[k - 1] \o (a[k] \o b[k])
  BY <1>1, <1>2, <1>3, <1>4 DEF Parts
<1> DEFINE G == {k \in 0 .. n : h[k] = f[k] \o g[k] /\ (k < x => g[k] = << >>)}
<1>6. << >> \o << >> = << >>
  OBVIOUS
<1>7. 0 \in G
  <2>1. h[0] = f[0] \o g[0] /\ g[0] = << >>
    BY <1>5, <1>6
  <2>2. 0 \in 0 .. n
    BY <1>0
  <2> QED
    BY <2>1, <2>2
<1>8. ASSUME NEW k \in 1 .. n, k - 1 \in G PROVE k \in G
  <2>1. k - 1 \in 0 .. n /\ k \in 0 .. n /\ k \in Nat /\ x \in Int
    BY <1>0
  <2> DEFINE fj == f[k - 1]
             gj == g[k - 1]
             ak == a[k]
             bk == b[k]
  <2>2. fj \in Seq(S) /\ gj \in Seq(S) /\ ak \in Seq(S) /\ bk \in Seq(S) /\ fj \o ak \in Seq(S)
    <3>1. fj \in Seq(S) /\ gj \in Seq(S)
      BY <1>5, <2>1
    <3>2. ak \in Seq(S) /\ bk \in Seq(S)
      BY <1>1
    <3> QED
      BY <3>1, <3>2, ConcatProperties
  <2>3. f[k] = fj \o ak /\ g[k] = gj \o bk /\ h[k] = h[k - 1] \o (ak \o bk) /\ h[k - 1] = fj \o gj
        /\ (k - 1 < x => gj = << >>) /\ (k > x => ak = << >>) /\ (k < x => bk = << >>)
    BY <1>5, <1>8 DEF Cut
  <2> HIDE DEF fj, gj, ak, bk, G
  <2>4. CASE k <= x
    <3>1. gj = << >>
      BY <2>1, <2>3, <2>4
    <3>2. fj \o gj = fj /\ gj \o bk = bk
      BY <2>2, <3>1, ConcatEmptySeq
    <3>3. fj \o (ak \o bk) = (fj \o ak) \o bk
      BY <2>2, ConcatAssociative, SMTT(30)
    <3>4. h[k] = f[k] \o g[k]
      BY <2>3, <3>2, <3>3
    <3>5. k < x => g[k] = << >>
      BY <2>3, <3>2
    <3> QED
      BY <2>1, <3>4, <3>5 DEF G
  <2>5. CASE k > x
    <3>1. ak = << >>
      BY <2>3, <2>5
    <3>2. fj \o ak = fj /\ ak \o bk = bk
      BY <2>2, <3>1, ConcatEmptySeq
    <3>3. (fj \o gj) \o bk = fj \o (gj \o bk)
      BY <2>2, ConcatAssociative, SMTT(30)
    <3>4. h[k] = f[k] \o g[k] /\ ~ (k < x)
      BY <2>1, <2>3, <2>5, <3>2, <3>3
    <3> QED
      BY <2>1, <3>4 DEF G
  <2> QED
    BY <2>1, <2>4, <2>5
<1>9. n \in G
  <2> HIDE DEF G
  <2>1. \A k \in 0 .. n : k \in G
    BY <1>0, <1>7, <1>8, Climb
  <2>2. n \in 0 .. n
    BY <1>0
  <2> QED
    BY <2>1, <2>2
<1> QED
  BY <1>2, <1>3, <1>4, <1>9

\* Empty pieces make nothing.
LEMMA FlatNone ==
  ASSUME NEW n \in Nat, NEW a, a = [k \in 1 .. n |-> << >>]
  PROVE  FlattenSeq(a) = << >>
<1>1. a \in Seq(Seq({})) /\ Len(a) = n /\ \A k \in 1 .. n : a[k] = << >>
  <2>1. a \in [1 .. n -> Seq({})]
    BY << >> \in Seq({})
  <2> QED
    BY <2>1, IsSeq
<1>2. FlattenSeq(a) \in Seq({}) /\ Range(FlattenSeq(a)) = UNION {Range(a[k]) : k \in DOMAIN a}
  BY <1>1, FlattenElements
<1> DEFINE w == FlattenSeq(a)
<1> HIDE DEF w
<1>3. w \in Seq({})
  BY <1>2 DEF w
<1>4. Len(w) = 0
  <2>1. Len(w) \in Nat /\ \A k \in 1 .. Len(w) : w[k] \in {}
    BY <1>3
  <2>2. Len(w) # 0 => 1 \in 1 .. Len(w)
    BY <2>1
  <2> QED
    BY <2>1, <2>2
<1> QED
  BY <1>3, <1>4 DEF w

\* One piece alone.
Alone(S, n, a, x, w) ==
  /\ n \in Nat /\ x \in 1 .. n /\ w \in Seq(S) /\ a \in [1 .. n -> Seq(S)]
  /\ \A k \in 1 .. n : a[k] = IF k = x THEN w ELSE << >>

\* One piece among empty ones makes itself.
LEMMA FlatOne ==
  ASSUME NEW S, NEW n, NEW a, NEW x, NEW w, Alone(S, n, a, x, w)
  PROVE  FlattenSeq(a) = w
<1>0. n \in Nat /\ x \in 1 .. n /\ w \in Seq(S)
  BY DEF Alone
<1>1. a \in Seq(Seq(S)) /\ Len(a) = n /\ \A k \in 1 .. n : a[k] = IF k = x THEN w ELSE << >>
  BY IsSeq DEF Alone
<1>2. PICK f : Parts(S, a, f) /\ FlattenSeq(a) = f[n]
  BY <1>1, PartsExist
<1>3. f[0] = << >> /\ \A k \in 1 .. n : f[k] = f[k - 1] \o a[k]
  BY <1>1, <1>2 DEF Parts
<1> DEFINE G == {k \in 0 .. n : f[k] = IF k < x THEN << >> ELSE w}
<1>4. 0 \in G
  BY <1>0, <1>3
<1>5. ASSUME NEW k \in 1 .. n, k - 1 \in G PROVE k \in G
  <2>1. k \in Nat /\ x \in Nat /\ k \in 0 .. n
    BY <1>0
  <2>2. f[k] = f[k - 1] \o a[k] /\ f[k - 1] = (IF k - 1 < x THEN << >> ELSE w)
        /\ a[k] = IF k = x THEN w ELSE << >>
    BY <1>1, <1>3, <1>5
  <2>3. << >> \o << >> = << >> /\ << >> \o w = w /\ w \o << >> = w
    <3>1. << >> \o w = w /\ w \o << >> = w
      BY <1>0, ConcatEmptySeq
    <3> QED
      BY <3>1
  <2>4. f[k] = IF k < x THEN << >> ELSE w
    <3>1. CASE k < x
      <4>1. k - 1 < x /\ k # x
        BY <2>1, <3>1
      <4> QED
        BY <2>2, <2>3, <3>1, <4>1
    <3>2. CASE k = x
      <4>1. k - 1 < x /\ ~ (k < x)
        BY <2>1, <3>2
      <4> QED
        BY <2>2, <2>3, <3>2, <4>1
    <3>3. CASE k > x
      <4>1. ~ (k - 1 < x) /\ ~ (k < x) /\ k # x
        BY <2>1, <3>3
      <4> QED
        BY <2>2, <2>3, <4>1
    <3> QED
      BY <2>1, <3>1, <3>2, <3>3
  <2> QED
    BY <2>1, <2>4
<1>6. n \in G
  <2> HIDE DEF G
  <2>1. \A k \in 0 .. n : k \in G
    BY <1>0, <1>4, <1>5, Climb
  <2>2. n \in 0 .. n
    BY <1>0
  <2> QED
    BY <2>1, <2>2
<1>7. ~ (n < x)
  BY <1>0
<1> QED
  BY <1>2, <1>6, <1>7

\* The elements behind the first lo, up to number hi, a piece each.
IsSlice(S, s, lo, hi, a) ==
  /\ s \in Seq(S) /\ lo \in Nat /\ hi \in Nat /\ lo <= hi /\ hi <= Len(s)
  /\ a \in [1 .. Len(s) -> Seq(S)]
  /\ \A k \in 1 .. Len(s) : a[k] = IF lo < k /\ k <= hi THEN <<s[k]>> ELSE << >>

\* The tokens from lo to hi, a piece each, make that slice.
LEMMA FlatSlice ==
  ASSUME NEW S, NEW s, NEW lo, NEW hi, NEW a, IsSlice(S, s, lo, hi, a)
  PROVE  FlattenSeq(a) = SubSeq(s, lo + 1, hi)
<1> DEFINE n == Len(s)
<1>a. s \in Seq(S)
  BY DEF IsSlice
<1>0. n \in Nat /\ lo \in Nat /\ hi \in Nat /\ lo <= hi /\ hi <= n
  BY <1>a DEF IsSlice
<1>1. a \in Seq(Seq(S)) /\ Len(a) = n
      /\ \A k \in 1 .. n : a[k] = IF lo < k /\ k <= hi THEN <<s[k]>> ELSE << >>
  BY <1>0, IsSeq DEF IsSlice
<1> HIDE DEF n
<1>2. PICK f : Parts(S, a, f) /\ FlattenSeq(a) = f[n]
  BY <1>1, PartsExist
<1>3. /\ f[0] = << >> /\ \A k \in 1 .. n : f[k] = f[k - 1] \o a[k]
      /\ \A k \in 0 .. n : f[k] \in Seq(S)
  BY <1>1, <1>2 DEF Parts
<1> DEFINE upto(k) == IF k <= lo THEN lo ELSE IF k <= hi THEN k ELSE hi
           G == {k \in 0 .. n : f[k] = SubSeq(s, lo + 1, upto(k))}
<1>4. 0 \in G
  <2>1. SubSeq(s, lo + 1, lo) = << >>
    <3>1. lo + 1 \in Int /\ lo \in Int /\ lo < lo + 1
      BY <1>0
    <3> QED
      BY <3>1, SubSeqEmpty
  <2>2. upto(0) = lo /\ 0 \in 0 .. n
    BY <1>0
  <2> QED
    BY <1>3, <2>1, <2>2
<1>5. ASSUME NEW k \in 1 .. n, k - 1 \in G PROVE k \in G
  <2>1. k \in Nat /\ k \in 0 .. n /\ k - 1 \in 0 .. n /\ k - 1 \in Nat
    BY <1>0
  <2>2. f[k] = f[k - 1] \o a[k] /\ f[k - 1] = SubSeq(s, lo + 1, upto(k - 1)) /\ f[k - 1] \in Seq(S)
        /\ a[k] = IF lo < k /\ k <= hi THEN <<s[k]>> ELSE << >>
    BY <1>1, <1>3, <1>5, <2>1
  <2>3. CASE lo < k /\ k <= hi
    <3>1. upto(k) = k /\ upto(k - 1) = k - 1
      BY <1>0, <2>1, <2>3
    <3>2. lo + 1 \in 1 .. Len(s) /\ k \in lo + 1 .. Len(s)
      BY <1>0, <2>1, <2>3 DEF n
    <3>3. SubSeq(s, lo + 1, k) = SubSeq(s, lo + 1, k - 1) \o <<s[k]>>
      BY <1>a, <3>2, SubSeqRecursiveSecond
    <3> QED
      BY <2>1, <2>2, <2>3, <3>1, <3>3
  <2>4. CASE ~ (lo < k /\ k <= hi)
    <3>1. upto(k) = upto(k - 1)
      BY <1>0, <2>1, <2>4
    <3>2. f[k - 1] \o << >> = f[k - 1]
      BY <2>2, ConcatEmptySeq
    <3> QED
      BY <2>1, <2>2, <2>4, <3>1, <3>2
  <2> QED
    BY <2>3, <2>4
<1>6. n \in G
  <2> HIDE DEF G
  <2>1. \A k \in 0 .. n : k \in G
    BY <1>0, <1>4, <1>5, Climb
  <2>2. n \in 0 .. n
    BY <1>0
  <2> QED
    BY <2>1, <2>2
<1>7. upto(n) = hi
  BY <1>0
<1> QED
  BY <1>2, <1>6, <1>7

\* Two sequences of pieces are put together one after the other.
LEMMA FlattenConcat ==
  ASSUME NEW S, NEW ss \in Seq(Seq(S)), NEW tt \in Seq(Seq(S))
  PROVE  FlattenSeq(ss \o tt) = FlattenSeq(ss) \o FlattenSeq(tt)
<1> DEFINE m == Len(ss)
           n == Len(tt)
           uu == ss \o tt
<1>0. \A p, q, r \in Seq(S) : (p \o q) \o r = p \o (q \o r)
  BY ConcatAssociative, SMTT(30)
<1>1. /\ m \in Nat /\ n \in Nat /\ uu \in Seq(Seq(S)) /\ Len(uu) = m + n
      /\ \A k \in 1 .. m : uu[k] = ss[k]
      /\ \A k \in 1 .. n : uu[m + k] = tt[k] /\ tt[k] \in Seq(S)
  <2>1. m \in Nat /\ n \in Nat /\ \A k \in 1 .. n : tt[k] \in Seq(S)
    OBVIOUS
  <2> QED
    BY <2>1, Pair
<1> HIDE DEF m, n, uu
<1>2. PICK f : Parts(S, ss, f) /\ FlattenSeq(ss) = f[m]
  BY <1>1, PartsExist DEF m
<1>3. PICK g : Parts(S, tt, g) /\ FlattenSeq(tt) = g[n]
  BY <1>1, PartsExist DEF n
<1>4. PICK h : Parts(S, uu, h) /\ FlattenSeq(uu) = h[m + n]
  BY <1>1, PartsExist
<1>5. /\ h[0] = << >> /\ g[0] = << >> /\ f[m] \in Seq(S)
      /\ \A k \in 1 .. m + n : h[k] = h[k - 1] \o uu[k]
      /\ \A k \in 1 .. n : g[k] = g[k - 1] \o tt[k]
      /\ \A k \in 0 .. n : g[k] \in Seq(S)
      /\ \A k \in 0 .. m + n : h[k] \in Seq(S)
  <2>1. m \in 0 .. m
    BY <1>1
  <2> QED
    BY <1>1, <1>2, <1>3, <1>4, <2>1 DEF Parts, m, n
<1>6. h[m] = f[m]
  <2>1. \A k \in 0 .. m : k \in 0 .. m + n
    BY <1>1
  <2>2. \A k \in 1 .. m : k \in 1 .. m + n
    BY <1>1
  <2>3. Parts(S, ss, h)
    BY <1>1, <1>5, <2>1, <2>2 DEF Parts, m
  <2>4. \A k \in 0 .. Len(ss) : h[k] = f[k]
    BY <1>1, <1>2, <2>3, PartsUnique DEF m
  <2>5. m \in 0 .. m
    BY <1>1
  <2> QED
    BY <2>4, <2>5 DEF m
<1> DEFINE G == {k \in 0 .. n : h[m + k] = f[m] \o g[k]}
<1>7. 0 \in G
  <2>1. 0 \in 0 .. n /\ m + 0 = m
    BY <1>1
  <2>2. f[m] \o << >> = f[m]
    BY <1>5, ConcatEmptySeq
  <2> QED
    BY <1>5, <1>6, <2>1, <2>2
<1>8. ASSUME NEW k \in 1 .. n, k - 1 \in G PROVE k \in G
  <2>1. m + k \in 1 .. m + n /\ (m + k) - 1 = m + (k - 1) /\ k \in 0 .. n /\ k - 1 \in 0 .. n
    BY <1>1
  <2>2. h[m + k] = (f[m] \o g[k - 1]) \o tt[k]
    <3>1. h[m + k] = h[(m + k) - 1] \o uu[m + k]
      BY <1>5, <2>1
    <3> QED
      BY <1>1, <1>8, <2>1, <3>1
  <2>3. (f[m] \o g[k - 1]) \o tt[k] = f[m] \o (g[k - 1] \o tt[k])
    <3>1. f[m] \in Seq(S) /\ g[k - 1] \in Seq(S) /\ tt[k] \in Seq(S)
      BY <1>1, <1>5, <2>1
    <3> QED
      BY <1>0, <3>1
  <2> QED
    BY <1>5, <2>1, <2>2, <2>3
<1>9. n \in G
  <2> HIDE DEF G
  <2>1. \A k \in 0 .. n : k \in G
    BY <1>1, <1>7, <1>8, Climb
  <2>2. n \in 0 .. n
    BY <1>1
  <2> QED
    BY <2>1, <2>2
<1> QED
  BY <1>2, <1>3, <1>4, <1>9 DEF uu

\* A sequence without some elements.
Singles(tokens, X) == [n \in DOMAIN tokens |-> IF tokens[n] \in X THEN << >> ELSE <<tokens[n]>>]

\* What is left of a sequence without X is a sequence.
LEMMA SinglesType ==
  ASSUME NEW S, NEW s \in Seq(S), NEW X
  PROVE  /\ Singles(s, X) \in Seq(Seq(S)) /\ Len(Singles(s, X)) = Len(s) /\ Len(s) \in Nat
         /\ Without(s, X) = FlattenSeq(Singles(s, X)) /\ Without(s, X) \in Seq(S)
<1>1. Len(s) \in Nat /\ DOMAIN s = 1 .. Len(s) /\ \A k \in 1 .. Len(s) : s[k] \in S
  OBVIOUS
<1>2. << >> \in Seq(S) /\ \A y \in S : <<y>> \in Seq(S)
  OBVIOUS
<1>3. Singles(s, X) \in [1 .. Len(s) -> Seq(S)]
  BY <1>1, <1>2 DEF Singles
<1>4. Singles(s, X) \in Seq(Seq(S)) /\ Len(Singles(s, X)) = Len(s)
  BY <1>1, <1>3, IsSeq
<1>5. Without(s, X) = FlattenSeq(Singles(s, X))
  BY DEF Without, Singles
<1> QED
  BY <1>1, <1>4, <1>5, FlattenElements

\* To leave X out is to leave it out on both sides.
LEMMA WithoutConcat ==
  ASSUME NEW S, NEW s \in Seq(S), NEW t \in Seq(S), NEW X
  PROVE  Without(s \o t, X) = Without(s, X) \o Without(t, X)
<1> DEFINE m == Len(s)
           n == Len(t)
           u == s \o t
           p == Singles(s, X)
           q == Singles(t, X)
           r == Singles(u, X)
<1>1. /\ m \in Nat /\ n \in Nat /\ u \in Seq(S) /\ Len(u) = m + n
      /\ \A k \in 1 .. m : u[k] = s[k]
      /\ \A k \in 1 .. n : u[m + k] = t[k]
  <2>1. m \in Nat /\ n \in Nat
    OBVIOUS
  <2> QED
    BY <2>1, Pair
<1>a. DOMAIN s = 1 .. m /\ DOMAIN t = 1 .. n
  OBVIOUS
<1>b. DOMAIN u = 1 .. m + n
  <2> HIDE DEF u, m, n
  <2> QED
    BY <1>1
<1>2. /\ p \in Seq(Seq(S)) /\ Len(p) = m /\ \A k \in 1 .. m : p[k] = IF s[k] \in X THEN << >> ELSE <<s[k]>>
      /\ q \in Seq(Seq(S)) /\ Len(q) = n /\ \A k \in 1 .. n : q[k] = IF t[k] \in X THEN << >> ELSE <<t[k]>>
      /\ r \in Seq(Seq(S)) /\ Len(r) = m + n
      /\ \A k \in 1 .. m + n : r[k] = IF u[k] \in X THEN << >> ELSE <<u[k]>>
  <2>1. /\ p \in Seq(Seq(S)) /\ Len(p) = m /\ q \in Seq(Seq(S)) /\ Len(q) = n
        /\ r \in Seq(Seq(S)) /\ Len(r) = m + n
    BY <1>1, SinglesType
  <2> QED
    BY <1>a, <1>b, <2>1 DEF Singles
<1>3. Without(s, X) = FlattenSeq(p) /\ Without(t, X) = FlattenSeq(q) /\ Without(u, X) = FlattenSeq(r)
  BY <1>1, SinglesType
<1> HIDE DEF m, n, u, p, q, r
<1>4. /\ p \o q \in Seq(Seq(S)) /\ Len(p \o q) = m + n
      /\ \A k \in 1 .. m : (p \o q)[k] = p[k]
      /\ \A k \in 1 .. n : (p \o q)[m + k] = q[k]
  <2> DEFINE T == Seq(S)
  <2>1. p \in Seq(T) /\ q \in Seq(T)
    BY <1>2
  <2> HIDE DEF T
  <2>2. /\ p \o q \in Seq(T) /\ Len(p \o q) = Len(p) + Len(q)
        /\ \A k \in 1 .. Len(p) : (p \o q)[k] = p[k]
        /\ \A k \in 1 .. Len(q) : (p \o q)[Len(p) + k] = q[k]
    BY <2>1, Pair
  <2> QED
    BY <1>2, <2>2 DEF T
<1>5. ASSUME NEW k \in 1 .. m + n PROVE r[k] = (p \o q)[k]
  <2>1. CASE k \in 1 .. m
    <3>1. u[k] = s[k] /\ (p \o q)[k] = p[k]
      BY <1>1, <1>4, <2>1
    <3> QED
      BY <1>2, <2>1, <3>1
  <2>2. CASE k \notin 1 .. m
    <3>1. k - m \in 1 .. n /\ k = m + (k - m)
      BY <1>1, <2>2
    <3>2. u[k] = t[k - m] /\ (p \o q)[k] = q[k - m]
      BY <1>1, <1>4, <3>1
    <3> QED
      BY <1>2, <3>1, <3>2
  <2> QED
    BY <2>1, <2>2
<1>6. r = p \o q
  BY <1>2, <1>4, <1>5, SeqEqual
<1>7. FlattenSeq(p \o q) = FlattenSeq(p) \o FlattenSeq(q)
  BY <1>2, FlattenConcat
<1> QED
  BY <1>3, <1>6, <1>7 DEF u

\* Where there is nothing of X, nothing is left out.
LEMMA WithoutNone ==
  ASSUME NEW S, NEW s \in Seq(S), NEW X, S \cap X = {}
  PROVE  Without(s, X) = s
<1>1. Len(s) \in Nat /\ DOMAIN s = 1 .. Len(s) /\ \A k \in 1 .. Len(s) : s[k] \in S
  OBVIOUS
<1>2. ASSUME NEW k \in 1 .. Len(s)
      PROVE  Singles(s, X)[k] = IF 0 < k /\ k <= Len(s) THEN <<s[k]>> ELSE << >>
  BY <1>1 DEF Singles
<1>3. Singles(s, X) \in [1 .. Len(s) -> Seq(S)]
  <2>1. Singles(s, X) \in Seq(Seq(S)) /\ Len(Singles(s, X)) = Len(s)
    BY SinglesType
  <2> HIDE DEF Singles
  <2> QED
    BY <2>1, LenProperties
<1>4. IsSlice(S, s, 0, Len(s), Singles(s, X))
  BY <1>1, <1>2, <1>3 DEF IsSlice
<1>5. FlattenSeq(Singles(s, X)) = SubSeq(s, 0 + 1, Len(s))
  <2> DEFINE a == Singles(s, X)
  <2> HIDE DEF a
  <2>1. \A lo, hi : IsSlice(S, s, lo, hi, a) => FlattenSeq(a) = SubSeq(s, lo + 1, hi)
    BY FlatSlice
  <2> QED
    BY <1>4, <2>1 DEF a
<1> QED
  BY <1>5, SinglesType, SubSeqFull

\* Where there is nothing but X, all is.
LEMMA WithoutAll ==
  ASSUME NEW S, NEW s \in Seq(S), NEW X, S \subseteq X
  PROVE  Without(s, X) = << >>
<1>1. Len(s) \in Nat /\ DOMAIN s = 1 .. Len(s) /\ \A k \in 1 .. Len(s) : s[k] \in S
  OBVIOUS
<1>2. Singles(s, X) = [k \in 1 .. Len(s) |-> << >>]
  BY <1>1 DEF Singles
<1> QED
  BY <1>1, <1>2, FlatNone, SinglesType

-----------------------------------------------------------------------------
(* The text before a position, and from there on.                          *)

\* What of the lines of t is before position at, and what is from there on.
InText(t, at) == at[1] \in DOMAIN t /\ at[2] \in Nat \ {0} /\ at[2] <= Len(t[at[1]]) + 1
LeadLines(t, at) ==
  [n \in DOMAIN t |-> IF n < at[1] THEN t[n] ELSE IF n = at[1] THEN Before(t[n], at[2]) ELSE << >>]
TrailLines(t, at) ==
  [n \in DOMAIN t |-> IF n < at[1] THEN << >> ELSE IF n = at[1] THEN From(t[n], at[2]) ELSE t[n]]
Lead(t, at)  == FlattenSeq(LeadLines(t, at))
Trail(t, at) == FlattenSeq(TrailLines(t, at))

\* Python's two slices at a column are the line.
LEMMA SliceJoin ==
  ASSUME NEW S, NEW s \in Seq(S), NEW c \in Nat \ {0}, c <= Len(s) + 1
  PROVE  Before(s, c) \in Seq(S) /\ From(s, c) \in Seq(S) /\ Before(s, c) \o From(s, c) = s
<1>1. Before(s, c) \in Seq(S) /\ From(s, c) \in Seq(S)
  BY Slices DEF IsSliced
<1>2. Len(s) \in Nat /\ 1 \in 1 .. Len(s) + 1 /\ c - 1 \in 1 - 1 .. Len(s) /\ Len(s) \in c - 1 .. Len(s)
      /\ (c - 1) + 1 = c /\ ~ (c - 1 > Len(s))
  OBVIOUS
<1>3. SubSeq(s, 1, c - 1) \o SubSeq(s, (c - 1) + 1, Len(s)) = SubSeq(s, 1, Len(s))
  BY <1>2, ConcatAdjacentSubSeq
<1>4. Before(s, c) = SubSeq(s, 1, c - 1) /\ From(s, c) = SubSeq(s, (c - 1) + 1, Len(s))
  BY <1>2 DEF Before, From
<1> QED
  BY <1>1, <1>3, <1>4, SubSeqFull

\* The lines before and behind a position.
AreCut(S, t, at, lead, trail) ==
  /\ Len(t) \in Nat /\ DOMAIN t = 1 .. Len(t) /\ at[1] \in 1 .. Len(t)
  /\ lead \in [1 .. Len(t) -> Seq(S)] /\ trail \in [1 .. Len(t) -> Seq(S)]
  /\ \A n \in 1 .. Len(t) : n < at[1] => lead[n] = t[n] /\ trail[n] = << >>
  /\ lead[at[1]] = Before(t[at[1]], at[2]) /\ trail[at[1]] = From(t[at[1]], at[2])
  /\ \A n \in 1 .. Len(t) : n > at[1] => lead[n] = << >> /\ trail[n] = t[n]

\* The lines are those before a position and those behind it.
LEMMA LinesCut ==
  ASSUME NEW S, NEW t \in Seq(Seq(S)), NEW at, InText(t, at)
  PROVE  AreCut(S, t, at, LeadLines(t, at), TrailLines(t, at))
<1>1. /\ Len(t) \in Nat /\ DOMAIN t = 1 .. Len(t) /\ \A n \in 1 .. Len(t) : t[n] \in Seq(S)
      /\ << >> \in Seq(S)
  OBVIOUS
<1>2. at[1] \in 1 .. Len(t) /\ at[2] \in Nat \ {0} /\ at[2] <= Len(t[at[1]]) + 1
  BY <1>1 DEF InText
<1>3. Before(t[at[1]], at[2]) \in Seq(S) /\ From(t[at[1]], at[2]) \in Seq(S)
  <2>1. t[at[1]] \in Seq(S)
    BY <1>1, <1>2
  <2> QED
    BY <1>2, <2>1, SliceJoin
<1>4. \A n \in 1 .. Len(t) : n = at[1] => Before(t[n], at[2]) \in Seq(S) /\ From(t[n], at[2]) \in Seq(S)
  BY <1>3
<1>5. LeadLines(t, at) \in [1 .. Len(t) -> Seq(S)]
  BY <1>1, <1>4 DEF LeadLines
<1>6. TrailLines(t, at) \in [1 .. Len(t) -> Seq(S)]
  BY <1>1, <1>4 DEF TrailLines
<1>7. ASSUME NEW n \in 1 .. Len(t), n < at[1]
      PROVE  LeadLines(t, at)[n] = t[n] /\ TrailLines(t, at)[n] = << >>
  BY <1>1, <1>7 DEF LeadLines, TrailLines
<1>8. /\ LeadLines(t, at)[at[1]] = Before(t[at[1]], at[2])
      /\ TrailLines(t, at)[at[1]] = From(t[at[1]], at[2])
  <2>1. ~ (at[1] < at[1])
    BY <1>2
  <2> QED
    BY <1>1, <1>2, <2>1 DEF LeadLines, TrailLines
<1>9. ASSUME NEW n \in 1 .. Len(t), n > at[1]
      PROVE  LeadLines(t, at)[n] = << >> /\ TrailLines(t, at)[n] = t[n]
  <2>1. ~ (n < at[1]) /\ n # at[1]
    BY <1>2, <1>9
  <2> QED
    BY <1>1, <2>1 DEF LeadLines, TrailLines
<1> QED
  BY <1>1, <1>2, <1>5, <1>6, <1>7, <1>8, <1>9 DEF AreCut

\* Both sides of a position are sequences of the text's tokens.
LEMMA CutTypes ==
  ASSUME NEW S, NEW t \in Seq(Seq(S)), NEW at, InText(t, at)
  PROVE  Lead(t, at) \in Seq(S) /\ Trail(t, at) \in Seq(S)
<1>1. LeadLines(t, at) \in Seq(Seq(S)) /\ TrailLines(t, at) \in Seq(Seq(S))
  <2>1. AreCut(S, t, at, LeadLines(t, at), TrailLines(t, at))
    BY LinesCut
  <2> QED
    BY <2>1, IsSeq DEF AreCut
<1> QED
  BY <1>1, FlattenElements DEF Lead, Trail

\* The pieces u are those of a up to x, w in the yth, and those of b from y on.
Between(S, n, u, a, x, w, y, b) ==
  /\ n \in Nat /\ x \in 1 .. n /\ y \in 1 .. n /\ x <= y /\ w \in Seq(S)
  /\ u \in [1 .. n -> Seq(S)] /\ a \in [1 .. n -> Seq(S)] /\ b \in [1 .. n -> Seq(S)]
  /\ \A k \in 1 .. n : k > x => a[k] = << >>
  /\ \A k \in 1 .. n : k < y => b[k] = << >>
  /\ \A k \in 1 .. n : u[k] = a[k] \o ((IF k = y THEN w ELSE << >>) \o b[k])

\* Pieces that end in line x, one in line y, and those that start there.
LEMMA ThreeWay ==
  ASSUME NEW S, NEW n, NEW u, NEW a, NEW x, NEW w, NEW y, NEW b, Between(S, n, u, a, x, w, y, b)
  PROVE  FlattenSeq(u) = FlattenSeq(a) \o (w \o FlattenSeq(b))
<1> DEFINE m == [k \in 1 .. n |-> IF k = y THEN w ELSE << >>]
           c == [k \in 1 .. n |-> m[k] \o b[k]]
<1>1. /\ n \in Nat /\ x \in 1 .. n /\ y \in 1 .. n /\ x <= y /\ w \in Seq(S) /\ << >> \in Seq(S)
      /\ u \in [1 .. n -> Seq(S)] /\ a \in [1 .. n -> Seq(S)] /\ b \in [1 .. n -> Seq(S)]
      /\ x \in Int /\ y \in Int
  BY DEF Between
<1>2. /\ \A k \in 1 .. n : k > x => a[k] = << >>
      /\ \A k \in 1 .. n : k < y => b[k] = << >>
      /\ \A k \in 1 .. n : u[k] = a[k] \o ((IF k = y THEN w ELSE << >>) \o b[k])
  BY DEF Between
<1>3. m \in [1 .. n -> Seq(S)] /\ \A k \in 1 .. n : m[k] = IF k = y THEN w ELSE << >>
  BY <1>1
<1> HIDE DEF m
<1>4. ASSUME NEW k \in 1 .. n PROVE m[k] \o b[k] \in Seq(S)
  <2>1. m[k] \in Seq(S) /\ b[k] \in Seq(S)
    BY <1>1, <1>3
  <2> QED
    BY <2>1, ConcatProperties
<1>5. c \in [1 .. n -> Seq(S)] /\ \A k \in 1 .. n : c[k] = m[k] \o b[k]
  BY <1>4
<1> HIDE DEF c
<1>6. ASSUME NEW k \in 1 .. n, k > y PROVE m[k] = << >>
  <2>1. k # y
    BY <1>1, <1>6
  <2> QED
    BY <1>3, <2>1
<1>7. ASSUME NEW k \in 1 .. n, k < x PROVE c[k] = << >>
  <2>1. k < y /\ k # y
    BY <1>1, <1>7
  <2>2. m[k] = << >> /\ b[k] = << >>
    BY <1>2, <1>3, <2>1
  <2>3. << >> \o << >> = << >>
    OBVIOUS
  <2> QED
    BY <1>5, <2>2, <2>3
<1>8. \A k \in 1 .. n : u[k] = a[k] \o c[k]
  BY <1>2, <1>3, <1>5
<1>9. Cut(S, n, u, a, c, x)
  BY <1>1, <1>2, <1>5, <1>7, <1>8 DEF Cut
<1>10. Cut(S, n, c, m, b, y)
  BY <1>1, <1>2, <1>3, <1>5, <1>6 DEF Cut
<1>11. Alone(S, n, m, y, w)
  BY <1>1, <1>3 DEF Alone
<1>12. FlattenSeq(u) = FlattenSeq(a) \o FlattenSeq(c)
  BY <1>9, FlatSplit
<1>13. FlattenSeq(c) = FlattenSeq(m) \o FlattenSeq(b)
  BY <1>10, FlatSplit
<1>14. FlattenSeq(m) = w
  BY <1>11, FlatOne
<1> QED
  BY <1>12, <1>13, <1>14

\* A text that starts like t up to from, has w there, and goes on like s from to.
Composes(t, from, w, s, to, u) ==
  \A n \in 1 .. Len(t) : u[n] = LeadLines(t, from)[n] \o ((IF n = to[1] THEN w ELSE << >>) \o TrailLines(s, to)[n])

\* A text of what is before from, of w, and of what is behind to.
LEMMA Composed ==
  ASSUME NEW S, NEW t \in Seq(Seq(S)), NEW s \in Seq(Seq(S)), Len(s) = Len(t),
         NEW from, InText(t, from), NEW to, InText(s, to), from[1] <= to[1],
         NEW w \in Seq(S), NEW u \in Seq(Seq(S)), Len(u) = Len(t), Composes(t, from, w, s, to, u)
  PROVE  FlattenSeq(u) = Lead(t, from) \o (w \o Trail(s, to))
<1> DEFINE N == Len(t)
           a == LeadLines(t, from)
           b == TrailLines(s, to)
           x == from[1]
           y == to[1]
<1>1. N \in Nat /\ x \in 1 .. N /\ a \in [1 .. N -> Seq(S)] /\ \A n \in 1 .. N : n > x => a[n] = << >>
  <2>1. AreCut(S, t, from, a, TrailLines(t, from))
    BY LinesCut
  <2> HIDE DEF a
  <2> QED
    BY <2>1 DEF AreCut
<1>2. y \in 1 .. N /\ b \in [1 .. N -> Seq(S)] /\ \A n \in 1 .. N : n < y => b[n] = << >>
  <2>1. AreCut(S, s, to, LeadLines(s, to), b)
    BY LinesCut
  <2> HIDE DEF b
  <2> QED
    BY <2>1 DEF AreCut
<1>3. u \in [1 .. N -> Seq(S)]
  OBVIOUS
<1>4. \A n \in 1 .. N : u[n] = a[n] \o ((IF n = y THEN w ELSE << >>) \o b[n])
  BY DEF Composes
<1>5. x <= y
  OBVIOUS
<1> HIDE DEF N, a, b, x, y
<1>6. Between(S, N, u, a, x, w, y, b)
  BY <1>1, <1>2, <1>3, <1>4, <1>5 DEF Between
<1>7. FlattenSeq(u) = FlattenSeq(a) \o (w \o FlattenSeq(b))
  BY <1>6, ThreeWay
<1> QED
  BY <1>7 DEF Lead, Trail, a, b

\* A text is what is before a position and what is behind it.
LEMMA CutJoin ==
  ASSUME NEW S, NEW t \in Seq(Seq(S)), NEW at, InText(t, at)
  PROVE  FlattenSeq(t) = Lead(t, at) \o Trail(t, at)
<1> DEFINE a == LeadLines(t, at)
           b == TrailLines(t, at)
           N == Len(t)
           x == at[1]
           line == t[x]
<1>1. AreCut(S, t, at, a, b)
  BY LinesCut
<1>2. t \in [1 .. N -> Seq(S)]
  OBVIOUS
<1>3. line \in Seq(S) /\ at[2] \in Nat \ {0} /\ at[2] <= Len(line) + 1
  BY DEF InText
<1>4. Before(line, at[2]) \o From(line, at[2]) = line
  BY <1>3, SliceJoin
<1> HIDE DEF a, b
<1>5. /\ N \in Nat /\ x \in 1 .. N /\ a \in [1 .. N -> Seq(S)] /\ b \in [1 .. N -> Seq(S)]
      /\ \A n \in 1 .. N : n < x => a[n] = t[n] /\ b[n] = << >>
      /\ a[x] = Before(line, at[2]) /\ b[x] = From(line, at[2])
      /\ \A n \in 1 .. N : n > x => a[n] = << >> /\ b[n] = t[n]
  BY <1>1 DEF AreCut
<1>6. t[x] = a[x] \o b[x]
  BY <1>4, <1>5
<1> HIDE DEF N, x, line
<1>7. ASSUME NEW n \in 1 .. N PROVE t[n] = a[n] \o b[n]
  <2>1. t[n] \in Seq(S)
    BY <1>2
  <2>2. t[n] \o << >> = t[n] /\ << >> \o t[n] = t[n]
    BY <2>1, ConcatEmptySeq
  <2>3. n < x \/ n = x \/ n > x
    BY <1>5
  <2> QED
    BY <1>5, <1>6, <2>2, <2>3
<1>8. Cut(S, N, t, a, b, x)
  <2>1. x \in Int
    BY <1>5
  <2> QED
    BY <1>2, <1>5, <1>7, <2>1 DEF Cut
<1> QED
  BY <1>8, FlatSplit DEF Lead, Trail, a, b

\* What Insert does to the tokens of a text.
LEMMA InsertFlat ==
  ASSUME NEW S, NEW t \in Seq(Seq(S)), NEW at, InText(t, at), NEW tokens \in Seq(S)
  PROVE  FlattenSeq(Insert(t, at, tokens)) = Lead(t, at) \o (tokens \o Trail(t, at))
<1> DEFINE a == LeadLines(t, at)
           b == TrailLines(t, at)
           N == Len(t)
           x == at[1]
           line == t[x]
           u == Insert(t, at, tokens)
<1>1. AreCut(S, t, at, a, b)
  BY LinesCut
<1>2. t \in [1 .. N -> Seq(S)] /\ N \in Nat /\ DOMAIN t = 1 .. N
  OBVIOUS
<1>3. line \in Seq(S) /\ at[2] \in Nat \ {0} /\ at[2] <= Len(line) + 1 /\ x \in 1 .. N
  BY DEF InText
<1>4. Before(line, at[2]) \in Seq(S) /\ From(line, at[2]) \in Seq(S)
  BY <1>3, SliceJoin
<1>5. u \in Seq(Seq(S)) /\ Len(u) = N
  <2>1. IsInserted(S, t, at, tokens, u)
    BY <1>2, <1>3, InsertIs
  <2> HIDE DEF u
  <2>2. u \in Seq(Seq(S)) /\ DOMAIN u = 1 .. N
    BY <1>2, <2>1 DEF IsInserted
  <2> QED
    BY <1>2, <2>2
<1>6. /\ u[x] = Before(line, at[2]) \o tokens \o From(line, at[2])
      /\ \A n \in 1 .. N : n # x => u[n] = t[n]
  BY <1>2, <1>3 DEF Insert
<1> HIDE DEF a, b, u
<1>7. /\ N \in Nat /\ x \in 1 .. N /\ a \in [1 .. N -> Seq(S)] /\ b \in [1 .. N -> Seq(S)]
      /\ \A n \in 1 .. N : n < x => a[n] = t[n] /\ b[n] = << >>
      /\ a[x] = Before(line, at[2]) /\ b[x] = From(line, at[2])
      /\ \A n \in 1 .. N : n > x => a[n] = << >> /\ b[n] = t[n]
  BY <1>1 DEF AreCut
<1>8. u[x] = a[x] \o (tokens \o b[x])
  <2>1. (Before(line, at[2]) \o tokens) \o From(line, at[2]) = Before(line, at[2]) \o (tokens \o From(line, at[2]))
    BY <1>4, ConcatAssociative
  <2> QED
    BY <1>6, <1>7, <2>1
<1>a. N \in Nat /\ x \in Nat
  BY <1>2, <1>3
<1> HIDE DEF N, x, line
<1>9. ASSUME NEW n \in 1 .. N PROVE u[n] = a[n] \o ((IF n = x THEN tokens ELSE << >>) \o b[n])
  <2>1. t[n] \in Seq(S)
    BY <1>2
  <2>2. t[n] \o << >> = t[n] /\ << >> \o t[n] = t[n]
    BY <2>1, ConcatEmptySeq
  <2>3. << >> \o << >> = << >>
    OBVIOUS
  <2>4. CASE n = x
    BY <1>8, <2>4
  <2>5. CASE n < x
    <3>1. n # x
      BY <1>a, <2>5
    <3>2. a[n] = t[n] /\ b[n] = << >>
      BY <1>7, <2>5
    <3> QED
      BY <1>6, <2>2, <2>3, <3>1, <3>2
  <2>6. CASE n > x
    <3>1. n # x
      BY <1>a, <2>6
    <3>2. a[n] = << >> /\ b[n] = t[n]
      BY <1>7, <2>6
    <3> QED
      BY <1>6, <2>2, <3>1, <3>2
  <2>7. n < x \/ n = x \/ n > x
    BY <1>a
  <2> QED
    BY <2>4, <2>5, <2>6, <2>7
<1>10. Composes(t, at, tokens, t, at, u)
  BY <1>9 DEF Composes, N, x, a, b
<1>11. at[1] <= at[1]
  BY <1>7 DEF x
<1>12. Len(u) = Len(t)
  BY <1>5 DEF N
<1> QED
  BY <1>5, <1>10, <1>11, <1>12, Composed DEF u

\* What Replace does to the tokens of a text.
LEMMA ReplaceFlat ==
  ASSUME NEW S, NEW t \in Seq(Seq(S)), NEW from, InText(t, from), NEW to, InText(t, to), Leq(from, to),
         NEW token \in S
  PROVE  FlattenSeq(Replace(t, from, to, token)) = Lead(t, from) \o (<<token>> \o Trail(t, to))
<1> DEFINE a == LeadLines(t, from)
           b == TrailLines(t, to)
           N == Len(t)
           x == from[1]
           y == to[1]
           w == <<token>>
           u == Replace(t, from, to, token)
<1>0. \A p, q, r \in Seq(S) : (p \o q) \o r = p \o (q \o r)
  BY ConcatAssociative, SMTT(30)
<1>1. AreCut(S, t, from, a, TrailLines(t, from)) /\ AreCut(S, t, to, LeadLines(t, to), b)
  BY LinesCut
<1>2. t \in [1 .. N -> Seq(S)] /\ N \in Nat /\ DOMAIN t = 1 .. N
  OBVIOUS
<1>3. /\ x \in 1 .. N /\ y \in 1 .. N /\ x <= y /\ w \in Seq(S) /\ x \in Nat /\ y \in Nat
      /\ from[2] \in Nat \ {0} /\ from[2] <= Len(t[x]) + 1 /\ to[2] \in Nat \ {0} /\ to[2] <= Len(t[y]) + 1
  BY SMTT(30) DEF InText, Leq
<1>4. u \in Seq(Seq(S)) /\ Len(u) = N
  <2>1. IsReplaced(S, t, from, to, token, u)
    BY <1>2, <1>3, ReplaceIs
  <2> HIDE DEF u
  <2>2. u \in Seq(Seq(S)) /\ DOMAIN u = 1 .. N
    BY <1>2, <2>1 DEF IsReplaced
  <2> QED
    BY <1>2, <2>2
<1> DEFINE head(n) == IF n = x THEN Before(t[n], from[2]) ELSE << >>
<1>5. /\ \A n \in 1 .. N : n < x \/ n > y => u[n] = t[n]
      /\ u[y] = head(y) \o w \o From(t[y], to[2])
      /\ \A n \in 1 .. N : x <= n /\ n < y => u[n] = head(n)
  <2>1. \A n \in 1 .. N : u[n] = CASE n < x \/ n > y -> t[n]
                                   [] n = y -> head(n) \o w \o From(t[n], to[2])
                                   [] OTHER -> head(n)
    BY <1>2 DEF Replace
  <2> HIDE DEF head, u, w, x, y, N
  <2>2. ASSUME NEW n \in 1 .. N, n < x \/ n > y PROVE u[n] = t[n]
    <3>1. n # y
      BY <1>2, <1>3, <2>2
    <3> QED
      BY <2>1, <2>2, <3>1
  <2>3. u[y] = head(y) \o w \o From(t[y], to[2])
    <3>1. ~ (y < x) /\ ~ (y > y)
      BY <1>3
    <3> QED
      BY <1>3, <2>1, <3>1
  <2>4. ASSUME NEW n \in 1 .. N, x <= n, n < y PROVE u[n] = head(n)
    <3>1. ~ (n < x) /\ ~ (n > y) /\ n # y
      BY <1>2, <1>3, <2>4
    <3> QED
      BY <2>1, <3>1
  <2> QED
    BY <2>2, <2>3, <2>4
<1> HIDE DEF u, a, b
<1>6. /\ \A n \in 1 .. N : n < x => a[n] = t[n]
      /\ a[x] = Before(t[x], from[2]) /\ \A n \in 1 .. N : n > x => a[n] = << >>
      /\ \A n \in 1 .. N : n < y => b[n] = << >>
      /\ b[y] = From(t[y], to[2]) /\ \A n \in 1 .. N : n > y => b[n] = t[n]
      /\ a \in [1 .. N -> Seq(S)] /\ b \in [1 .. N -> Seq(S)]
  BY <1>1 DEF AreCut
<1> HIDE DEF N, x, y, w
<1>7. ASSUME NEW n \in 1 .. N, x <= n PROVE head(n) = a[n]
  <2>1. n = x \/ (n # x /\ n > x)
    BY <1>3, <1>7
  <2> QED
    BY <1>6, <2>1
<1> HIDE DEF head
<1>8. ASSUME NEW n \in 1 .. N PROVE u[n] = a[n] \o ((IF n = y THEN w ELSE << >>) \o b[n])
  <2>1. t[n] \in Seq(S) /\ a[n] \in Seq(S) /\ b[n] \in Seq(S)
    BY <1>2, <1>6
  <2>2. /\ t[n] \o << >> = t[n] /\ << >> \o t[n] = t[n] /\ a[n] \o << >> = a[n]
    BY <2>1, ConcatEmptySeq
  <2>3. << >> \o << >> = << >>
    OBVIOUS
  <2>4. CASE n < x
    <3>1. n # y /\ n < y
      BY <1>2, <1>3, <2>4
    <3>2. a[n] = t[n] /\ b[n] = << >> /\ u[n] = t[n]
      BY <1>5, <1>6, <2>4, <3>1
    <3> QED
      BY <2>2, <2>3, <3>1, <3>2
  <2>5. CASE x <= n /\ n < y
    <3>1. n # y
      BY <1>2, <1>3, <2>5
    <3>2. b[n] = << >> /\ u[n] = a[n]
      BY <1>5, <1>6, <1>7, <2>5
    <3> QED
      BY <2>2, <2>3, <3>1, <3>2
  <2>6. CASE n = y
    <3>1. u[n] = (a[n] \o w) \o b[n]
      BY <1>3, <1>5, <1>6, <1>7, <2>6
    <3>2. (a[n] \o w) \o b[n] = a[n] \o (w \o b[n])
      BY <1>0, <1>3, <2>1, ZenonT(30)
    <3> QED
      BY <2>6, <3>1, <3>2
  <2>7. CASE n > y
    <3>1. n # y /\ n > x
      BY <1>2, <1>3, <2>7
    <3>2. a[n] = << >> /\ b[n] = t[n] /\ u[n] = t[n]
      BY <1>5, <1>6, <2>7, <3>1
    <3> QED
      BY <2>2, <2>3, <3>1, <3>2
  <2>8. n < x \/ (x <= n /\ n < y) \/ n = y \/ n > y
    BY <1>2, <1>3
  <2> QED
    BY <2>4, <2>5, <2>6, <2>7, <2>8
<1>9. Composes(t, from, w, t, to, u)
  BY <1>8 DEF Composes, N, y, a, b
<1>10. from[1] <= to[1] /\ Len(u) = Len(t) /\ w \in Seq(S) /\ u \in Seq(Seq(S))
  BY <1>3, <1>4 DEF x, y, N
<1>11. FlattenSeq(u) = Lead(t, from) \o (w \o Trail(t, to))
  BY <1>9, <1>10, Composed
<1> QED
  BY <1>11 DEF u, w

-----------------------------------------------------------------------------
(* Positions as offsets in the tokens of the text.                         *)

\* The two sides of a concatenation are its slices.
LEMMA Halves ==
  ASSUME NEW S, NEW a \in Seq(S), NEW b \in Seq(S), NEW s, s = a \o b
  PROVE  /\ s \in Seq(S) /\ Len(s) = Len(a) + Len(b)
         /\ a = SubSeq(s, 1, Len(a)) /\ b = SubSeq(s, Len(a) + 1, Len(s))
<1>1. /\ s \in Seq(S) /\ Len(s) = Len(a) + Len(b)
      /\ \A k \in 1 .. Len(a) : s[k] = a[k]
      /\ \A k \in 1 .. Len(b) : s[Len(a) + k] = b[k]
  BY Pair
<1>2. Len(a) \in Nat /\ Len(b) \in Nat /\ DOMAIN s = 1 .. Len(s)
  <2>1. Len(a) \in Nat /\ Len(b) \in Nat
    OBVIOUS
  <2> QED
    BY <1>1, <2>1
<1> DEFINE m == Len(a)
           n == Len(b)
           p == SubSeq(s, 1, m)
           q == SubSeq(s, m + 1, Len(s))
<1>4. p \in Seq(S) /\ Len(p) = m /\ \A k \in 1 .. m : p[k] = s[k]
  <2>1. s \in Seq(S) /\ m \in Nat /\ m <= Len(s) /\ Len(s) \in Nat
    BY <1>1, <1>2
  <2> HIDE DEF m
  <2> QED
    BY <2>1
<1>5. q \in Seq(S) /\ Len(q) = n /\ \A k \in 1 .. n : q[k] = s[m + k]
  <2> DEFINE N == Len(s)
  <2>1. s \in Seq(S) /\ m \in Nat /\ n \in Nat /\ N = m + n /\ Len(s) = N /\ N \in Nat
    BY <1>1, <1>2
  <2> HIDE DEF m, n, N
  <2>2. q = SubSeq(s, m + 1, N)
    BY DEF N
  <2>3. q \in Seq(S) /\ Len(q) = N - m
    <3> HIDE DEF q
    <3>1. SubSeq(s, m + 1, N) \in Seq(S) /\ Len(SubSeq(s, m + 1, N)) = N - m
      BY <2>1
    <3> QED
      BY <2>2, <3>1
  <2>4. SubSeq(s, m + 1, N) = [k \in 1 .. N - (m + 1) + 1 |-> s[(m + 1) + k - 1]]
    BY <2>1
  <2>5. ASSUME NEW k \in 1 .. n PROVE q[k] = s[m + k]
    <3>1. k \in 1 .. N - (m + 1) + 1 /\ (m + 1) + k - 1 = m + k
      BY <2>1
    <3> HIDE DEF q
    <3> QED
      BY <2>2, <2>4, <3>1
  <2> QED
    BY <2>1, <2>3, <2>5
<1>6. a = p
  <2> HIDE DEF p
  <2> QED
    BY <1>1, <1>4, SeqEqual
<1>7. b = q
  <2> HIDE DEF q
  <2> QED
    BY <1>1, <1>5, SeqEqual
<1> QED
  BY <1>1, <1>6, <1>7

\* Equal sides are taken off in front,
LEMMA CancelFront ==
  ASSUME NEW S, NEW a \in Seq(S), NEW b \in Seq(S), NEW c \in Seq(S), a \o b = a \o c
  PROVE  b = c
<1>1. /\ b = SubSeq(a \o b, Len(a) + 1, Len(a \o b))
      /\ c = SubSeq(a \o c, Len(a) + 1, Len(a \o c))
  BY Halves
<1> QED
  BY <1>1

\* and behind.
LEMMA CancelBack ==
  ASSUME NEW S, NEW a \in Seq(S), NEW b \in Seq(S), NEW c \in Seq(S), b \o a = c \o a
  PROVE  b = c
<1>1. /\ b = SubSeq(b \o a, 1, Len(b)) /\ Len(b \o a) = Len(b) + Len(a)
      /\ c = SubSeq(c \o a, 1, Len(c)) /\ Len(c \o a) = Len(c) + Len(a)
  BY Halves
<1>2. Len(b) = Len(c)
  <2>1. Len(a) \in Nat /\ Len(b) \in Nat /\ Len(c) \in Nat
    OBVIOUS
  <2>2. Len(b) + Len(a) = Len(c) + Len(a)
    BY <1>1
  <2> QED
    BY <2>1, <2>2
<1> QED
  BY <1>1, <1>2

\* Up to a position there are the lines before it and the start of its own.
LEMMA LeadIs ==
  ASSUME NEW S, NEW t \in Seq(Seq(S)), NEW at, InText(t, at), NEW f, Parts(S, t, f)
  PROVE  Lead(t, at) = f[at[1] - 1] \o Before(t[at[1]], at[2])
<1> DEFINE a == LeadLines(t, at)
           N == Len(t)
           x == at[1]
           w == Before(t[x], at[2])
<1>1. AreCut(S, t, at, a, TrailLines(t, at))
  BY LinesCut
<1> HIDE DEF a
<1>2. /\ N \in Nat /\ x \in 1 .. N /\ a \in [1 .. N -> Seq(S)] /\ a[x] = w /\ w \in Seq(S)
      /\ \A n \in 1 .. N : n < x => a[n] = t[n]
      /\ \A n \in 1 .. N : n > x => a[n] = << >>
  BY <1>1 DEF AreCut
<1> HIDE DEF w, x, N
<1>3. a \in Seq(Seq(S)) /\ Len(a) = N
  BY <1>2, IsSeq
<1>4. PICK g : Parts(S, a, g) /\ FlattenSeq(a) = g[N]
  BY <1>3, PartsExist
<1>5. /\ g[0] = << >> /\ \A k \in 1 .. N : g[k] = g[k - 1] \o a[k]
      /\ \A k \in 0 .. N : g[k] \in Seq(S)
  BY <1>3, <1>4 DEF Parts
<1>6. f[0] = << >> /\ \A k \in 1 .. N : f[k] = f[k - 1] \o t[k]
  BY DEF Parts, N
<1> DEFINE G == {k \in 0 .. N : g[k] = IF k < x THEN f[k] ELSE f[x - 1] \o w}
<1>7. 0 \in G
  <2>1. 0 \in 0 .. N /\ 0 < x
    BY <1>2
  <2> QED
    BY <1>5, <1>6, <2>1
<1>8. ASSUME NEW k \in 1 .. N, k - 1 \in G PROVE k \in G
  <2>1. k \in Nat /\ k \in 0 .. N /\ x \in Nat
    BY <1>2
  <2>2. g[k] = g[k - 1] \o a[k] /\ f[k] = f[k - 1] \o t[k] /\ g[k] \in Seq(S)
        /\ g[k - 1] = IF k - 1 < x THEN f[k - 1] ELSE f[x - 1] \o w
    BY <1>5, <1>6, <1>8, <2>1
  <2>3. CASE k < x
    <3>1. k - 1 < x
      BY <2>1, <2>3
    <3>2. g[k] = f[k]
      BY <1>2, <2>2, <2>3, <3>1
    <3> QED
      BY <2>1, <2>3, <3>2
  <2>4. CASE k = x
    <3>1. k - 1 < x /\ ~ (k < x)
      BY <2>1, <2>4
    <3>2. g[k] = f[x - 1] \o w
      BY <1>2, <2>2, <2>4, <3>1
    <3> QED
      BY <2>1, <3>1, <3>2
  <2>5. CASE k > x
    <3>1. ~ (k - 1 < x) /\ ~ (k < x) /\ k - 1 \in 0 .. N
      BY <1>2, <2>1, <2>5
    <3>2. g[k - 1] \o << >> = g[k - 1]
      <4>1. g[k - 1] \in Seq(S)
        BY <1>5, <3>1
      <4> QED
        BY <4>1, ConcatEmptySeq
    <3>3. a[k] = << >>
      BY <1>2, <2>5
    <3>4. g[k] = f[x - 1] \o w
      BY <2>2, <3>1, <3>2, <3>3
    <3> QED
      BY <2>1, <3>1, <3>4
  <2> QED
    BY <2>1, <2>3, <2>4, <2>5
<1>9. N \in G
  <2> HIDE DEF G
  <2>1. \A k \in 0 .. N : k \in G
    BY <1>2, <1>7, <1>8, Climb
  <2>2. N \in 0 .. N
    BY <1>2
  <2> QED
    BY <2>1, <2>2
<1>10. ~ (N < x)
  BY <1>2
<1> QED
  BY <1>4, <1>9, <1>10 DEF Lead, a, x, w

\* The pieces put together get longer.
LEMMA PartsGrow ==
  ASSUME NEW S, NEW ss \in Seq(Seq(S)), NEW f, Parts(S, ss, f)
  PROVE  /\ \A k \in 0 .. Len(ss) : Len(f[k]) \in Nat
         /\ \A k \in 1 .. Len(ss) : Len(f[k]) = Len(f[k - 1]) + Len(ss[k])
         /\ \A j, k \in 0 .. Len(ss) : j <= k => Len(f[j]) <= Len(f[k])
<1> DEFINE N == Len(ss)
<1>1. N \in Nat /\ \A k \in 1 .. N : ss[k] \in Seq(S) /\ Len(ss[k]) \in Nat
  OBVIOUS
<1>2. /\ \A k \in 1 .. N : f[k] = f[k - 1] \o ss[k]
      /\ \A k \in 0 .. N : f[k] \in Seq(S)
  BY DEF Parts
<1> HIDE DEF N
<1>3. \A k \in 0 .. N : Len(f[k]) \in Nat
  BY <1>2, LenProperties
<1>4. ASSUME NEW k \in 1 .. N PROVE Len(f[k]) = Len(f[k - 1]) + Len(ss[k])
  <2>1. k - 1 \in 0 .. N
    BY <1>1
  <2> DEFINE p == f[k - 1]
             q == ss[k]
  <2>2. p \in Seq(S) /\ q \in Seq(S) /\ f[k] = p \o q
    BY <1>1, <1>2, <2>1
  <2> HIDE DEF p, q
  <2>3. Len(p \o q) = Len(p) + Len(q)
    BY <2>2, ConcatProperties
  <2> QED
    BY <2>2, <2>3 DEF p, q
<1>5. ASSUME NEW j \in 0 .. N, NEW k \in 0 .. N, j <= k PROVE Len(f[j]) <= Len(f[k])
  <2> DEFINE G == {n \in 0 .. N : j <= n => Len(f[j]) <= Len(f[n])}
  <2>1. 0 \in G
    <3>1. j <= 0 => j = 0
      BY <1>1
    <3>2. Len(f[j]) <= Len(f[j])
      BY <1>3
    <3>3. j <= 0 => Len(f[j]) <= Len(f[0])
      BY <3>1, <3>2
    <3>4. 0 \in 0 .. N
      BY <1>1
    <3> QED
      BY <3>3, <3>4
  <2>2. ASSUME NEW n \in 1 .. N, n - 1 \in G PROVE n \in G
    <3>1. n \in 0 .. N /\ n - 1 \in 0 .. N
      BY <1>1
    <3>2. CASE j <= n - 1
      <4> DEFINE lj == Len(f[j])
                 lm == Len(f[n - 1])
                 ln == Len(f[n])
                 ls == Len(ss[n])
      <4>1. lj \in Nat /\ lm \in Nat /\ ln \in Nat /\ ls \in Nat
        BY <1>1, <1>3, <3>1
      <4>2. lj <= lm /\ ln = lm + ls
        BY <1>4, <2>2, <3>2
      <4> HIDE DEF lj, lm, ln, ls
      <4>3. lj <= ln
        BY <4>1, <4>2
      <4> QED
        BY <3>1, <4>3 DEF lj, ln
    <3>3. CASE ~ (j <= n - 1)
      <4>1. j <= n => j = n
        BY <1>1, <3>1, <3>3
      <4>2. Len(f[j]) <= Len(f[j])
        BY <1>3
      <4>3. j <= n => Len(f[j]) <= Len(f[n])
        BY <4>1, <4>2
      <4> QED
        BY <3>1, <4>3
    <3> QED
      BY <3>2, <3>3
  <2> HIDE DEF G
  <2>3. \A n \in 0 .. N : n \in G
    BY <1>1, <2>1, <2>2, Climb
  <2>4. k \in G
    BY <2>3
  <2> QED
    BY <1>5, <2>4 DEF G
<1> QED
  BY <1>3, <1>4, <1>5 DEF N

\* Offsets count what is before a position.
LEMMA OffsetIs ==
  ASSUME NEW S, NEW p, p.lines \in Seq(Seq(S)), NEW at, InText(p.lines, at), NEW f, Parts(S, p.lines, f)
  PROVE  /\ Offset(p, at) = Len(f[at[1] - 1]) + at[2] - 1
         /\ Len(f[at[1] - 1]) \in Nat /\ Offset(p, at) \in Nat
         /\ Offset(p, at) = Len(Lead(p.lines, at))
<1> DEFINE t == p.lines
           x == at[1]
           c == at[2]
<1>1. t \in Seq(Seq(S)) /\ x \in 1 .. Len(t) /\ c \in Nat \ {0} /\ c <= Len(t[x]) + 1 /\ Len(t) \in Nat
      /\ t[x] \in Seq(S) /\ InText(t, at) /\ Parts(S, t, f)
  BY DEF InText
<1>2. Offset(p, at) = Len(FlattenSeq(SubSeq(t, 1, x - 1))) + c - 1
  BY DEF Offset
<1>3. Lead(t, at) = f[x - 1] \o Before(t[x], c)
  BY <1>1, LeadIs
<1>4. IsSliced(S, t[x], c)
  BY <1>1, Slices
<1> HIDE DEF t, x, c
<1>5. x - 1 \in 0 .. Len(t)
  BY <1>1
<1>6. FlattenSeq(SubSeq(t, 1, x - 1)) = f[x - 1]
  BY <1>1, <1>5, FlattenUpTo
<1>7. f[x - 1] \in Seq(S) /\ Len(f[x - 1]) \in Nat
  <2>1. f[x - 1] \in Seq(S)
    BY <1>1, <1>5 DEF Parts
  <2> QED
    BY <2>1, LenProperties
<1>8. Before(t[x], c) \in Seq(S) /\ Len(Before(t[x], c)) = c - 1
  BY <1>4 DEF IsSliced
<1>9. Len(Lead(t, at)) = Len(f[x - 1]) + (c - 1)
  <2> DEFINE g == f[x - 1]
             w == Before(t[x], c)
  <2>1. g \in Seq(S) /\ w \in Seq(S) /\ Lead(t, at) = g \o w /\ Len(w) = c - 1
    BY <1>3, <1>7, <1>8
  <2> HIDE DEF g, w
  <2>2. Len(g \o w) = Len(g) + Len(w)
    BY <2>1, ConcatProperties
  <2> QED
    BY <2>1, <2>2 DEF g
<1>10. Len(f[x - 1]) + (c - 1) = Len(f[x - 1]) + c - 1 /\ Len(f[x - 1]) + c - 1 \in Nat
  BY <1>1, <1>7
<1> QED
  BY <1>2, <1>6, <1>7, <1>9, <1>10 DEF t, x, c

IsOffset(S, p, at, m) ==
  /\ m \in Nat /\ m <= Len(FlattenSeq(p.lines)) /\ Len(FlattenSeq(p.lines)) \in Nat
  /\ FlattenSeq(p.lines) \in Seq(S)
  /\ Lead(p.lines, at) = SubSeq(FlattenSeq(p.lines), 1, m)
  /\ Trail(p.lines, at) = SubSeq(FlattenSeq(p.lines), m + 1, Len(FlattenSeq(p.lines)))

\* A position cuts the text at its offset.
LEMMA Offsets ==
  ASSUME NEW S, NEW p, p.lines \in Seq(Seq(S)), NEW at, InText(p.lines, at)
  PROVE  IsOffset(S, p, at, Offset(p, at))
<1> DEFINE t == p.lines
           F == FlattenSeq(t)
           a == Lead(t, at)
           b == Trail(t, at)
<1>0. t \in Seq(Seq(S)) /\ InText(t, at)
  OBVIOUS
<1>1. PICK f : Parts(S, t, f)
  <2> HIDE DEF t
  <2> QED
    BY <1>0, PartsExist
<1>2. Offset(p, at) = Len(a)
  BY <1>1, OffsetIs
<1> HIDE DEF t
<1>3. F = a \o b /\ a \in Seq(S) /\ b \in Seq(S)
  BY <1>0, CutJoin, CutTypes
<1> HIDE DEF a, b, F
<1>4. /\ F \in Seq(S) /\ Len(F) = Len(a) + Len(b)
      /\ a = SubSeq(F, 1, Len(a)) /\ b = SubSeq(F, Len(a) + 1, Len(F))
  BY <1>3, Halves
<1>5. Len(a) \in Nat /\ Len(b) \in Nat
  BY <1>3, LenProperties
<1>6. Len(F) \in Nat /\ Len(a) <= Len(F)
  BY <1>4, <1>5
<1> QED
  BY <1>2, <1>4, <1>5, <1>6 DEF IsOffset, F, a, b, t

\* The order of positions is that of their offsets.
LEMMA OffsetsOrdered ==
  ASSUME NEW S, NEW p, p.lines \in Seq(Seq(S)), NEW a, InText(p.lines, a), NEW b, InText(p.lines, b), Leq(a, b)
  PROVE  /\ Offset(p, a) <= Offset(p, b)
         /\ a[2] <= Len(p.lines[a[1]]) /\ ~ Leq(b, a) => Offset(p, a) < Offset(p, b)
<1> DEFINE t == p.lines
           l == a[1]
           c == a[2]
           m == b[1]
           d == b[2]
           N == Len(t)
<1>1. /\ t \in Seq(Seq(S)) /\ N \in Nat /\ l \in 1 .. N /\ m \in 1 .. N
      /\ c \in Nat \ {0} /\ c <= Len(t[l]) + 1 /\ Len(t[l]) \in Nat /\ d \in Nat \ {0}
  <2>1. t \in Seq(Seq(S)) /\ N \in Nat /\ DOMAIN t = 1 .. N
    OBVIOUS
  <2>2. l \in 1 .. N /\ m \in 1 .. N /\ c \in Nat \ {0} /\ c <= Len(t[l]) + 1 /\ d \in Nat \ {0}
    BY <2>1 DEF InText
  <2>3. t[l] \in Seq(S)
    BY <2>1, <2>2
  <2> QED
    BY <2>1, <2>2, <2>3, LenProperties
<1>2. PICK f : Parts(S, t, f)
  <2> HIDE DEF t
  <2> QED
    BY <1>1, PartsExist
<1>3. Offset(p, a) = Len(f[l - 1]) + c - 1 /\ Offset(p, b) = Len(f[m - 1]) + d - 1
  <2>1. Offset(p, a) = Len(f[l - 1]) + c - 1
    BY <1>2, OffsetIs, SMTT(30)
  <2>2. Offset(p, b) = Len(f[m - 1]) + d - 1
    BY <1>2, OffsetIs, SMTT(30)
  <2> QED
    BY <2>1, <2>2
<1>4. l < m \/ (l = m /\ c <= d)
  BY DEF Leq
<1>5. ~ Leq(b, a) => ~ (m < l \/ (m = l /\ d <= c))
  BY DEF Leq
<1>a. Offset(p, a) = Offset(p, a) /\ (a[2] <= Len(p.lines[a[1]]) <=> c <= Len(t[l]))
  OBVIOUS
<1> HIDE DEF t, l, c, m, d, N
<1>6. /\ \A k \in 0 .. N : Len(f[k]) \in Nat
      /\ \A k \in 1 .. N : Len(f[k]) = Len(f[k - 1]) + Len(t[k])
      /\ \A j, k \in 0 .. N : j <= k => Len(f[j]) <= Len(f[k])
  BY <1>1, <1>2, PartsGrow DEF N
<1>7. /\ Len(f[l - 1]) \in Nat /\ Len(f[m - 1]) \in Nat /\ Len(f[l]) \in Nat
      /\ Len(f[l]) = Len(f[l - 1]) + Len(t[l])
      /\ l < m => Len(f[l]) <= Len(f[m - 1])
  <2>1. l - 1 \in 0 .. N /\ m - 1 \in 0 .. N /\ l \in 0 .. N /\ (l < m => l <= m - 1)
    BY <1>1
  <2> QED
    BY <1>1, <1>6, <2>1
<1>8. CASE l < m
  <2> DEFINE u == Len(f[l - 1])
             v == Len(f[m - 1])
             w == Len(t[l])
  <2>1. u \in Nat /\ v \in Nat /\ w \in Nat /\ c \in Nat /\ d \in Nat /\ d # 0 /\ u + w <= v /\ c <= w + 1
    BY <1>1, <1>7, <1>8
  <2> HIDE DEF u, v, w
  <2>2. u + c - 1 <= v + d - 1 /\ (c <= w => u + c - 1 < v + d - 1)
    BY <2>1
  <2> QED
    BY <1>3, <1>a, <2>2 DEF u, v, w
<1>9. CASE l = m /\ c <= d
  <2> DEFINE u == Len(f[l - 1])
  <2>1. u \in Nat /\ c \in Nat /\ d \in Nat /\ Len(f[m - 1]) = u /\ (~ Leq(b, a) => ~ (d <= c))
    BY <1>1, <1>5, <1>7, <1>9
  <2> HIDE DEF u
  <2>2. u + c - 1 <= u + d - 1 /\ (~ Leq(b, a) => u + c - 1 < u + d - 1)
    BY <1>9, <2>1
  <2> QED
    BY <1>3, <2>1, <2>2 DEF u
<1> QED
  BY <1>4, <1>8, <1>9

\* A position of a token has a token behind it.
LEMMA TokenOffset ==
  ASSUME NEW S, NEW p, p.lines \in Seq(Seq(S)), NEW a, InText(p.lines, a), a[2] <= Len(p.lines[a[1]])
  PROVE  Offset(p, a) < Len(FlattenSeq(p.lines))
<1> DEFINE t == p.lines
           l == a[1]
           c == a[2]
           N == Len(t)
<1>1. /\ t \in Seq(Seq(S)) /\ N \in Nat /\ l \in 1 .. N
      /\ c \in Nat \ {0} /\ c <= Len(t[l]) /\ Len(t[l]) \in Nat
  <2>1. t \in Seq(Seq(S)) /\ N \in Nat /\ DOMAIN t = 1 .. N
    OBVIOUS
  <2>2. l \in 1 .. N /\ c \in Nat \ {0} /\ c <= Len(t[l])
    BY <2>1 DEF InText
  <2>3. t[l] \in Seq(S)
    BY <2>1, <2>2
  <2> QED
    BY <2>1, <2>2, <2>3, LenProperties
<1>2. PICK f : Parts(S, t, f) /\ FlattenSeq(t) = f[N]
  <2>1. t \in Seq(Seq(S))
    BY <1>1
  <2> HIDE DEF t
  <2> QED
    BY <2>1, PartsExist
<1>3. Offset(p, a) = Len(f[l - 1]) + c - 1
  <2>1. p.lines \in Seq(Seq(S)) /\ InText(p.lines, a) /\ Parts(S, p.lines, f)
    BY <1>2
  <2> HIDE DEF c
  <2> QED
    BY <2>1, OffsetIs DEF c, l
<1>b. t = p.lines
  OBVIOUS
<1> HIDE DEF t, l, c, N
<1>6. /\ \A k \in 0 .. N : Len(f[k]) \in Nat
      /\ \A k \in 1 .. N : Len(f[k]) = Len(f[k - 1]) + Len(t[k])
      /\ \A j, k \in 0 .. N : j <= k => Len(f[j]) <= Len(f[k])
  BY <1>1, <1>2, PartsGrow DEF N
<1>7. /\ Len(f[l - 1]) \in Nat /\ Len(f[l]) \in Nat /\ Len(f[N]) \in Nat
      /\ Len(f[l]) = Len(f[l - 1]) + Len(t[l]) /\ Len(f[l]) <= Len(f[N])
  <2>1. l - 1 \in 0 .. N /\ N \in 0 .. N /\ l \in 0 .. N /\ l <= N
    BY <1>1
  <2> QED
    BY <1>1, <1>6, <2>1
<1> DEFINE u == Len(f[l - 1])
           v == Len(f[N])
           w == Len(t[l])
<1>8. u \in Nat /\ v \in Nat /\ w \in Nat /\ c \in Nat /\ u + w <= v /\ c <= w
  BY <1>1, <1>7
<1>9. Offset(p, a) = u + c - 1 /\ Len(FlattenSeq(t)) = v
  BY <1>2, <1>3
<1> HIDE DEF u, v, w
<1>10. u + c - 1 < v
  BY <1>8
<1> QED
  BY <1>9, <1>10, <1>b

\* What is read of the parsed text is what is between the two positions.
LEMMA RangeFlat ==
  ASSUME NEW S, prog.lines \in Seq(Seq(S)), NEW from, InText(prog.lines, from), NEW to, InText(prog.lines, to),
         Leq(from, to)
  PROVE  /\ RangeText(from, to) \in Seq(S)
         /\ FlattenSeq(prog.lines) = Lead(prog.lines, from) \o (RangeText(from, to) \o Trail(prog.lines, to))
<1> DEFINE t == prog.lines
           a == LeadLines(t, from)
           b == TrailLines(t, to)
           N == Len(t)
           x == from[1]
           y == to[1]
           upto(n) == IF n = y THEN Before(t[n], to[2]) ELSE t[n]
           r == [n \in DOMAIN t |-> CASE n < x \/ n > y -> << >> [] n = x -> From(upto(n), from[2])
                                      [] OTHER -> upto(n)]
           c == [n \in 1 .. N |-> r[n] \o b[n]]
<1>0. t \in Seq(Seq(S)) /\ InText(t, from) /\ InText(t, to) /\ RangeText(from, to) = FlattenSeq(r)
  BY DEF RangeText
<1>1. AreCut(S, t, from, a, TrailLines(t, from)) /\ AreCut(S, t, to, LeadLines(t, to), b)
  BY LinesCut
<1>2. t \in [1 .. N -> Seq(S)] /\ N \in Nat /\ DOMAIN t = 1 .. N
  OBVIOUS
<1>3. /\ x \in 1 .. N /\ y \in 1 .. N /\ x <= y /\ x \in Nat /\ y \in Nat /\ (x = y => from[2] <= to[2])
      /\ from[2] \in Nat \ {0} /\ from[2] <= Len(t[x]) + 1 /\ to[2] \in Nat \ {0} /\ to[2] <= Len(t[y]) + 1
  BY SMTT(30) DEF InText, Leq
<1>4. /\ \A n \in 1 .. N : n < x \/ n > y => r[n] = << >>
      /\ r[x] = From(upto(x), from[2])
      /\ \A n \in 1 .. N : x < n /\ n <= y => r[n] = upto(n)
  <2>1. \A n \in 1 .. N : r[n] = CASE n < x \/ n > y -> << >> [] n = x -> From(upto(n), from[2]) [] OTHER -> upto(n)
    BY <1>2
  <2> HIDE DEF r, t, x, y, N, upto
  <2>2. ASSUME NEW n \in 1 .. N, n < x \/ n > y PROVE r[n] = << >>
    <3>1. n # x
      BY <1>2, <1>3, <2>2
    <3> QED
      BY <2>1, <2>2, <3>1
  <2>3. r[x] = From(upto(x), from[2])
    <3>1. ~ (x < x) /\ ~ (x > y)
      BY <1>3
    <3> QED
      BY <1>3, <2>1, <3>1
  <2>4. ASSUME NEW n \in 1 .. N, x < n, n <= y PROVE r[n] = upto(n)
    <3>1. ~ (n < x) /\ ~ (n > y) /\ n # x
      BY <1>2, <1>3, <2>4
    <3> QED
      BY <2>1, <3>1
  <2> QED
    BY <2>2, <2>3, <2>4
<1>5. DOMAIN r = 1 .. N
  BY <1>2
<1>6. /\ \A n \in 1 .. N : n # y => upto(n) = t[n]
      /\ upto(y) = Before(t[y], to[2])
  OBVIOUS
<1>7. /\ \A n \in 1 .. N : n < x => a[n] = t[n]
      /\ a[x] = Before(t[x], from[2]) /\ \A n \in 1 .. N : n > x => a[n] = << >>
      /\ \A n \in 1 .. N : n < y => b[n] = << >>
      /\ b[y] = From(t[y], to[2]) /\ \A n \in 1 .. N : n > y => b[n] = t[n]
      /\ a \in [1 .. N -> Seq(S)] /\ b \in [1 .. N -> Seq(S)]
  <2> HIDE DEF a, b
  <2> QED
    BY <1>1 DEF AreCut
<1>c. r = [n \in DOMAIN r |-> r[n]] /\ c = [n \in 1 .. N |-> r[n] \o b[n]]
  OBVIOUS
<1> HIDE DEF a, b, r, c, upto
<1>8. \A n \in 1 .. N : t[n] \in Seq(S) /\ t[n] \o << >> = t[n] /\ << >> \o t[n] = t[n] /\ << >> \o << >> = << >>
  <2>1. \A n \in 1 .. N : t[n] \in Seq(S)
    BY <1>2
  <2>2. \A q \in Seq(S) : q \o << >> = q /\ << >> \o q = q
    BY ConcatEmptySeq
  <2>3. << >> \o << >> = << >>
    OBVIOUS
  <2> QED
    BY <2>1, <2>2, <2>3
<1> HIDE DEF N, x, y, t
\* The line that the range ends in, and the one it starts in.
<1>9. upto(y) \in Seq(S) /\ upto(y) \o b[y] = t[y] /\ Len(upto(y)) = to[2] - 1
  <2>1. t[y] \in Seq(S) /\ to[2] \in Nat \ {0} /\ to[2] <= Len(t[y]) + 1
    BY <1>3, <1>8
  <2>2. IsSliced(S, t[y], to[2])
    BY <2>1, Slices
  <2>3. Before(t[y], to[2]) \in Seq(S) /\ Before(t[y], to[2]) \o From(t[y], to[2]) = t[y]
    BY <2>1, SliceJoin
  <2> QED
    BY <1>6, <1>7, <2>2, <2>3 DEF IsSliced
<1>10. \A n \in 1 .. N : upto(n) \in Seq(S)
  BY <1>6, <1>8, <1>9
<1>11. r[x] \in Seq(S) /\ a[x] \o (r[x] \o b[x]) = t[x]
  <2>1. upto(x) \in Seq(S) /\ from[2] <= Len(upto(x)) + 1 /\ from[2] \in Nat \ {0}
    <3>1. CASE x = y
      <4>1. from[2] <= (to[2] - 1) + 1
        BY <1>3, <3>1
      <4> QED
        BY <1>3, <1>9, <3>1, <4>1
    <3>2. CASE x # y
      <4>1. upto(x) = t[x]
        BY <1>3, <1>6, <3>2
      <4> QED
        BY <1>3, <1>8, <4>1
    <3> QED
      BY <3>1, <3>2
  <2>2. /\ Before(upto(x), from[2]) \in Seq(S) /\ From(upto(x), from[2]) \in Seq(S)
        /\ Before(upto(x), from[2]) \o From(upto(x), from[2]) = upto(x)
    BY <2>1, SliceJoin
  <2>3. a[x] = Before(upto(x), from[2])
    <3>1. CASE x # y
      <4>1. upto(x) = t[x]
        BY <1>3, <1>6, <3>1
      <4> QED
        BY <1>7, <4>1
    <3>2. CASE x = y
      <4> DEFINE line == t[y]
                 p == from[2]
                 q == to[2]
      <4>1. line \in Seq(S) /\ p \in Nat \ {0} /\ q \in Nat \ {0} /\ p <= q /\ q <= Len(line) + 1 /\ Len(line) \in Nat
        BY <1>3, <1>8, <3>2, LenProperties
      <4>2. upto(x) = Before(line, q) /\ a[x] = Before(line, p)
        BY <1>6, <1>7, <3>2
      <4> HIDE DEF line, p, q
      <4>3. IsSliced(S, line, q) /\ IsSliced(S, line, p)
        <5>1. p <= Len(line) + 1
          BY <4>1
        <5> QED
          BY <4>1, <5>1, Slices
      <4>4. IsSliced(S, Before(line, q), p)
        <5>1. Before(line, q) \in Seq(S) /\ Len(Before(line, q)) = q - 1
          BY <4>3 DEF IsSliced
        <5>2. p <= Len(Before(line, q)) + 1
          BY <4>1, <5>1
        <5> QED
          BY <4>1, <5>1, <5>2, Slices
      <4>5. /\ Before(Before(line, q), p) \in Seq(S) /\ Before(line, p) \in Seq(S)
            /\ Len(Before(Before(line, q), p)) = p - 1 /\ Len(Before(line, p)) = p - 1
            /\ \A k \in 1 .. p - 1 : Before(Before(line, q), p)[k] = Before(line, q)[k]
            /\ \A k \in 1 .. p - 1 : Before(line, p)[k] = line[k]
            /\ \A k \in 1 .. q - 1 : Before(line, q)[k] = line[k]
        BY <4>3, <4>4 DEF IsSliced
      <4>6. \A k \in 1 .. p - 1 : k \in 1 .. q - 1
        BY <4>1
      <4>7. \A k \in 1 .. p - 1 : Before(Before(line, q), p)[k] = Before(line, p)[k]
        BY <4>5, <4>6
      <4>8. Before(Before(line, q), p) = Before(line, p)
        BY <4>5, <4>7, SeqEqual
      <4> QED
        BY <4>2, <4>8 DEF p
    <3> QED
      BY <3>1, <3>2
  <2>4. r[x] = From(upto(x), from[2]) /\ a[x] \o r[x] = upto(x) /\ a[x] \in Seq(S) /\ r[x] \in Seq(S)
    BY <1>4, <2>2, <2>3
  <2>5. upto(x) \o b[x] = t[x]
    <3>1. CASE x = y
      BY <1>9, <3>1
    <3>2. CASE x # y
      <4>1. upto(x) = t[x] /\ b[x] = << >>
        <5>1. x < y
          BY <1>3, <3>2
        <5> QED
          BY <1>3, <1>6, <1>7, <3>2, <5>1
      <4> QED
        BY <1>3, <1>8, <4>1
    <3> QED
      BY <3>1, <3>2
  <2>6. b[x] \in Seq(S)
    BY <1>3, <1>7
  <2>7. \A u, v, w \in Seq(S) : (u \o v) \o w = u \o (v \o w)
    BY ConcatAssociative
  <2>8. a[x] \in Seq(S) /\ r[x] \in Seq(S) /\ b[x] \in Seq(S)
    BY <2>4, <2>6
  <2>9. (a[x] \o r[x]) \o b[x] = a[x] \o (r[x] \o b[x])
    BY <2>7, <2>8
  <2>10. (a[x] \o r[x]) \o b[x] = t[x]
    BY <2>4, <2>5
  <2>11. a[x] \o (r[x] \o b[x]) = t[x]
    BY <2>9, <2>10
  <2> QED
    BY <2>8, <2>11
<1>12. \A n \in 1 .. N : r[n] \in Seq(S)
  <2> SUFFICES ASSUME NEW n \in 1 .. N PROVE r[n] \in Seq(S)
    OBVIOUS
  <2>1. (n < x \/ n > y) \/ n = x \/ (x < n /\ n <= y)
    BY <1>2, <1>3
  <2>2. << >> \in Seq(S)
    OBVIOUS
  <2> QED
    BY <1>4, <1>10, <1>11, <2>1, <2>2
<1>13. ASSUME NEW n \in 1 .. N PROVE t[n] = a[n] \o (r[n] \o b[n])
  <2>1. CASE n = x
    BY <1>11, <2>1
  <2>2. CASE n < x
    <3>1. n < y
      BY <1>2, <1>3, <2>2
    <3>2. a[n] = t[n] /\ r[n] = << >> /\ b[n] = << >>
      BY <1>4, <1>7, <2>2, <3>1
    <3> QED
      BY <1>8, <3>2
  <2>3. CASE x < n /\ n < y
    <3>1. n > x /\ n <= y /\ n # y
      BY <1>2, <1>3, <2>3
    <3>2. a[n] = << >> /\ r[n] = t[n] /\ b[n] = << >>
      BY <1>4, <1>6, <1>7, <2>3, <3>1
    <3> QED
      BY <1>8, <3>2
  <2>4. CASE x < n /\ n = y
    <3>1. n > x /\ n <= y
      BY <1>2, <1>3, <2>4
    <3>2. a[n] = << >> /\ r[n] = upto(y)
      BY <1>4, <1>7, <2>4, <3>1
    <3> QED
      BY <1>8, <1>9, <2>4, <3>2
  <2>5. CASE n > y
    <3>1. n > x
      BY <1>2, <1>3, <2>5
    <3>2. a[n] = << >> /\ r[n] = << >> /\ b[n] = t[n]
      BY <1>4, <1>7, <2>5, <3>1
    <3> QED
      BY <1>8, <3>2
  <2>6. n = x \/ n < x \/ (x < n /\ n < y) \/ (x < n /\ n = y) \/ n > y
    BY <1>2, <1>3
  <2> QED
    BY <2>1, <2>2, <2>3, <2>4, <2>5, <2>6
<1>14. r \in [1 .. N -> Seq(S)]
  BY <1>5, <1>12, <1>c
<1>15. c \in [1 .. N -> Seq(S)] /\ \A n \in 1 .. N : c[n] = r[n] \o b[n]
  <2>1. \A n \in 1 .. N : r[n] \o b[n] \in Seq(S)
    <3>1. \A n \in 1 .. N : r[n] \in Seq(S) /\ b[n] \in Seq(S)
      BY <1>7, <1>12
    <3> QED
      BY <3>1, ConcatProperties
  <2> QED
    BY <2>1, <1>c
<1>16. \A n \in 1 .. N : t[n] = a[n] \o c[n]
  BY <1>13, <1>15
<1>17. ASSUME NEW n \in 1 .. N, n < x PROVE c[n] = << >>
  <2>1. n < y
    BY <1>2, <1>3, <1>17
  <2>2. r[n] = << >> /\ b[n] = << >>
    BY <1>4, <1>7, <1>17, <2>1
  <2> QED
    BY <1>8, <1>15, <2>2
<1>18. x \in Int /\ y \in Int
  BY <1>3
<1>19. Cut(S, N, t, a, c, x)
  BY <1>2, <1>7, <1>15, <1>16, <1>17, <1>18 DEF Cut
<1>20. Cut(S, N, c, r, b, y)
  BY <1>2, <1>4, <1>7, <1>14, <1>15, <1>18 DEF Cut
<1>21. FlattenSeq(t) = FlattenSeq(a) \o FlattenSeq(c)
  BY <1>19, FlatSplit
<1>22. FlattenSeq(c) = FlattenSeq(r) \o FlattenSeq(b)
  BY <1>20, FlatSplit
<1>23. r \in Seq(Seq(S))
  BY <1>2, <1>14, IsSeq
<1>24. FlattenSeq(r) \in Seq(S)
  BY <1>23, FlattenElements
<1> QED
  BY <1>0, <1>21, <1>22, <1>24 DEF Lead, Trail, a, b, t

\* In front of a position that was not come to yet, the text is the one parsed.
LEMMA LeadPristine ==
  ASSUME NEW S, NEW base \in Seq(Seq(S)), NEW t \in Seq(Seq(S)), DOMAIN t = DOMAIN base,
         NEW q, InText(base, q), Pristine(base, t, q)
  PROVE  InText(t, q) /\ Lead(t, q) = Lead(base, q)
<1>1. /\ q[1] \in DOMAIN base /\ q[1] \in DOMAIN t /\ q[2] \in Nat \ {0}
      /\ q[2] <= Len(base[q[1]]) + 1 /\ q[2] <= Len(t[q[1]]) + 1
  BY DEF InText, Pristine
<1>2. base[q[1]] \in Seq(S) /\ t[q[1]] \in Seq(S)
  BY <1>1
<1>3. Before(t[q[1]], q[2]) = Before(base[q[1]], q[2])
  <2> DEFINE a == t[q[1]]
             b == base[q[1]]
             c == q[2]
  <2>1. IsSliced(S, a, c) /\ IsSliced(S, b, c)
    BY <1>1, <1>2, Slices
  <2>2. \A k \in 1 .. c - 1 : a[k] = b[k]
    BY DEF Pristine
  <2> HIDE DEF a, b, c
  <2>3. /\ Before(a, c) \in Seq(S) /\ Before(b, c) \in Seq(S)
        /\ Len(Before(a, c)) = c - 1 /\ Len(Before(b, c)) = c - 1
        /\ \A k \in 1 .. c - 1 : Before(a, c)[k] = a[k]
        /\ \A k \in 1 .. c - 1 : Before(b, c)[k] = b[k]
    BY <2>1 DEF IsSliced
  <2>4. Before(a, c) = Before(b, c)
    BY <2>2, <2>3, SeqEqual
  <2> QED
    BY <2>4 DEF a, b, c
<1>4. \A n \in DOMAIN base : n < q[1] => t[n] = base[n]
  BY DEF Pristine
<1>5. LeadLines(t, q) = LeadLines(base, q)
  BY <1>3, <1>4 DEF LeadLines
<1> QED
  BY <1>1, <1>5 DEF InText, Lead

\* What is read of a range is the tokens between its offsets.
LEMMA RangeIs ==
  ASSUME NEW S, prog.lines \in Seq(Seq(S)), NEW from, InText(prog.lines, from), NEW to, InText(prog.lines, to),
         Leq(from, to)
  PROVE  RangeText(from, to) = SubSeq(FlattenSeq(prog.lines), Offset(prog, from) + 1, Offset(prog, to))
<1> DEFINE s == FlattenSeq(prog.lines)
           m == Offset(prog, from)
           n == Offset(prog, to)
           r == RangeText(from, to)
           tail == Trail(prog.lines, to)
<1>1. IsOffset(S, prog, from, m) /\ IsOffset(S, prog, to, n)
  BY Offsets
<1>2. m <= n
  BY OffsetsOrdered
<1>3. r \in Seq(S) /\ s = Lead(prog.lines, from) \o (r \o tail)
  BY RangeFlat
<1>4. /\ s \in Seq(S) /\ m \in Nat /\ n \in Nat /\ n <= Len(s) /\ Len(s) \in Nat
      /\ Lead(prog.lines, from) = SubSeq(s, 1, m) /\ Lead(prog.lines, to) = SubSeq(s, 1, n)
      /\ s = Lead(prog.lines, to) \o tail /\ tail \in Seq(S)
  <2>1. s = Lead(prog.lines, to) \o tail
    BY CutJoin
  <2>2. tail \in Seq(S)
    BY CutTypes
  <2> HIDE DEF s, m, n, r, tail
  <2> QED
    BY <1>1, <2>1, <2>2 DEF IsOffset, s, tail
<1> HIDE DEF s, m, n, r, tail
<1>5. /\ SubSeq(s, 1, n) = SubSeq(s, 1, m) \o SubSeq(s, m + 1, n)
      /\ SubSeq(s, 1, m) \in Seq(S) /\ SubSeq(s, m + 1, n) \in Seq(S)
  <2>1. 1 \in 1 .. Len(s) + 1 /\ m \in 1 - 1 .. Len(s) /\ n \in m .. Len(s)
    BY <1>2, <1>4
  <2>2. SubSeq(s, 1, m) \o SubSeq(s, m + 1, n) = SubSeq(s, 1, n)
    BY <1>4, <2>1, ConcatAdjacentSubSeq
  <2>3. \A a, b \in Nat : a >= 1 /\ b <= Len(s) => SubSeq(s, a, b) \in Seq(S)
    BY <1>4
  <2>4. m + 1 \in Nat /\ m + 1 >= 1 /\ m <= Len(s)
    BY <1>2, <1>4
  <2>5. m \in Nat /\ n \in Nat /\ 1 \in Nat /\ 1 >= 1 /\ n <= Len(s)
    BY <1>4
  <2>6. SubSeq(s, 1, m) \in Seq(S)
    BY <2>3, <2>4, <2>5
  <2>7. SubSeq(s, m + 1, n) \in Seq(S)
    BY <2>3, <2>4, <2>5
  <2> QED
    BY <2>2, <2>6, <2>7
<1> DEFINE a == SubSeq(s, 1, m)
           b == SubSeq(s, m + 1, n)
<1>6. a \o (r \o tail) = (a \o b) \o tail /\ a \in Seq(S) /\ b \in Seq(S)
  BY <1>3, <1>4, <1>5
<1> HIDE DEF a, b
<1>7. \A u, v, w \in Seq(S) : (u \o v) \o w = u \o (v \o w)
  BY ConcatAssociative
<1>8. a \o (r \o tail) = a \o (b \o tail)
  BY <1>3, <1>4, <1>6, <1>7
<1>9. r \o tail \in Seq(S) /\ b \o tail \in Seq(S)
  BY <1>3, <1>4, <1>6
<1>10. r \o tail = b \o tail
  <2> DEFINE x == r \o tail
             y == b \o tail
  <2>1. a \o x = a \o y /\ x \in Seq(S) /\ y \in Seq(S) /\ a \in Seq(S)
    BY <1>6, <1>8, <1>9
  <2> HIDE DEF x, y
  <2>2. x = y
    BY <2>1, CancelFront
  <2> QED
    BY <2>2 DEF x, y
<1>11. r = b
  <2>1. r \in Seq(S) /\ b \in Seq(S) /\ tail \in Seq(S)
    BY <1>3, <1>4, <1>6
  <2> QED
    BY <1>10, <2>1, CancelBack
<1> QED
  BY <1>11 DEF r, b, s, m, n

-----------------------------------------------------------------------------
(* What a guard changes of the text that is meant.                         *)

\* The tokens F, a piece each, in m; and in m2 the piece g in place of what is
\* between f and t, and ins in front of what is behind s.
Grows(S, F, m, m2, f, t, s, g, ins) ==
  /\ F \in Seq(S) /\ f \in Nat /\ t \in Nat /\ s \in Nat /\ f < t /\ t <= s /\ s < Len(F)
  /\ g \in S /\ ins \in Seq(S)
  /\ m \in [1 .. Len(F) -> Seq(S)] /\ m2 \in [1 .. Len(F) -> Seq(S)]
  /\ \A n \in 1 .. Len(F) : n <= s => m[n] = <<F[n]>>
  /\ \A n \in 1 .. Len(F) : n <= f => m2[n] = <<F[n]>>
  /\ m2[f + 1] = <<g>>
  /\ \A n \in 1 .. Len(F) : f + 1 < n /\ n <= t => m2[n] = << >>
  /\ \A n \in 1 .. Len(F) : t < n /\ n <= s => m2[n] = <<F[n]>>
  /\ m2[s + 1] = ins \o m[s + 1]
  /\ \A n \in 1 .. Len(F) : s + 1 < n => m2[n] = m[n]

IsGrown(S, F, m, m2, f, t, s, g, ins) ==
  \E rest \in Seq(S) :
     /\ FlattenSeq(m) = SubSeq(F, 1, s) \o rest
     /\ FlattenSeq(m2) = SubSeq(F, 1, f) \o (<<g>> \o (SubSeq(F, t + 1, s) \o (ins \o rest)))

\* The text that m2 makes has g and ins where m's has what was parsed.
LEMMA Grown ==
  ASSUME NEW S, NEW F, NEW m, NEW m2, NEW f, NEW t, NEW s, NEW g, NEW ins,
         Grows(S, F, m, m2, f, t, s, g, ins)
  PROVE  IsGrown(S, F, m, m2, f, t, s, g, ins)
<1> DEFINE N == Len(F)
           after == [n \in 1 .. N |-> IF s < n THEN m[n] ELSE << >>]
           lead  == [n \in 1 .. N |-> IF 0 < n /\ n <= s THEN <<F[n]>> ELSE << >>]
           head  == [n \in 1 .. N |-> IF 0 < n /\ n <= f THEN <<F[n]>> ELSE << >>]
           one   == [n \in 1 .. N |-> IF n = f + 1 THEN <<g>> ELSE << >>]
           mid   == [n \in 1 .. N |-> IF t < n /\ n <= s THEN <<F[n]>> ELSE << >>]
           put   == [n \in 1 .. N |-> IF n = s + 1 THEN ins ELSE << >>]
           m5 == [n \in 1 .. N |-> put[n] \o after[n]]
           m4 == [n \in 1 .. N |-> mid[n] \o m5[n]]
           m3 == [n \in 1 .. N |-> one[n] \o m4[n]]
<1>1. f \in Nat /\ t \in Nat /\ s \in Nat /\ f < t /\ t <= s /\ s < N /\ N \in Nat
  BY DEF Grows
<1>t. /\ F \in Seq(S) /\ g \in S /\ ins \in Seq(S) /\ << >> \in Seq(S) /\ <<g>> \in Seq(S)
      /\ \A n \in 1 .. N : F[n] \in S /\ <<F[n]>> \in Seq(S)
  BY DEF Grows
<1>m. m \in [1 .. N -> Seq(S)] /\ m2 \in [1 .. N -> Seq(S)]
  BY DEF Grows
<1>2. /\ \A n \in 1 .. N : n <= s => m[n] = <<F[n]>>
      /\ \A n \in 1 .. N : n <= f => m2[n] = <<F[n]>>
      /\ m2[f + 1] = <<g>>
      /\ \A n \in 1 .. N : f + 1 < n /\ n <= t => m2[n] = << >>
      /\ \A n \in 1 .. N : t < n /\ n <= s => m2[n] = <<F[n]>>
      /\ m2[s + 1] = ins \o m[s + 1]
      /\ \A n \in 1 .. N : s + 1 < n => m2[n] = m[n]
  BY DEF Grows
<1>3. /\ after \in [1 .. N -> Seq(S)] /\ lead \in [1 .. N -> Seq(S)] /\ head \in [1 .. N -> Seq(S)]
      /\ one \in [1 .. N -> Seq(S)] /\ mid \in [1 .. N -> Seq(S)] /\ put \in [1 .. N -> Seq(S)]
  <2> HIDE DEF N
  <2>1. after \in [1 .. N -> Seq(S)]
    BY <1>1, <1>t, <1>m
  <2>2. lead \in [1 .. N -> Seq(S)] /\ head \in [1 .. N -> Seq(S)] /\ mid \in [1 .. N -> Seq(S)]
    BY <1>1, <1>t
  <2>3. one \in [1 .. N -> Seq(S)] /\ put \in [1 .. N -> Seq(S)]
    BY <1>1, <1>t
  <2> QED
    BY <2>1, <2>2, <2>3
<1>4. /\ \A n \in 1 .. N : (s < n => after[n] = m[n]) /\ (~ (s < n) => after[n] = << >>)
      /\ \A n \in 1 .. N : (n <= s => lead[n] = <<F[n]>>) /\ (~ (n <= s) => lead[n] = << >>)
      /\ \A n \in 1 .. N : (n <= f => head[n] = <<F[n]>>) /\ (~ (n <= f) => head[n] = << >>)
      /\ \A n \in 1 .. N : (n = f + 1 => one[n] = <<g>>) /\ (n # f + 1 => one[n] = << >>)
      /\ \A n \in 1 .. N : (t < n /\ n <= s => mid[n] = <<F[n]>>) /\ (~ (t < n /\ n <= s) => mid[n] = << >>)
      /\ \A n \in 1 .. N : (n = s + 1 => put[n] = ins) /\ (n # s + 1 => put[n] = << >>)
  <2> SUFFICES ASSUME NEW n \in 1 .. N
               PROVE  /\ (s < n => after[n] = m[n]) /\ (~ (s < n) => after[n] = << >>)
                      /\ (n <= s => lead[n] = <<F[n]>>) /\ (~ (n <= s) => lead[n] = << >>)
                      /\ (n <= f => head[n] = <<F[n]>>) /\ (~ (n <= f) => head[n] = << >>)
                      /\ (n = f + 1 => one[n] = <<g>>) /\ (n # f + 1 => one[n] = << >>)
                      /\ (t < n /\ n <= s => mid[n] = <<F[n]>>) /\ (~ (t < n /\ n <= s) => mid[n] = << >>)
                      /\ (n = s + 1 => put[n] = ins) /\ (n # s + 1 => put[n] = << >>)
    OBVIOUS
  <2>1. 0 < n
    OBVIOUS
  <2> HIDE DEF N
  <2>2. /\ (s < n => after[n] = m[n]) /\ (~ (s < n) => after[n] = << >>)
        /\ (n = s + 1 => put[n] = ins) /\ (n # s + 1 => put[n] = << >>)
    OBVIOUS
  <2>3. (n = f + 1 => one[n] = <<g>>) /\ (n # f + 1 => one[n] = << >>)
    OBVIOUS
  <2>4. (n <= s => lead[n] = <<F[n]>>) /\ (~ (n <= s) => lead[n] = << >>)
    BY <2>1
  <2>5. (n <= f => head[n] = <<F[n]>>) /\ (~ (n <= f) => head[n] = << >>)
    BY <2>1
  <2>6. (t < n /\ n <= s => mid[n] = <<F[n]>>) /\ (~ (t < n /\ n <= s) => mid[n] = << >>)
    OBVIOUS
  <2> QED
    BY <2>2, <2>3, <2>4, <2>5, <2>6
<1>c. /\ \A n \in 1 .. N : m5[n] = put[n] \o after[n]
      /\ \A n \in 1 .. N : m4[n] = mid[n] \o m5[n]
      /\ \A n \in 1 .. N : m3[n] = one[n] \o m4[n]
  OBVIOUS
<1>5. /\ FlattenSeq(lead) = SubSeq(F, 0 + 1, s) /\ FlattenSeq(head) = SubSeq(F, 0 + 1, f)
      /\ FlattenSeq(mid) = SubSeq(F, t + 1, s)
  <2>1. IsSlice(S, F, 0, s, lead)
    BY <1>1, <1>t, <1>3 DEF IsSlice
  <2>2. IsSlice(S, F, 0, f, head)
    BY <1>1, <1>t, <1>3 DEF IsSlice
  <2>3. IsSlice(S, F, t, s, mid)
    BY <1>1, <1>t, <1>3 DEF IsSlice
  <2> HIDE DEF lead, head, mid
  <2> QED
    BY <2>1, <2>2, <2>3, FlatSlice
<1>d. s \in Int /\ f \in Int /\ s + 1 \in Int /\ f + 1 \in Int /\ N \in Nat
  BY <1>1
<1>a. m5 = [n \in 1 .. N |-> put[n] \o after[n]] /\ m4 = [n \in 1 .. N |-> mid[n] \o m5[n]]
      /\ m3 = [n \in 1 .. N |-> one[n] \o m4[n]]
  OBVIOUS
<1> HIDE DEF after, lead, head, one, mid, put, m5, m4, m3, N
<1>b. \A a, b \in Seq(S) : a \o b \in Seq(S)
  OBVIOUS
<1>6. m5 \in [1 .. N -> Seq(S)]
  BY <1>3, <1>a, <1>b
<1>7. m4 \in [1 .. N -> Seq(S)]
  BY <1>3, <1>6, <1>a, <1>b
<1>8. m3 \in [1 .. N -> Seq(S)]
  BY <1>3, <1>7, <1>a, <1>b
<1>9. /\ \A a \in Seq(S) : << >> \o a = a /\ a \o << >> = a
      /\ << >> \o << >> = << >>
  <2>1. \A a \in Seq(S) : << >> \o a = a /\ a \o << >> = a
    BY ConcatEmptySeq
  <2> QED
    BY <1>t, <2>1
<1>10. FlattenSeq(one) = <<g>> /\ FlattenSeq(put) = ins
  <2>1. f + 1 \in 1 .. N /\ s + 1 \in 1 .. N
    BY <1>1
  <2>2. Alone(S, N, one, f + 1, <<g>>)
    BY <1>1, <1>t, <1>3, <1>4, <2>1 DEF Alone
  <2>3. Alone(S, N, put, s + 1, ins)
    BY <1>1, <1>t, <1>3, <1>4, <2>1 DEF Alone
  <2> QED
    BY <2>2, <2>3, FlatOne
\* The tokens up to s, and what is behind them.
<1>11. FlattenSeq(m) = FlattenSeq(lead) \o FlattenSeq(after)
  <2>1. ASSUME NEW n \in 1 .. N
        PROVE  /\ m[n] = lead[n] \o after[n] /\ (n > s => lead[n] = << >>) /\ (n < s => after[n] = << >>)
    <3>1. CASE n <= s
      <4>1. m[n] = <<F[n]>> /\ lead[n] = <<F[n]>> /\ after[n] = << >> /\ ~ (n > s)
        BY <1>1, <1>2, <1>4, <3>1
      <4> QED
        BY <1>t, <1>9, <4>1
    <3>2. CASE s < n
      <4>1. lead[n] = << >> /\ after[n] = m[n] /\ ~ (n < s) 
        BY <1>1, <1>4, <3>2
      <4>2. m[n] \in Seq(S)
        BY <1>m
      <4> QED
        BY <1>9, <4>1, <4>2
    <3>3. n <= s \/ s < n
      BY <1>1
    <3> QED
      BY <3>1, <3>2, <3>3
  <2>2. Cut(S, N, m, lead, after, s)
    BY <1>d, <1>m, <1>3, <2>1 DEF Cut
  <2> QED
    BY <2>2, FlatSplit
\* The guard's piece, ...
<1>12. FlattenSeq(m5) = FlattenSeq(put) \o FlattenSeq(after)
  <2>1. \A n \in 1 .. N : (n > s + 1 => put[n] = << >>) /\ (n < s + 1 => after[n] = << >>)
    BY <1>1, <1>4
  <2>2. Cut(S, N, m5, put, after, s + 1)
    BY <1>d, <1>3, <1>c, <1>6, <2>1 DEF Cut
  <2> QED
    BY <2>2, FlatSplit
<1>13. FlattenSeq(m4) = FlattenSeq(mid) \o FlattenSeq(m5)
  <2>1. ASSUME NEW n \in 1 .. N PROVE (n > s => mid[n] = << >>) /\ (n < s => m5[n] = << >>)
    <3>1. n < s => put[n] = << >> /\ after[n] = << >>
      BY <1>1, <1>4
    <3>2. n > s => mid[n] = << >>
      BY <1>1, <1>4
    <3> QED
      BY <1>c, <1>9, <3>1, <3>2
  <2>2. Cut(S, N, m4, mid, m5, s)
    BY <1>d, <1>3, <1>c, <1>6, <1>7, <2>1 DEF Cut
  <2> QED
    BY <2>2, FlatSplit
<1>14. FlattenSeq(m3) = FlattenSeq(one) \o FlattenSeq(m4)
  <2>1. ASSUME NEW n \in 1 .. N PROVE (n > f + 1 => one[n] = << >>) /\ (n < f + 1 => m4[n] = << >>)
    <3>1. n < f + 1 => put[n] = << >> /\ after[n] = << >> /\ mid[n] = << >>
      BY <1>1, <1>4
    <3>2. n > f + 1 => one[n] = << >>
      BY <1>1, <1>4
    <3> QED
      BY <1>c, <1>9, <3>1, <3>2
  <2>2. Cut(S, N, m3, one, m4, f + 1)
    BY <1>d, <1>3, <1>c, <1>7, <1>8, <2>1 DEF Cut
  <2> QED
    BY <2>2, FlatSplit
<1>15. FlattenSeq(m2) = FlattenSeq(head) \o FlattenSeq(m3)
  <2>1. ASSUME NEW n \in 1 .. N
        PROVE  m2[n] = head[n] \o m3[n] /\ (n > f => head[n] = << >>) /\ (n < f => m3[n] = << >>)
    <3>0. /\ m3[n] = one[n] \o (mid[n] \o (put[n] \o after[n]))
          /\ one[n] \in Seq(S) /\ mid[n] \in Seq(S) /\ put[n] \in Seq(S) /\ after[n] \in Seq(S) /\ m3[n] \in Seq(S)
      BY <1>3, <1>c, <1>8
    <3>1. CASE n <= f
      <4>1. m2[n] = <<F[n]>> /\ head[n] = <<F[n]>> /\ ~ (n > f)
        BY <1>1, <1>2, <1>4, <3>1
      <4>a. <<F[n]>> \in Seq(S)
        BY <1>t
      <4>2. one[n] = << >> /\ mid[n] = << >> /\ put[n] = << >> /\ after[n] = << >>
        BY <1>1, <1>4, <3>1
      <4>3. m3[n] = << >>
        BY <1>9, <3>0, <4>2
      <4> QED
        BY <1>9, <4>1, <4>a, <4>3
    <3>2. CASE n > f
      <4>1. head[n] = << >> /\ ~ (n < f)
        BY <1>1, <1>4, <3>2
      <4>2. m2[n] = m3[n]
        <5>1. CASE n = f + 1
          <6>1. one[n] = <<g>> /\ mid[n] = << >> /\ put[n] = << >> /\ after[n] = << >> /\ m2[n] = <<g>>
            BY <1>1, <1>2, <1>4, <5>1, SMTT(30)
          <6> QED
            BY <1>t, <1>9, <3>0, <6>1
        <5>2. CASE f + 1 < n /\ n <= t
          <6>1. one[n] = << >> /\ mid[n] = << >> /\ put[n] = << >> /\ after[n] = << >> /\ m2[n] = << >>
            BY <1>1, <1>2, <1>4, <5>2
          <6> QED
            BY <1>9, <3>0, <6>1
        <5>3. CASE t < n /\ n <= s
          <6>1. one[n] = << >> /\ mid[n] = <<F[n]>> /\ put[n] = << >> /\ after[n] = << >> /\ m2[n] = <<F[n]>>
            BY <1>1, <1>2, <1>4, <5>3
          <6> QED
            BY <1>t, <1>9, <3>0, <6>1
        <5>4. CASE n = s + 1
          <6>1. one[n] = << >> /\ mid[n] = << >> /\ put[n] = ins /\ after[n] = m[n] /\ m2[n] = ins \o m[n]
            BY <1>1, <1>2, <1>4, <5>4
          <6>2. put[n] \o after[n] \in Seq(S)
            BY <1>b, <3>0
          <6> QED
            BY <1>9, <3>0, <6>1, <6>2
        <5>5. CASE s + 1 < n
          <6>1. one[n] = << >> /\ mid[n] = << >> /\ put[n] = << >> /\ after[n] = m[n] /\ m2[n] = m[n]
            BY <1>1, <1>2, <1>4, <5>5
          <6> QED
            BY <1>9, <3>0, <6>1
        <5>6. n = f + 1 \/ (f + 1 < n /\ n <= t) \/ (t < n /\ n <= s) \/ n = s + 1 \/ s + 1 < n
          BY <1>1, <3>2
        <5> QED
          BY <5>1, <5>2, <5>3, <5>4, <5>5, <5>6
      <4> QED
        BY <1>9, <3>0, <4>1, <4>2
    <3>3. n <= f \/ n > f
      BY <1>1
    <3> QED
      BY <3>1, <3>2, <3>3
  <2>2. Cut(S, N, m2, head, m3, f)
    BY <1>d, <1>m, <1>3, <1>8, <2>1 DEF Cut
  <2> QED
    BY <2>2, FlatSplit
<1>16. FlattenSeq(after) \in Seq(S)
  <2>1. after \in Seq(Seq(S))
    BY <1>1, <1>3, IsSeq
  <2> QED
    BY <2>1, FlattenElements
<1>17. 0 + 1 = 1
  OBVIOUS
<1> QED
  BY <1>5, <1>10, <1>11, <1>12, <1>13, <1>14, <1>15, <1>16, <1>17 DEF IsGrown

\* Where call k starts, where its callee ends and where its arguments start, in
\* tokens; and what is put in front of them.
FromAt(p, k)  == Offset(p, p.calls[k].from)
ToAt(p, k)    == Offset(p, p.calls[k].to)
FirstAt(p, k) == Offset(p, p.calls[k].first)
Hands(p, k)   == IF p.calls[k].bare THEN Callee(p, p.calls[k]) ELSE Append(Callee(p, p.calls[k]), ",")
Guarding(p, gs, k) == GuardName[NumberIn(gs, p.calls[k].sig)]

\* The calls K do not reach into each other.
Spread(S, p, K) ==
  /\ p.lines \in Seq(Seq(S)) /\ K \subseteq Nat
  /\ \A k \in K : /\ FromAt(p, k) \in Nat /\ ToAt(p, k) \in Nat /\ FirstAt(p, k) \in Nat
                  /\ FromAt(p, k) < ToAt(p, k) /\ ToAt(p, k) <= FirstAt(p, k)
                  /\ FirstAt(p, k) < Len(FlattenSeq(p.lines))
  /\ \A j, k \in K : j < k => FirstAt(p, j) <= FromAt(p, k)

\* S has the tokens that guarding them puts in.
Spells(S, p, gs, K) == "," \in S /\ \A k \in K : Guarding(p, gs, k) \in S

\* The calls of a file with plain callees are spread.
LEMMA SpreadPlain ==
  ASSUME NEW p, Parsed(p), Plain(p)
  PROVE  Spread(Tok(p), p, ToGuard(p))
<1> DEFINE S == Tok(p)
           N == Len(FlattenSeq(p.lines))
<1>1. p.lines \in Seq(Seq(S))
  <2>1. p.lines \in Seq(Seq(Alphabet(p)))
    BY Placement
  <2>2. Alphabet(p) \subseteq S
    BY DEF Tok
  <2>3. Seq(Alphabet(p)) \subseteq Seq(S)
    BY <2>2, SeqsGrow
  <2>4. Seq(Seq(Alphabet(p))) \subseteq Seq(Seq(S))
    BY <2>3, SeqsGrow
  <2> QED
    BY <2>1, <2>4
<1>2. ToGuard(p) \subseteq DOMAIN p.calls /\ DOMAIN p.calls \subseteq Nat
  <2>1. p.calls \in Seq(Range(p.calls))
    BY FnsRise
  <2>2. DOMAIN p.calls \subseteq Nat \ {0}
    BY <2>1, Places
  <2> QED
    BY <2>2 DEF ToGuard
<1>3. ASSUME NEW k \in DOMAIN p.calls
      PROVE  /\ InText(p.lines, p.calls[k].from) /\ InText(p.lines, p.calls[k].to)
             /\ InText(p.lines, p.calls[k].first)
  BY Placement DEF Proper, InText
<1>4. ASSUME NEW at, InText(p.lines, at) PROVE Offset(p, at) \in Nat
  <2>1. IsOffset(S, p, at, Offset(p, at))
    BY <1>1, <1>4, Offsets
  <2> QED
    BY <2>1 DEF IsOffset
<1>5. ASSUME NEW k \in DOMAIN p.calls
      PROVE  /\ FromAt(p, k) \in Nat /\ ToAt(p, k) \in Nat /\ FirstAt(p, k) \in Nat
             /\ FromAt(p, k) < ToAt(p, k) /\ ToAt(p, k) <= FirstAt(p, k) /\ FirstAt(p, k) < N
  <2> DEFINE c == p.calls[k]
  <2>1. /\ Leq(c.from, c.to) /\ Leq(c.to, c.first) /\ ~ Leq(c.to, c.from)
        /\ c.from[2] <= Len(p.lines[c.from[1]]) /\ c.first[2] <= Len(p.lines[c.first[1]])
    BY DEF Parsed, AtToken
  <2>2. InText(p.lines, c.from) /\ InText(p.lines, c.to) /\ InText(p.lines, c.first)
    BY <1>3
  <2> HIDE DEF c, S, N
  <2>3. Offset(p, c.from) < Offset(p, c.to)
    BY <1>1, <2>1, <2>2, OffsetsOrdered
  <2>4. Offset(p, c.to) <= Offset(p, c.first)
    BY <1>1, <2>1, <2>2, OffsetsOrdered
  <2>5. Offset(p, c.first) < N
    BY <1>1, <2>1, <2>2, TokenOffset DEF N
  <2> QED
    BY <1>4, <2>2, <2>3, <2>4, <2>5 DEF FromAt, ToAt, FirstAt, c
<1>6. ASSUME NEW j \in ToGuard(p), NEW k \in ToGuard(p), j < k
      PROVE  FirstAt(p, j) <= FromAt(p, k)
  <2>1. j \in DOMAIN p.calls /\ k \in DOMAIN p.calls /\ Ought(p.calls[j]) /\ Ought(p.calls[k]) /\ k > j
    BY <1>2, <1>6 DEF ToGuard
  <2>2. Leq(p.calls[j].to, p.calls[k].from)
    BY <2>1 DEF Plain
  <2>3. Leq(p.calls[j].first, p.calls[k].from)
    BY <2>1, <2>2 DEF Parsed
  <2>4. InText(p.lines, p.calls[j].first) /\ InText(p.lines, p.calls[k].from)
    BY <1>3, <2>1
  <2> HIDE DEF S
  <2>5. Offset(p, p.calls[j].first) <= Offset(p, p.calls[k].from)
    BY <1>1, <2>3, <2>4, OffsetsOrdered
  <2> QED
    BY <2>5 DEF FirstAt, FromAt
<1> QED
  BY <1>1, <1>2, <1>5, <1>6 DEF Spread

\* Of the calls K at most one starts, and one has its arguments start, anywhere.
LEMMA SpreadApart ==
  ASSUME NEW S, NEW p, NEW K, Spread(S, p, K), NEW j \in K, NEW k \in K
  PROVE  /\ FirstAt(p, j) = FirstAt(p, k) => j = k
         /\ FromAt(p, j) = FromAt(p, k) => j = k
<1>1. j \in Nat /\ k \in Nat
  BY DEF Spread
<1>2. /\ FromAt(p, j) \in Nat /\ FirstAt(p, j) \in Nat /\ FromAt(p, j) < FirstAt(p, j)
      /\ FromAt(p, k) \in Nat /\ FirstAt(p, k) \in Nat /\ FromAt(p, k) < FirstAt(p, k)
  <2>1. \A l \in K : /\ FromAt(p, l) \in Nat /\ ToAt(p, l) \in Nat /\ FirstAt(p, l) \in Nat
                     /\ FromAt(p, l) < ToAt(p, l) /\ ToAt(p, l) <= FirstAt(p, l)
    BY DEF Spread
  <2>2. ASSUME NEW l \in K
        PROVE  FromAt(p, l) \in Nat /\ FirstAt(p, l) \in Nat /\ FromAt(p, l) < FirstAt(p, l)
    <3>1. /\ FromAt(p, l) \in Nat /\ ToAt(p, l) \in Nat /\ FirstAt(p, l) \in Nat
          /\ FromAt(p, l) < ToAt(p, l) /\ ToAt(p, l) <= FirstAt(p, l)
      BY <2>1
    <3> QED
      BY <3>1
  <2> QED
    BY <2>2
<1>3. CASE j < k
  <2>1. FirstAt(p, j) <= FromAt(p, k)
    BY <1>3 DEF Spread
  <2> QED
    BY <1>2, <2>1
<1>4. CASE k < j
  <2>1. FirstAt(p, k) <= FromAt(p, j)
    BY <1>4 DEF Spread
  <2> QED
    BY <1>2, <2>1
<1> QED
  BY <1>1, <1>3, <1>4

\* What goes in front of token n + 1.
LEMMA HandedIs ==
  ASSUME NEW S, NEW p, NEW K, Spread(S, p, K), NEW n
  PROVE  /\ (\A k \in K : FirstAt(p, k) # n) => Handed(p, K, n) = << >>
         /\ \A k \in K : FirstAt(p, k) = n => Handed(p, K, n) = Hands(p, k)
<1>1. (\A k \in K : FirstAt(p, k) # n) => Handed(p, K, n) = << >>
  BY DEF Handed, FirstAt
<1>2. ASSUME NEW k \in K, FirstAt(p, k) = n PROVE Handed(p, K, n) = Hands(p, k)
  <2> DEFINE c == CHOOSE j \in K : Offset(p, p.calls[j].first) = n
  <2>1. Offset(p, p.calls[k].first) = n
    BY <1>2 DEF FirstAt
  <2>2. c \in K /\ Offset(p, p.calls[c].first) = n
    BY <2>1
  <2>3. Handed(p, K, n) = IF p.calls[c].bare THEN Callee(p, p.calls[c]) ELSE Append(Callee(p, p.calls[c]), ",")
    BY <2>1 DEF Handed
  <2> HIDE DEF c
  <2>4. c = k
    BY <1>2, <2>2, SpreadApart DEF FirstAt
  <2> QED
    BY <2>3, <2>4 DEF Hands
<1> QED
  BY <1>1, <1>2

\* What Meant has in place of the first token of a callee.
LEMMA EnteredIs ==
  ASSUME NEW S, NEW p, NEW gs, NEW K, Spread(S, p, K), NEW n
  PROVE  /\ (\A k \in K : FromAt(p, k) # n) => Entered(p, gs, K, n) = << >>
         /\ \A k \in K : FromAt(p, k) = n => Entered(p, gs, K, n) = <<Guarding(p, gs, k)>>
<1>1. (\A k \in K : FromAt(p, k) # n) => Entered(p, gs, K, n) = << >>
  BY DEF Entered, FromAt
<1>2. ASSUME NEW k \in K, FromAt(p, k) = n PROVE Entered(p, gs, K, n) = <<Guarding(p, gs, k)>>
  <2> DEFINE c == CHOOSE j \in K : Offset(p, p.calls[j].from) = n
  <2>1. Offset(p, p.calls[k].from) = n
    BY <1>2 DEF FromAt
  <2>2. c \in K /\ Offset(p, p.calls[c].from) = n
    BY <2>1
  <2>3. Entered(p, gs, K, n) = <<GuardName[NumberIn(gs, p.calls[c].sig)]>>
    BY <2>1 DEF Entered
  <2> HIDE DEF c
  <2>4. c = k
    BY <1>2, <2>2, SpreadApart DEF FromAt
  <2> QED
    BY <2>3, <2>4 DEF Guarding
<1> QED
  BY <1>1, <1>2

\* What is put in front of the arguments is of the alphabet.
LEMMA HandsType ==
  ASSUME NEW S, NEW p, NEW gs, NEW K, Spread(S, p, K), Spells(S, p, gs, K), NEW k \in K
  PROVE  Callee(p, p.calls[k]) \in Seq(S) /\ Hands(p, k) \in Seq(S)
<1> DEFINE s == FlattenSeq(p.lines)
           m == FromAt(p, k)
           n == ToAt(p, k)
           c == Callee(p, p.calls[k])
           comma == ","
<1>1. s \in Seq(S)
  BY FlattenElements DEF Spread
<1>2. m \in Nat /\ n \in Nat /\ n <= Len(s)
  <2>1. /\ m \in Nat /\ n \in Nat /\ FirstAt(p, k) \in Nat /\ n <= FirstAt(p, k) /\ FirstAt(p, k) < Len(s)
    BY DEF Spread
  <2> HIDE DEF m, n, s
  <2>2. Len(s) \in Nat
    BY <1>1
  <2> QED
    BY <2>1, <2>2
<1>3. c = SubSeq(s, m + 1, n)
  BY DEF Callee, FromAt, ToAt
<1>0. comma \in S
  BY DEF Spells
<1> HIDE DEF s, m, n, c, comma
<1>4. \A a, b \in Nat : a >= 1 /\ b <= Len(s) => SubSeq(s, a, b) \in Seq(S)
  BY <1>1
<1>5. m + 1 \in Nat /\ m + 1 >= 1
  BY <1>2
<1>6. c \in Seq(S)
  BY <1>2, <1>3, <1>4, <1>5
<1>7. Append(c, comma) \in Seq(S)
  BY <1>0, <1>6
<1> QED
  BY <1>6, <1>7 DEF Hands, c, comma

\* Every piece of Meant is of the alphabet.
LEMMA PiecesType ==
  ASSUME NEW S, NEW p, NEW gs, NEW K, Spread(S, p, K), Spells(S, p, gs, K),
         NEW n \in Nat, n < Len(FlattenSeq(p.lines))
  PROVE  Handed(p, K, n) \in Seq(S) /\ Entered(p, gs, K, n) \in Seq(S) /\ Kept(p, K, n) \in Seq(S)
<1>0. << >> \in Seq(S) /\ \A x \in S : <<x>> \in Seq(S)
  OBVIOUS
<1>1. Handed(p, K, n) \in Seq(S)
  <2>1. CASE \E k \in K : FirstAt(p, k) = n
    <3>1. PICK k \in K : FirstAt(p, k) = n
      BY <2>1
    <3>2. Hands(p, k) \in Seq(S)
      BY HandsType
    <3>3. Handed(p, K, n) = Hands(p, k)
      BY <3>1, HandedIs
    <3> QED
      BY <3>2, <3>3
  <2>2. CASE \A k \in K : FirstAt(p, k) # n
    BY <1>0, <2>2, HandedIs
  <2> QED
    BY <2>1, <2>2
<1>2. Entered(p, gs, K, n) \in Seq(S)
  <2>1. CASE \E k \in K : FromAt(p, k) = n
    <3>1. PICK k \in K : FromAt(p, k) = n
      BY <2>1
    <3>2. Guarding(p, gs, k) \in S
      BY DEF Spells
    <3>3. Entered(p, gs, K, n) = <<Guarding(p, gs, k)>>
      BY <3>1, EnteredIs
    <3> QED
      BY <1>0, <3>2, <3>3
  <2>2. CASE \A k \in K : FromAt(p, k) # n
    BY <1>0, <2>2, EnteredIs
  <2> QED
    BY <2>1, <2>2
<1>3. Kept(p, K, n) \in Seq(S)
  <2> DEFINE s == FlattenSeq(p.lines)
  <2>1. s \in Seq(S)
    BY FlattenElements DEF Spread
  <2>2. s[n + 1] \in S
    <3> HIDE DEF s
    <3>1. n + 1 \in 1 .. Len(s)
      BY <2>1 DEF s
    <3> QED
      BY <2>1, <3>1
  <2> QED
    BY <1>0, <2>2 DEF Kept
<1> QED
  BY <1>1, <1>2, <1>3

PiecesOf(p, gs, K) ==
  [n \in DOMAIN FlattenSeq(p.lines) |-> Handed(p, K, n - 1) \o Entered(p, gs, K, n - 1) \o Kept(p, K, n - 1)]

\* With no call guarded every token stays what it is.
LEMMA MeantNone ==
  ASSUME NEW S, NEW p, p.lines \in Seq(Seq(S)), NEW gs
  PROVE  Meant(p, gs, {}) = FlattenSeq(p.lines)
<1> DEFINE s == FlattenSeq(p.lines)
           N == Len(s)
           a == PiecesOf(p, gs, {})
<1>1. s \in Seq(S) /\ N \in Nat /\ DOMAIN s = 1 .. N
  <2>1. s \in Seq(S)
    BY FlattenElements
  <2> HIDE DEF s
  <2> QED
    BY <2>1
<1>2. ASSUME NEW n \in 1 .. N
      PROVE  Handed(p, {}, n - 1) \o Entered(p, gs, {}, n - 1) \o Kept(p, {}, n - 1) = <<s[n]>>
  <2>1. Handed(p, {}, n - 1) = << >> /\ Entered(p, gs, {}, n - 1) = << >>
    BY DEF Handed, Entered
  <2>2. (n - 1) + 1 = n
    BY <1>1
  <2>3. Kept(p, {}, n - 1) = <<s[n]>>
    BY <2>2 DEF Kept
  <2>4. s[n] \in S
    <3> HIDE DEF s
    <3> QED
      BY <1>1
  <2>5. (<< >> \o << >>) \o <<s[n]>> = <<s[n]>>
    <3> DEFINE x == s[n]
    <3>1. x \in S
      BY <2>4
    <3> HIDE DEF x
    <3>2. << >> \o << >> = << >> /\ << >> \o <<x>> = <<x>>
      BY <3>1, ConcatEmptySeq
    <3> QED
      BY <3>2 DEF x
  <2> QED
    BY <2>1, <2>3, <2>5
<1>3. a = [n \in 1 .. N |-> <<s[n]>>]
  BY <1>1, <1>2 DEF PiecesOf
<1>4. \A n \in 1 .. N : s[n] \in S
  <2> HIDE DEF s
  <2> QED
    BY <1>1
<1>5. Meant(p, gs, {}) = FlattenSeq(a)
  BY DEF Meant, PiecesOf
<1> HIDE DEF s, N, a
<1>6. a \in [1 .. N -> Seq(S)] /\ \A n \in 1 .. N : a[n] = <<s[n]>>
  BY <1>3, <1>4
<1>7. IsSlice(S, s, 0, N, a)
  <2>1. ASSUME NEW n \in 1 .. N PROVE a[n] = IF 0 < n /\ n <= N THEN <<s[n]>> ELSE << >>
    <3>1. 0 < n /\ n <= N
      BY <1>1
    <3>2. a[n] = <<s[n]>>
      BY <1>6
    <3> QED
      BY <3>1, <3>2, Zenon
  <2>2. 0 \in Nat /\ 0 <= N /\ N <= N
    BY <1>1
  <2> QED
    BY <1>1, <1>6, <2>1, <2>2, Zenon DEF IsSlice, N
<1>8. FlattenSeq(a) = SubSeq(s, 0 + 1, N)
  BY <1>7, FlatSlice
<1>9. SubSeq(s, 1, N) = s
  BY <1>1, SubSeqFull DEF N
<1>10. 0 + 1 = 1
  OBVIOUS
<1> QED
  BY <1>5, <1>8, <1>9, <1>10 DEF s

\* One call more, in front of all that are guarded.
LEMMA PiecesMore ==
  ASSUME NEW S, NEW p, NEW K, NEW b, Spread(S, p, K \cup {b}), \A k \in K : b < k,
         NEW gs, NEW gs2, \A k \in K : Guarding(p, gs, k) = Guarding(p, gs2, k),
         Spells(S, p, gs2, K \cup {b})
  PROVE  Grows(S, FlattenSeq(p.lines), PiecesOf(p, gs, K), PiecesOf(p, gs2, K \cup {b}),
               FromAt(p, b), ToAt(p, b), FirstAt(p, b), Guarding(p, gs2, b), Hands(p, b))
<1> DEFINE L  == K \cup {b}
           s0 == FlattenSeq(p.lines)
           N  == Len(s0)
           f  == FromAt(p, b)
           t  == ToAt(p, b)
           s  == FirstAt(p, b)
           m  == PiecesOf(p, gs, K)
           m2 == PiecesOf(p, gs2, L)
           g  == Guarding(p, gs2, b)
           ins == Hands(p, b)
<1>0. Spread(S, p, K) /\ Spells(S, p, gs, K) /\ Spread(S, p, L) /\ Spells(S, p, gs2, L)
  BY DEF Spread, Spells
<1>1. s0 \in Seq(S) /\ N \in Nat /\ DOMAIN s0 = 1 .. N
  <2>1. s0 \in Seq(S)
    BY FlattenElements DEF Spread
  <2> HIDE DEF s0
  <2> QED
    BY <2>1
<1>2. f \in Nat /\ t \in Nat /\ s \in Nat /\ f < t /\ t <= s /\ s < N
  BY DEF Spread
<1>3. g \in S /\ ins \in Seq(S)
  <2>1. ins \in Seq(S)
    BY HandsType
  <2>2. g \in S
    BY DEF Spells
  <2> QED
    BY <2>1, <2>2
<1>4. ASSUME NEW k \in K
      PROVE  /\ FromAt(p, k) \in Nat /\ ToAt(p, k) \in Nat /\ FirstAt(p, k) \in Nat
             /\ s <= FromAt(p, k) /\ FromAt(p, k) < ToAt(p, k) /\ ToAt(p, k) <= FirstAt(p, k)
             /\ s < FirstAt(p, k)
  <2>1. k \in L /\ b \in L /\ b < k
    OBVIOUS
  <2>2. /\ FromAt(p, k) \in Nat /\ ToAt(p, k) \in Nat /\ FirstAt(p, k) \in Nat
        /\ FromAt(p, k) < ToAt(p, k) /\ ToAt(p, k) <= FirstAt(p, k)
    BY <2>1 DEF Spread
  <2>3. s <= FromAt(p, k)
    BY <2>1 DEF Spread
  <2> HIDE DEF s
  <2> QED
    BY <1>2, <2>2, <2>3
<1> DEFINE h(n)  == Handed(p, K, n)
           e(n)  == Entered(p, gs, K, n)
           k1(n) == Kept(p, K, n)
           h2(n)  == Handed(p, L, n)
           e2(n)  == Entered(p, gs2, L, n)
           k2(n) == Kept(p, L, n)
<1>5. ASSUME NEW n \in Nat
      PROVE  /\ n <= s => h(n) = << >>
             /\ n # s => h2(n) = h(n)
             /\ n = s => h2(n) = ins
  <2>1. n <= s => h(n) = << >>
    <3> SUFFICES ASSUME n <= s PROVE h(n) = << >>
      OBVIOUS
    <3>1. \A k \in K : FirstAt(p, k) # n
      BY <1>2, <1>4
    <3> QED
      BY <1>0, <3>1, HandedIs
  <2>2. n = s => h2(n) = ins
    <3>1. b \in L
      OBVIOUS
    <3> HIDE DEF L
    <3> QED
      BY <1>0, <3>1, HandedIs
  <2>3. n # s => h2(n) = h(n)
    <3> SUFFICES ASSUME n # s PROVE h2(n) = h(n)
      OBVIOUS
    <3>1. CASE \E k \in K : FirstAt(p, k) = n
      <4>1. PICK k \in K : FirstAt(p, k) = n
        BY <3>1
      <4>2. h(n) = Hands(p, k)
        BY <1>0, <4>1, HandedIs
      <4>3. h2(n) = Hands(p, k)
        <5>1. k \in L
          OBVIOUS
        <5> HIDE DEF L
        <5> QED
          BY <1>0, <4>1, <5>1, HandedIs
      <4> QED
        BY <4>2, <4>3
    <3>2. CASE \A k \in K : FirstAt(p, k) # n
      <4>1. \A k \in L : FirstAt(p, k) # n
        BY <3>2
      <4>2. h(n) = << >>
        BY <1>0, <3>2, HandedIs
      <4>3. h2(n) = << >>
        BY <1>0, <4>1, HandedIs
      <4> QED
        BY <4>2, <4>3
    <3> QED
      BY <3>1, <3>2
  <2> QED
    BY <2>1, <2>2, <2>3
<1>6. ASSUME NEW n \in Nat
      PROVE  /\ n < s => e(n) = << >>
             /\ n # f => e2(n) = e(n)
             /\ n = f => e2(n) = <<g>>
  <2>1. n < s => e(n) = << >>
    <3> SUFFICES ASSUME n < s PROVE e(n) = << >>
      OBVIOUS
    <3>1. \A k \in K : FromAt(p, k) # n
      BY <1>2, <1>4
    <3> QED
      BY <1>0, <3>1, EnteredIs
  <2>2. n = f => e2(n) = <<g>>
    <3>1. b \in L
      OBVIOUS
    <3> HIDE DEF L
    <3> QED
      BY <1>0, <3>1, EnteredIs
  <2>3. n # f => e2(n) = e(n)
    <3> SUFFICES ASSUME n # f PROVE e2(n) = e(n)
      OBVIOUS
    <3>1. CASE \E k \in K : FromAt(p, k) = n
      <4>1. PICK k \in K : FromAt(p, k) = n
        BY <3>1
      <4>2. e(n) = <<Guarding(p, gs, k)>>
        BY <1>0, <4>1, EnteredIs
      <4>3. e2(n) = <<Guarding(p, gs2, k)>>
        <5>1. k \in L
          OBVIOUS
        <5> HIDE DEF L
        <5> QED
          BY <1>0, <4>1, <5>1, EnteredIs
      <4> QED
        BY <4>2, <4>3
    <3>2. CASE \A k \in K : FromAt(p, k) # n
      <4>1. \A k \in L : FromAt(p, k) # n
        BY <3>2
      <4>2. e(n) = << >>
        BY <1>0, <3>2, EnteredIs
      <4>3. e2(n) = << >>
        BY <1>0, <4>1, EnteredIs
      <4> QED
        BY <4>2, <4>3
    <3> QED
      BY <3>1, <3>2
  <2> QED
    BY <2>1, <2>2, <2>3
<1>7. ASSUME NEW n \in Nat
      PROVE  /\ n < s => k1(n) = <<s0[n + 1]>>
             /\ f <= n /\ n < t => k2(n) = << >>
             /\ ~ (f <= n /\ n < t) => k2(n) = k1(n)
  <2>1. /\ k1(n) = IF \E k \in K : FromAt(p, k) <= n /\ n < ToAt(p, k) THEN << >> ELSE <<s0[n + 1]>>
        /\ k2(n) = IF \E k \in L : FromAt(p, k) <= n /\ n < ToAt(p, k) THEN << >> ELSE <<s0[n + 1]>>
    BY DEF Kept, FromAt, ToAt
  <2>2. n < s => \A k \in K : ~ (FromAt(p, k) <= n)
    BY <1>2, <1>4
  <2> HIDE DEF h, e, k1, h2, e2, k2, s, f, t, L, s0
  <2>3. n < s => k1(n) = <<s0[n + 1]>>
    BY <2>1, <2>2
  <2>4. f <= n /\ n < t => k2(n) = << >>
    BY <2>1 DEF f, t, L
  <2>5. ~ (f <= n /\ n < t) => k2(n) = k1(n)
    <3>1. ~ (f <= n /\ n < t) =>
            ((\E k \in L : FromAt(p, k) <= n /\ n < ToAt(p, k)) <=> \E k \in K : FromAt(p, k) <= n /\ n < ToAt(p, k))
      BY DEF f, t, L
    <3> QED
      BY <2>1, <3>1
  <2> QED
    BY <2>3, <2>4, <2>5
<1>8. ASSUME NEW n \in 1 .. N
      PROVE  /\ n - 1 \in Nat /\ (n - 1) + 1 = n
             /\ m[n] = (h(n - 1) \o e(n - 1)) \o k1(n - 1)
             /\ m2[n] = (h2(n - 1) \o e2(n - 1)) \o k2(n - 1)
             /\ h(n - 1) \in Seq(S) /\ e(n - 1) \in Seq(S) /\ k1(n - 1) \in Seq(S)
             /\ h2(n - 1) \in Seq(S) /\ e2(n - 1) \in Seq(S) /\ k2(n - 1) \in Seq(S)
             /\ <<s0[n]>> \in Seq(S)
  <2>1. n - 1 \in Nat /\ (n - 1) + 1 = n /\ n - 1 < N
    BY <1>1
  <2>2. n \in DOMAIN s0
    BY <1>1
  <2>3. /\ m[n] = (h(n - 1) \o e(n - 1)) \o k1(n - 1)
        /\ m2[n] = (h2(n - 1) \o e2(n - 1)) \o k2(n - 1)
    BY <2>2 DEF PiecesOf
  <2>4. h(n - 1) \in Seq(S) /\ e(n - 1) \in Seq(S) /\ k1(n - 1) \in Seq(S)
    BY <1>0, <2>1, PiecesType
  <2>5. h2(n - 1) \in Seq(S) /\ e2(n - 1) \in Seq(S) /\ k2(n - 1) \in Seq(S)
    <3> HIDE DEF L
    <3> QED
      BY <1>0, <2>1, PiecesType
  <2>6. <<s0[n]>> \in Seq(S)
    <3> HIDE DEF s0
    <3>1. s0[n] \in S
      BY <1>1, <2>2
    <3> QED
      BY <3>1
  <2> QED
    BY <2>1, <2>3, <2>4, <2>5, <2>6
<1>9. m = [n \in 1 .. N |-> m[n]] /\ m2 = [n \in 1 .. N |-> m2[n]]
  BY <1>1 DEF PiecesOf
<1> HIDE DEF L, s0, N, f, t, s, m, m2, g, ins, h, e, k1, h2, e2, k2
<1>10. \A a, x \in Seq(S) : a \o x \in Seq(S)
  OBVIOUS
<1>11. m \in [1 .. N -> Seq(S)] /\ m2 \in [1 .. N -> Seq(S)]
  <2>1. \A n \in 1 .. N : m[n] \in Seq(S) /\ m2[n] \in Seq(S)
    <3> SUFFICES ASSUME NEW n \in 1 .. N PROVE m[n] \in Seq(S) /\ m2[n] \in Seq(S)
      OBVIOUS
    <3>1. h(n - 1) \o e(n - 1) \in Seq(S) /\ h2(n - 1) \o e2(n - 1) \in Seq(S)
      BY <1>8, <1>10
    <3> QED
      BY <1>8, <1>10, <3>1
  <2> QED
    BY <1>9, <2>1
<1>12. \A x \in Seq(S) : (<< >> \o << >>) \o x = x
  <2>1. << >> \o << >> = << >> /\ \A x \in Seq(S) : << >> \o x = x
    BY ConcatEmptySeq
  <2> QED
    BY <2>1
<1>13. ASSUME NEW n \in 1 .. N, n <= s PROVE m[n] = <<s0[n]>>
  <2>1. n - 1 <= s /\ n - 1 < s
    BY <1>1, <1>2, <1>13
  <2>2. h(n - 1) = << >> /\ e(n - 1) = << >> /\ k1(n - 1) = <<s0[n]>>
    BY <1>5, <1>6, <1>7, <1>8, <2>1
  <2> QED
    BY <1>8, <1>12, <2>2
<1>14. ASSUME NEW n \in 1 .. N, n <= s, n # f + 1
       PROVE  h2(n - 1) = << >> /\ e2(n - 1) = << >>
  <2>1. n - 1 <= s /\ n - 1 < s /\ n - 1 # s /\ n - 1 # f
    BY <1>1, <1>2, <1>14
  <2> QED
    BY <1>5, <1>6, <1>8, <2>1
<1>15. ASSUME NEW n \in 1 .. N, n <= f \/ (t < n /\ n <= s) PROVE m2[n] = <<s0[n]>>
  <2>1. n <= s /\ n # f + 1 /\ n - 1 < s /\ ~ (f <= n - 1 /\ n - 1 < t)
    BY <1>1, <1>2, <1>15
  <2>2. h2(n - 1) = << >> /\ e2(n - 1) = << >> /\ k2(n - 1) = <<s0[n]>>
    BY <1>7, <1>8, <1>14, <2>1
  <2> QED
    BY <1>8, <1>12, <2>2
<1>16. ASSUME NEW n \in 1 .. N, f + 1 < n, n <= t PROVE m2[n] = << >>
  <2>1. n <= s /\ n # f + 1 /\ f <= n - 1 /\ n - 1 < t
    BY <1>1, <1>2, <1>16
  <2>2. h2(n - 1) = << >> /\ e2(n - 1) = << >> /\ k2(n - 1) = << >>
    BY <1>7, <1>8, <1>14, <2>1
  <2>3. << >> \in Seq(S)
    OBVIOUS
  <2> QED
    BY <1>8, <1>12, <2>2, <2>3
<1>17. m2[f + 1] = <<g>>
  <2>1. f + 1 \in 1 .. N /\ (f + 1) - 1 = f /\ f <= s /\ f # s
    BY <1>1, <1>2
  <2>2. h2(f) = << >> /\ e2(f) = <<g>> /\ k2(f) = << >>
    BY <1>2, <1>5, <1>6, <1>7, <2>1
  <2>3. <<g>> \in Seq(S)
    BY <1>3
  <2>4. (<< >> \o <<g>>) \o << >> = <<g>>
    <3>1. << >> \o <<g>> = <<g>> /\ <<g>> \o << >> = <<g>>
      BY <2>3, ConcatEmptySeq
    <3> QED
      BY <3>1
  <2> QED
    BY <1>8, <2>1, <2>2, <2>4
<1>18. m2[s + 1] = ins \o m[s + 1]
  <2>1. s + 1 \in 1 .. N /\ (s + 1) - 1 = s /\ s <= s /\ s # f /\ ~ (f <= s /\ s < t)
    BY <1>1, <1>2
  <2>2. h2(s) = ins /\ e2(s) = e(s) /\ k2(s) = k1(s) /\ h(s) = << >>
    BY <1>2, <1>5, <1>6, <1>7, <2>1
  <2>3. e(s) \in Seq(S) /\ k1(s) \in Seq(S) /\ m[s + 1] = (h(s) \o e(s)) \o k1(s) /\ m2[s + 1] = (h2(s) \o e2(s)) \o k2(s)
    BY <1>8, <2>1
  <2>4. << >> \o e(s) = e(s)
    BY <2>3, ConcatEmptySeq
  <2>5. (ins \o e(s)) \o k1(s) = ins \o (e(s) \o k1(s))
    BY <1>3, <2>3, ConcatAssociative
  <2> QED
    BY <2>2, <2>3, <2>4, <2>5
<1>19. ASSUME NEW n \in 1 .. N, s + 1 < n PROVE m2[n] = m[n]
  <2>1. n - 1 # s /\ n - 1 # f /\ ~ (f <= n - 1 /\ n - 1 < t)
    BY <1>1, <1>2, <1>19
  <2>2. h2(n - 1) = h(n - 1) /\ e2(n - 1) = e(n - 1) /\ k2(n - 1) = k1(n - 1)
    BY <1>5, <1>6, <1>7, <1>8, <2>1
  <2> QED
    BY <1>8, <2>2
<1>20. Grows(S, s0, m, m2, f, t, s, g, ins)
  BY <1>1, <1>2, <1>3, <1>11, <1>13, <1>15, <1>16, <1>17, <1>18, <1>19 DEF Grows, N
<1> QED
  BY <1>20 DEF s0, m, m2, f, t, s, g, ins, L

-----------------------------------------------------------------------------
(* What a guard's two edits change of the tokens.                          *)

\* A guard's two edits, as tokens: the arguments get ins in front, and the callee
\* is given up for one token.  Up to the arguments the text is as it was parsed.
IsEdited(S, base, src, from, to, first, ins, token, u) ==
  \E rest, tail \in Seq(S) :
    /\ FlattenSeq(src) = Lead(base, first) \o rest
    /\ FlattenSeq(u) = Lead(base, from) \o (<<token>> \o tail)
    /\ Lead(base, to) \o tail = Lead(base, first) \o (ins \o rest)

\* A guard's step makes such an edit.
LEMMA EditFlat ==
  ASSUME NEW S, NEW base \in Seq(Seq(S)), NEW src \in Seq(Seq(S)), DOMAIN src = DOMAIN base,
         NEW from, InText(base, from), NEW to, InText(base, to), NEW first, InText(base, first),
         Leq(from, to), Leq(to, first), Leq(from, first), Pristine(base, src, first),
         NEW ins \in Seq(S), NEW token \in S
  PROVE  IsEdited(S, base, src, from, to, first, ins, token,
                  Replace(Insert(src, first, ins), from, to, token))
<1> DEFINE t == Insert(src, first, ins)
           u == Replace(t, from, to, token)
<1>1. InText(src, first) /\ Lead(src, first) = Lead(base, first)
  BY LeadPristine
<1>2. /\ first[1] \in DOMAIN src /\ first[2] \in Nat \ {0} /\ first[2] \in Nat
      /\ first[2] <= Len(src[first[1]]) + 1
  BY <1>1 DEF InText
<1>3. t \in Seq(Seq(S)) /\ DOMAIN t = DOMAIN base
  <2>1. IsInserted(S, src, first, ins, t)
    BY <1>2, InsertIs
  <2> HIDE DEF t
  <2> QED
    BY <2>1 DEF IsInserted
<1>4. ASSUME NEW q, InText(base, q), Leq(q, first)
      PROVE  InText(t, q) /\ Lead(t, q) = Lead(base, q)
  <2>1. q[1] \in DOMAIN src /\ q[1] \in DOMAIN base /\ q[2] \in Nat /\ q[2] \in 1 .. Len(base[q[1]]) + 1
    <3>1. q[1] \in DOMAIN base /\ q[2] \in Nat \ {0} /\ q[2] <= Len(base[q[1]]) + 1
      BY <1>4 DEF InText
    <3>2. Len(base[q[1]]) \in Nat
      BY <3>1
    <3> QED
      BY <3>1, <3>2
  <2>2. first[1] \in DOMAIN base /\ first[2] \in Nat
    BY <1>2
  <2>3. Pristine(base, src, q)
    BY <1>4, <2>1, <2>2, PristineDown
  <2>4. Pristine(base, t, q)
    BY <1>2, <1>4, <2>1, <2>3, InsertPristine
  <2> HIDE DEF t
  <2> QED
    BY <1>3, <1>4, <2>4, LeadPristine
<1>5. FlattenSeq(t) = Lead(base, first) \o (ins \o Trail(src, first))
  BY <1>1, InsertFlat
<1>6. FlattenSeq(src) = Lead(base, first) \o Trail(src, first) /\ Trail(src, first) \in Seq(S)
  BY <1>1, CutJoin, CutTypes
<1> HIDE DEF t
<1>7. /\ InText(t, from) /\ Lead(t, from) = Lead(base, from)
      /\ InText(t, to) /\ Lead(t, to) = Lead(base, to)
  BY <1>4
<1>8. FlattenSeq(u) = Lead(base, from) \o (<<token>> \o Trail(t, to))
  <2>1. FlattenSeq(u) = Lead(t, from) \o (<<token>> \o Trail(t, to))
    <3>1. t \in Seq(Seq(S)) /\ InText(t, from) /\ InText(t, to)
      BY <1>3, <1>7
    <3> QED
      BY <3>1, ReplaceFlat, SMTT(30)
  <2> QED
    BY <1>7, <2>1
<1>9. FlattenSeq(t) = Lead(base, to) \o Trail(t, to) /\ Trail(t, to) \in Seq(S)
  BY <1>3, <1>7, CutJoin, CutTypes
<1> HIDE DEF u
<1>10. Lead(base, to) \o Trail(t, to) = Lead(base, first) \o (ins \o Trail(src, first))
  BY <1>5, <1>9
<1>11. IsEdited(S, base, src, from, to, first, ins, token, u)
  BY <1>6, <1>8, <1>9, <1>10 DEF IsEdited
<1> QED
  BY <1>11 DEF u, t

\* What is left without X is of the alphabet.
LEMMA WithoutType ==
  ASSUME NEW S, NEW s \in Seq(S), NEW X
  PROVE  Without(s, X) \in Seq(S)
BY SinglesType

\* Concatenation, for terms that have a name,
LEMMA Regrouped ==
  ASSUME NEW S, NEW a \in Seq(S), NEW b \in Seq(S), NEW c \in Seq(S), NEW d, d = a \o b
  PROVE  d \o c = a \o (b \o c) /\ b \o c \in Seq(S)
BY ConcatAssociative

\* and for any.
LEMMA Sums ==
  ASSUME NEW S
  PROVE  /\ \A u, v, w \in Seq(S) : (u \o v) \o w = u \o (v \o w)
         /\ \A u, v \in Seq(S) : u \o v \in Seq(S)
<1>1. \A u, v, w \in Seq(S) : (u \o v) \o w = u \o (v \o w)
  BY ConcatAssociative, SMTT(30)
<1>2. \A u, v \in Seq(S) : u \o v \in Seq(S)
  OBVIOUS
<1> QED
  BY <1>1, <1>2

\* A text of which, with the tokens X taken out, the parsed one is left up to s,
\* and more behind it; and the end of it, once ins is put in at s.
Withheld(S, A, X, s0, f, t, s, ins, token, rest, tail, more) ==
  /\ A \subseteq S /\ A \cap X = {} /\ s0 \in Seq(A) /\ ins \in Seq(A) /\ token \in A
  /\ f \in Nat /\ t \in Nat /\ s \in Nat /\ f < t /\ t <= s /\ s <= Len(s0)
  /\ rest \in Seq(S) /\ tail \in Seq(S) /\ more \in Seq(S)
  /\ Without(SubSeq(s0, 1, s) \o rest, X) = SubSeq(s0, 1, s) \o more
  /\ SubSeq(s0, 1, t) \o tail = SubSeq(s0, 1, s) \o (ins \o rest)

StaysWithheld(X, s0, f, t, s, ins, token, tail, more) ==
  Without(SubSeq(s0, 1, f) \o (<<token>> \o tail), X)
    = SubSeq(s0, 1, f) \o (<<token>> \o (SubSeq(s0, t + 1, s) \o (ins \o more)))

\* The declarations can be left out before the edit or after it.
LEMMA EditWithout ==
  ASSUME NEW S, NEW A, NEW X, NEW s0, NEW f, NEW t, NEW s, NEW ins, NEW token, NEW rest, NEW tail, NEW more,
         Withheld(S, A, X, s0, f, t, s, ins, token, rest, tail, more)
  PROVE  StaysWithheld(X, s0, f, t, s, ins, token, tail, more)
<1> DEFINE a == SubSeq(s0, 1, f)
           b == SubSeq(s0, 1, t)
           c == SubSeq(s0, t + 1, s)
           d == SubSeq(s0, 1, s)
           g == <<token>>
<1>0. /\ A \subseteq S /\ A \cap X = {} /\ s0 \in Seq(A) /\ ins \in Seq(A) /\ token \in A
      /\ f \in Nat /\ t \in Nat /\ s \in Nat /\ f < t /\ t <= s /\ s <= Len(s0)
      /\ rest \in Seq(S) /\ tail \in Seq(S) /\ more \in Seq(S)
  BY DEF Withheld
<1>1. a \in Seq(A) /\ b \in Seq(A) /\ c \in Seq(A) /\ d \in Seq(A) /\ g \in Seq(A)
  <2>1. \A m, n \in Nat : m >= 1 /\ n <= Len(s0) => SubSeq(s0, m, n) \in Seq(A)
    <3>1. Len(s0) \in Nat
      BY <1>0
    <3> QED
      BY <1>0, <3>1
  <2>2. /\ 1 \in Nat /\ t + 1 \in Nat /\ 1 >= 1 /\ t + 1 >= 1
        /\ f <= Len(s0) /\ t <= Len(s0) /\ s <= Len(s0)
    BY <1>0
  <2>3. a \in Seq(A) /\ b \in Seq(A) /\ c \in Seq(A) /\ d \in Seq(A)
    BY <1>0, <2>1, <2>2
  <2>4. g \in Seq(A)
    BY <1>0
  <2> QED
    BY <2>3, <2>4
<1>2. d = b \o c
  <2>1. Len(s0) \in Nat
    BY <1>0
  <2>2. 1 \in 1 .. Len(s0) + 1 /\ t \in 1 - 1 .. Len(s0) /\ s \in t .. Len(s0)
    BY <1>0, <2>1
  <2>3. SubSeq(s0, 1, t) \o SubSeq(s0, t + 1, s) = SubSeq(s0, 1, s)
    BY <1>0, <2>2, ConcatAdjacentSubSeq
  <2> QED
    BY <2>3
<1>a. Without(d \o rest, X) = d \o more /\ b \o tail = d \o (ins \o rest)
  BY DEF Withheld
<1> HIDE DEF a, b, c, d, g
<1>3. Seq(A) \subseteq Seq(S)
  BY <1>0, SeqsGrow
<1>4. a \in Seq(S) /\ b \in Seq(S) /\ c \in Seq(S) /\ d \in Seq(S) /\ g \in Seq(S) /\ ins \in Seq(S)
  BY <1>0, <1>1, <1>3
<1>5. /\ \A u, v, w \in Seq(S) : (u \o v) \o w = u \o (v \o w)
      /\ \A u, v \in Seq(S) : u \o v \in Seq(S)
  BY Sums, Zenon
<1> DEFINE e == ins \o rest
<1>6. e \in Seq(S)
  BY <1>0, <1>4, <1>5, Zenon
<1>b. b \o tail = d \o e
  BY <1>a
<1> HIDE DEF e
<1>7. tail = c \o e
  <2>1. d \o e = b \o (c \o e) /\ c \o e \in Seq(S)
    BY <1>2, <1>4, <1>6, Regrouped
  <2> DEFINE v == c \o e
  <2>2. b \o tail = b \o v /\ v \in Seq(S)
    BY <1>b, <2>1
  <2> HIDE DEF v
  <2>3. tail = v
    BY <1>0, <1>4, <2>2, CancelFront
  <2> QED
    BY <2>3 DEF v
<1>8. \A u \in Seq(A) : Without(u, X) = u
  <2> SUFFICES ASSUME NEW u \in Seq(A) PROVE Without(u, X) = u
    OBVIOUS
  <2> QED
    BY <1>0, WithoutNone
<1>9. \A u, v \in Seq(S) : Without(u \o v, X) = Without(u, X) \o Without(v, X) /\ Without(u, X) \in Seq(S)
  <2> SUFFICES ASSUME NEW u \in Seq(S), NEW v \in Seq(S)
               PROVE  Without(u \o v, X) = Without(u, X) \o Without(v, X) /\ Without(u, X) \in Seq(S)
    OBVIOUS
  <2> QED
    <3>1. Without(u \o v, X) = Without(u, X) \o Without(v, X)
      BY WithoutConcat
    <3>2. Without(u, X) \in Seq(S)
      BY WithoutType
    <3> QED
      BY <3>1, <3>2
<1>10. Without(rest, X) = more
  <2> DEFINE w == Without(rest, X)
  <2>1. w \in Seq(S)
    BY <1>0, <1>9
  <2>2. Without(d \o rest, X) = Without(d, X) \o w
    BY <1>0, <1>4, <1>9, Zenon
  <2>3. d \o w = d \o more
    BY <1>1, <1>8, <1>a, <2>2, Zenon
  <2> HIDE DEF w
  <2>4. w = more
    BY <1>0, <1>4, <2>1, <2>3, CancelFront
  <2> QED
    BY <2>4 DEF w
<1>11. Without(e, X) = ins \o more
  <2>1. Without(e, X) = Without(ins, X) \o Without(rest, X)
    BY <1>0, <1>4, <1>9, Zenon DEF e
  <2>2. Without(ins, X) = ins
    BY <1>0, <1>8
  <2> QED
    BY <1>10, <2>1, <2>2, Zenon
<1>12. Without(tail, X) = c \o (ins \o more)
  <2>1. Without(c \o e, X) = Without(c, X) \o Without(e, X)
    BY <1>4, <1>6, <1>9, Zenon
  <2>2. Without(c, X) = c
    BY <1>1, <1>8
  <2> QED
    BY <1>7, <1>11, <2>1, <2>2, Zenon
<1>13. Without(g \o tail, X) = g \o (c \o (ins \o more))
  <2>1. Without(g \o tail, X) = Without(g, X) \o Without(tail, X)
    BY <1>0, <1>4, <1>9, Zenon
  <2>2. Without(g, X) = g
    BY <1>1, <1>8
  <2> QED
    BY <1>12, <2>1, <2>2, Zenon
<1>14. Without(a \o (g \o tail), X) = a \o (g \o (c \o (ins \o more)))
  <2>1. g \o tail \in Seq(S)
    BY <1>0, <1>4, <1>5, Zenon
  <2>2. Without(a \o (g \o tail), X) = Without(a, X) \o Without(g \o tail, X)
    BY <1>4, <1>9, <2>1, Zenon
  <2>3. Without(a, X) = a
    BY <1>1, <1>8
  <2> QED
    BY <1>13, <2>2, <2>3, Zenon
<1> QED
  BY <1>14 DEF a, c, g, StaysWithheld

-----------------------------------------------------------------------------
(* The calls that are done with, and the text so far.                      *)

\* The calls that are done with, of those that get a guard.
Waits(items, k) == \E j \in DOMAIN items : ~ items[j].mark /\ items[j].call = k
Treated(p, items) == {k \in ToGuard(p) : ~ Waits(items, k)}

\* The last calls are done with first; and if the callees are plain the text is,
\* but for the declarations, what was parsed with those guarded.
OrderInv ==
  \A k \in DOMAIN prog.calls : ~ Waits(left, k) =>
    \A j \in DOMAIN left : ~ left[j].mark => left[j].call < k
DoneInv ==
  /\ \A k \in Treated(prog, left) : prog.calls[k].sig \in Range(guards)
  /\ Without(Tokens, Range(DeclOf)) = Meant(prog, guards, Treated(prog, left))

\* When the last item goes, its call is the only one that waits no more.
LEMMA WaitsLess ==
  ASSUME ListInv, left # << >>
  PROVE  /\ \A k : Waits(Front(left), k) => Waits(left, k)
         /\ \A k : Waits(left, k) => Waits(Front(left), k) \/ (~ Item.mark /\ k = Item.call)
         /\ ~ Item.mark => /\ Waits(left, Item.call) /\ ~ Waits(Front(left), Item.call)
                           /\ \A j \in DOMAIN Front(left) : ~ Front(left)[j].mark => Front(left)[j].call < Item.call
<1>1. /\ Len(left) \in Nat \ {0} /\ DOMAIN left = 1 .. Len(left) /\ Item = left[Len(left)]
      /\ DOMAIN Front(left) = 1 .. Len(left) - 1
      /\ \A k \in 1 .. Len(left) - 1 : Front(left)[k] = left[k]
  BY LastItem
<1>2. Len(left) \in DOMAIN left /\ \A k \in 1 .. Len(left) - 1 : k \in DOMAIN left
  BY <1>1
<1>3. \A k : Waits(Front(left), k) => Waits(left, k)
  BY <1>1, <1>2 DEF Waits
<1>4. ASSUME NEW k, Waits(left, k) PROVE Waits(Front(left), k) \/ (~ Item.mark /\ k = Item.call)
  <2>1. PICK j \in DOMAIN left : ~ left[j].mark /\ left[j].call = k
    BY <1>4 DEF Waits
  <2>2. j = Len(left) \/ j \in 1 .. Len(left) - 1
    BY <1>1, <2>1
  <2>3. CASE j = Len(left)
    BY <1>1, <2>1, <2>3
  <2>4. CASE j \in 1 .. Len(left) - 1
    BY <1>1, <2>1, <2>4 DEF Waits
  <2> QED
    BY <2>2, <2>3, <2>4
<1>5. ASSUME ~ Item.mark
      PROVE  /\ Waits(left, Item.call) /\ ~ Waits(Front(left), Item.call)
             /\ \A j \in DOMAIN Front(left) : ~ Front(left)[j].mark => Front(left)[j].call < Item.call
  <2>1. Waits(left, Item.call)
    BY <1>1, <1>2, <1>5 DEF Waits
  <2>2. ASSUME NEW j \in DOMAIN Front(left), ~ Front(left)[j].mark
        PROVE  Front(left)[j].call < Item.call
    <3>1. j \in 1 .. Len(left) - 1 /\ Front(left)[j] = left[j]
      BY <1>1, <2>2
    <3>2. Ordered(prog.calls, left)
      BY DEF ListInv
    <3> QED
      BY <1>1, <1>2, <1>5, <2>2, <3>1, <3>2 DEF Ordered
  <2>3. ~ Waits(Front(left), Item.call)
    <3> SUFFICES ASSUME NEW j \in DOMAIN Front(left), ~ Front(left)[j].mark, Front(left)[j].call = Item.call
                 PROVE  FALSE
      BY DEF Waits
    <3>1. Item.call < Item.call
      BY <2>2
    <3>2. Item.call \in Nat
      <4>1. DOMAIN prog.calls \subseteq Nat \ {0}
        BY FnsRise, Places DEF ListInv
      <4> QED
        BY <4>1, LastItem
    <3> QED
      BY <3>1, <3>2
  <2> QED
    BY <2>1, <2>2, <2>3
<1> QED
  BY <1>3, <1>4, <1>5

\* What is done with when the last item is.
LEMMA TreatedMore ==
  ASSUME ListInv, OrderInv, left # << >>
  PROVE  /\ Item.mark => Treated(prog, Front(left)) = Treated(prog, left)
         /\ ~ Item.mark /\ Item.call \notin ToGuard(prog) => Treated(prog, Front(left)) = Treated(prog, left)
         /\ ~ Item.mark /\ Item.call \in ToGuard(prog) =>
              Treated(prog, Front(left)) = Treated(prog, left) \cup {Item.call}
         /\ ~ Item.mark => \A k \in Treated(prog, left) : Item.call < k
<1>1. /\ \A k : Waits(Front(left), k) => Waits(left, k)
      /\ \A k : Waits(left, k) => Waits(Front(left), k) \/ (~ Item.mark /\ k = Item.call)
  BY WaitsLess
<1>2. ~ Item.mark => Waits(left, Item.call) /\ ~ Waits(Front(left), Item.call)
  BY WaitsLess
<1>3. ASSUME ~ Item.mark, NEW k \in Treated(prog, left) PROVE Item.call < k
  <2>1. k \in DOMAIN prog.calls /\ ~ Waits(left, k)
    BY DEF Treated, ToGuard
  <2>2. Len(left) \in DOMAIN left /\ Item = left[Len(left)]
    BY LastItem
  <2> QED
    BY <1>3, <2>1, <2>2 DEF OrderInv
<1> QED
  BY <1>1, <1>2, <1>3 DEF Treated

\* Every step takes the last item or none.
LEMMA OrderStep ==
  ASSUME ListInv, OrderInv, Step
  PROVE  OrderInv'
<1>1. prog' = prog
  BY DEF Step, Declare, Skip, Unexpected, Guard, Write
<1>2. CASE left' = left
  BY <1>1, <1>2 DEF OrderInv, Waits
<1>3. CASE left # << >> /\ left' = Front(left)
  <2> SUFFICES ASSUME NEW k \in DOMAIN prog.calls, ~ Waits(Front(left), k),
                      NEW j \in DOMAIN Front(left), ~ Front(left)[j].mark
               PROVE  Front(left)[j].call < k
    BY <1>1, <1>3 DEF OrderInv, Waits
  <2>1. CASE ~ Item.mark /\ k = Item.call
    BY <1>3, <2>1, WaitsLess
  <2>2. CASE ~ (~ Item.mark /\ k = Item.call)
    <3>1. ~ Waits(left, k)
      BY <1>3, <2>2, WaitsLess
    <3>2. j \in DOMAIN left /\ Front(left)[j] = left[j]
      <4>1. /\ DOMAIN Front(left) = 1 .. Len(left) - 1 /\ Len(left) \in Nat \ {0} /\ DOMAIN left = 1 .. Len(left)
            /\ \A l \in 1 .. Len(left) - 1 : Front(left)[l] = left[l]
        BY <1>3, LastItem
      <4> QED
        BY <4>1
    <3> QED
      BY <3>1, <3>2 DEF OrderInv
  <2> QED
    BY <2>1, <2>2
<1> QED
  BY <1>2, <1>3 DEF Step, Declare, Skip, Unexpected, Guard, Write

\* A signature that has a number keeps it.
LEMMA NumberStays ==
  ASSUME NEW S, NEW gs \in Seq(S), NEW more, more = gs \/ (\E x \in S : more = Append(gs, x)),
         \A m, n \in DOMAIN more : more[m] = more[n] => m = n, NEW sig \in Range(gs)
  PROVE  /\ NumberIn(more, sig) = NumberIn(gs, sig) /\ NumberIn(gs, sig) \in DOMAIN gs
         /\ sig \in Range(more)
<1>1. PICK l \in DOMAIN gs : gs[l] = sig
  BY DEF Range
<1>2. /\ DOMAIN gs \subseteq DOMAIN more /\ \A m \in DOMAIN gs : more[m] = gs[m]
  <2>1. CASE more = gs
    BY <2>1
  <2>2. CASE \E x \in S : more = Append(gs, x)
    BY <2>2
  <2> QED
    BY <2>1, <2>2
<1>3. \A m \in DOMAIN more : more[m] = sig => m = l
  BY <1>1, <1>2
<1>4. NumberIn(gs, sig) = l
  <2>1. \A m \in DOMAIN gs : gs[m] = sig => m = l
    BY <1>2, <1>3
  <2> QED
    BY <1>1, <2>1 DEF NumberIn
<1>5. NumberIn(more, sig) = l
  <2>1. l \in DOMAIN more /\ more[l] = sig
    BY <1>1, <1>2
  <2> QED
    BY <1>3, <2>1 DEF NumberIn
<1>6. sig \in Range(more)
  BY <1>1, <1>2 DEF Range
<1> QED
  BY <1>1, <1>4, <1>5, <1>6

\* The calls that are skipped are none that get a guard.
LEMMA SkipsNone ==
  ASSUME NEW call, Reveal(call) # "odd", ~ Selected(call),
         Ought(call) => call.levels = 0 \/ (call.levels = 1 /\ call.base # "pointer")
  PROVE  ~ Ought(call)
<1> SUFFICES ASSUME Ought(call) PROVE FALSE
  OBVIOUS
<1>1. call.base # "odd"
  BY DEF Reveal
<1>2. CASE call.levels = 0
  <2>1. call.base \in {"pointer", "deref"} /\ HasThunk(call)
    BY <1>2 DEF Ought
  <2>2. Reveal(call) = "pointer"
    BY <1>1, <1>2, <2>1 DEF Reveal
  <2> QED
    BY <2>1, <2>2 DEF Selected
<1>3. CASE call.levels = 1 /\ call.base # "pointer"
  <2>1. Reveal(call) = "pointer" /\ HasThunk(call)
    BY <1>1, <1>3 DEF Reveal, Ought
  <2> QED
    BY <2>1 DEF Selected
<1> QED
  BY <1>2, <1>3

\* A file that is read has no call done.
LEMMA DoneLoad ==
  ASSUME NEW p, Parsed(p), Load(p)
  PROVE  OrderInv' /\ DoneInv'
<1>1. /\ prog' = p /\ source' = p.lines /\ left' = Marked(p.calls) /\ guards' = << >>
  BY DEF Load
<1>2. ASSUME NEW k \in DOMAIN p.calls PROVE Waits(Marked(p.calls), k)
  <2>1. [mark |-> FALSE, call |-> k] \in Range(Marked(p.calls))
    BY MarkedHoldsCalls DEF Parsed
  <2>2. PICK j \in DOMAIN Marked(p.calls) : Marked(p.calls)[j] = [mark |-> FALSE, call |-> k]
    BY <2>1 DEF Range
  <2> QED
    BY <2>2 DEF Waits
<1>3. OrderInv'
  BY <1>1, <1>2 DEF OrderInv, Waits
<1>4. Treated(p, Marked(p.calls)) = {}
  BY <1>2 DEF Treated, ToGuard
<1>5. Without(FlattenSeq(p.lines), Range(DeclOf)) = FlattenSeq(p.lines)
  <2>1. p.lines \in Seq(Seq(Alphabet(p))) /\ Alphabet(p) \cap Range(DeclOf) = {}
    BY DEF Parsed
  <2>2. FlattenSeq(p.lines) \in Seq(Alphabet(p))
    BY <2>1, FlattenElements
  <2> QED
    BY <2>1, <2>2, WithoutNone
<1>6. Meant(p, << >>, {}) = FlattenSeq(p.lines)
  <2>1. p.lines \in Seq(Seq(Alphabet(p)))
    BY DEF Parsed
  <2> QED
    BY <2>1, MeantNone
<1>7. Treated(prog, left)' = {}
  BY <1>1, <1>4 DEF Treated, Waits
<1>8. Tokens' = FlattenSeq(p.lines)
  BY <1>1 DEF Tokens
<1> QED
  BY <1>1, <1>3, <1>5, <1>6, <1>7, <1>8 DEF DoneInv

\* The declarations that a mark puts in are what is left out again.
LEMMA DoneDeclare ==
  ASSUME ListInv, TextInv, OrderInv, DoneInv, Declare
  PROVE  DoneInv'
<1> DEFINE S == Tok(prog)
           X == Range(DeclOf)
           at == prog.fns[Current.fn]
           t == Insert(source, at, pending)
<1>1. /\ left # << >> /\ Item.mark /\ source' = t /\ left' = Front(left) /\ prog' = prog /\ guards' = guards
  BY DEF Declare
<1>2. InText(source, at) /\ source \in Seq(Seq(S))
  <2>1. Len(left) \in DOMAIN left /\ Item = left[Len(left)] /\ Item.call \in DOMAIN prog.calls
        /\ Current = prog.calls[Item.call]
    BY <1>1, LastItem
  <2>2. PlaceOf(prog, Item) = at /\ Ahead(prog, Item)
    BY <1>1, <2>1 DEF PlaceOf, Ahead
  <2>3. Pristine(prog.lines, source, at)
    BY <2>1, <2>2 DEF TextInv
  <2>4. Proper(prog, at)
    BY <2>1, Placement DEF ListInv
  <2> HIDE DEF at
  <2> QED
    BY <2>3, <2>4 DEF TextInv, Pristine, Proper, InText
<1>3. pending \in Seq(X) /\ pending \in Seq(S)
  <2>1. pending \in Seq(X) /\ X \subseteq S
    BY DEF ListInv, Tok
  <2> HIDE DEF X, S
  <2> QED
    BY <2>1, SeqsGrow
<1> HIDE DEF at, S
<1> DEFINE a == Lead(source, at)
           b == Trail(source, at)
<1>4. FlattenSeq(source) = a \o b /\ FlattenSeq(t) = a \o (pending \o b) /\ a \in Seq(S) /\ b \in Seq(S)
  BY <1>2, <1>3, CutJoin, CutTypes, InsertFlat
<1> HIDE DEF a, b, t
<1>5. Without(FlattenSeq(t), X) = Without(FlattenSeq(source), X)
  <2> HIDE DEF X
  <2>1. Without(a \o b, X) = Without(a, X) \o Without(b, X)
    BY <1>4, WithoutConcat
  <2>2. Without(pending \o b, X) = Without(pending, X) \o Without(b, X) /\ pending \o b \in Seq(S)
    BY <1>3, <1>4, WithoutConcat
  <2> DEFINE c == pending \o b
  <2>3. c \in Seq(S) /\ FlattenSeq(t) = a \o c /\ Without(c, X) = Without(pending, X) \o Without(b, X)
    BY <1>4, <2>2
  <2> HIDE DEF c
  <2>4. Without(a \o c, X) = Without(a, X) \o Without(c, X)
    <3>1. a \in Seq(S) /\ c \in Seq(S)
      BY <1>4, <2>3
    <3> QED
      BY <3>1, WithoutConcat
  <2>5. Without(pending, X) = << >>
    BY <1>3, WithoutAll
  <2>6. << >> \o Without(b, X) = Without(b, X)
    <3>1. Without(b, X) \in Seq(S)
      BY <1>4, WithoutType
    <3> QED
      BY <3>1, ConcatEmptySeq
  <2>7. Without(c, X) = Without(b, X)
    BY <2>3, <2>5, <2>6
  <2> QED
    BY <1>4, <2>1, <2>3, <2>4, <2>7
<1>6. Treated(prog, left)' = Treated(prog, left)
  <2>1. Treated(prog, Front(left)) = Treated(prog, left)
    BY <1>1, TreatedMore
  <2>2. Treated(prog, left)' = Treated(prog, Front(left))
    BY <1>1 DEF Treated, Waits
  <2> QED
    BY <2>1, <2>2
<1>7. Without(Tokens, X)' = Without(Tokens, X)
  BY <1>1, <1>5 DEF Tokens, Without
<1> QED
  BY <1>1, <1>6, <1>7 DEF DoneInv

\* A call that is passed over is one that gets no guard.
LEMMA DoneSkip ==
  ASSUME ListInv, OrderInv, CalleesPlain, DoneInv, Skip
  PROVE  DoneInv'
<1>1. /\ left # << >> /\ ~ Item.mark /\ Reveal(Current) # "odd" /\ ~ Selected(Current)
      /\ left' = Front(left) /\ UNCHANGED <<prog, source, guards, pending>>
  BY DEF Skip
<1>2. Item.call \in DOMAIN prog.calls /\ Current = prog.calls[Item.call]
  BY <1>1, LastItem
<1>3. Ought(Current) => Current.levels = 0 \/ (Current.levels = 1 /\ Current.base # "pointer")
  BY <1>2 DEF CalleesPlain, Plain
<1>4. ~ Ought(Current)
  BY <1>1, <1>3, SkipsNone
<1>5. Treated(prog, Front(left)) = Treated(prog, left)
  BY <1>1, <1>2, <1>4, TreatedMore DEF ToGuard
<1>6. Treated(prog, left)' = Treated(prog, left)
  BY <1>1, <1>5 DEF Treated, Waits
<1> QED
  BY <1>1, <1>6 DEF DoneInv, Tokens, Without

\* Numbers that are in use are of guards that have a name.
LEMMA SpellsIs ==
  ASSUME NEW p, NEW gs, NEW K,
         \A k \in K : NumberIn(gs, p.calls[k].sig) \in DOMAIN GuardName
  PROVE  Spells(Tok(p), p, gs, K)
<1>1. \A k \in K : Guarding(p, gs, k) \in Range(GuardName)
  BY DEF Guarding, Range
<1> QED
  BY <1>1 DEF Spells, Tok

\* A signature that is new has the number its guard gets.
LEMMA NumberNew ==
  ASSUME NEW S, NEW gs \in Seq(S), NEW sig \in S, NEW num, num = NumberIn(gs, sig),
         NEW more, num > Len(gs) => more = Append(gs, sig), ~ (num > Len(gs)) => more = gs,
         \A m, n \in DOMAIN more : more[m] = more[n] => m = n
  PROVE  NumberIn(more, sig) = num /\ sig \in Range(more)
<1>1. Len(gs) \in Nat /\ DOMAIN gs = 1 .. Len(gs)
  OBVIOUS
<1>2. CASE \E n \in DOMAIN gs : gs[n] = sig
  <2>1. num = CHOOSE n \in DOMAIN gs : gs[n] = sig
    BY <1>2 DEF NumberIn
  <2>2. num \in DOMAIN gs /\ gs[num] = sig
    BY <1>2, <2>1
  <2>3. ~ (num > Len(gs))
    BY <1>1, <2>2
  <2> QED
    BY <2>2, <2>3 DEF Range
<1>3. CASE ~ \E n \in DOMAIN gs : gs[n] = sig
  <2>1. num = Len(gs) + 1
    BY <1>3 DEF NumberIn
  <2>a. num > Len(gs)
    BY <1>1, <2>1
  <2>2. more = Append(gs, sig)
    BY <2>a
  <2>3. num \in DOMAIN more /\ more[num] = sig
    <3>1. Append(gs, sig)[Len(gs) + 1] = sig /\ Len(gs) + 1 \in DOMAIN Append(gs, sig)
      BY <1>1
    <3> QED
      BY <2>1, <2>2, <3>1, Zenon
  <2>4. NumberIn(more, sig) = CHOOSE n \in DOMAIN more : more[n] = sig
    BY <2>3 DEF NumberIn
  <2> HIDE DEF NumberIn
  <2>5. NumberIn(more, sig) \in DOMAIN more /\ more[NumberIn(more, sig)] = sig
    BY <2>3, <2>4
  <2> QED
    BY <2>3, <2>5 DEF Range
<1> QED
  BY <1>2, <1>3

\* A call that gets its guard is done with, and is as it is meant.
LEMMA DoneGuard ==
  ASSUME ListInv, TextInv, OrderInv, CalleesPlain, DoneInv, Guard
  PROVE  DoneInv'
<1> DEFINE S == Tok(prog)
           X == Range(DeclOf)
           A == Alphabet(prog) \cup {","} \cup Range(GuardName)
           base == prog.lines
           s0 == FlattenSeq(base)
           b == Item.call
           K == Treated(prog, left)
           L == K \cup {b}
           n == Number(Current.sig)
           from == Current.from
           to == Current.to
           first == Current.first
           f == FromAt(prog, b)
           t == ToAt(prog, b)
           s == FirstAt(prog, b)
           callee == RangeText(from, to)
           ins == IF Current.bare THEN callee ELSE Append(callee, ",")
           u == Replace(Insert(source, first, ins), from, to, GuardName[n])
<1>1. /\ left # << >> /\ ~ Item.mark /\ Selected(Current) /\ source' = u
      /\ left' = Front(left) /\ prog' = prog
      /\ guards' = IF n > Len(guards) THEN Append(guards, Current.sig) ELSE guards
  BY DEF Guard, Edit
<1>2. /\ b \in DOMAIN prog.calls /\ Current = prog.calls[b] /\ Item = left[Len(left)] /\ Len(left) \in DOMAIN left
      /\ Parsed(prog)
  <2>1. Len(left) \in Nat \ {0} /\ DOMAIN left = 1 .. Len(left)
    BY <1>1, LastItem
  <2>2. Len(left) \in DOMAIN left
    BY <2>1
  <2> HIDE DEF S, X, A, s0, K, L, n, from, to, first, f, t, s, callee, ins, u
  <2> QED
    BY <1>1, <2>2, LastItem DEF ListInv
\* Which calls are guarded, before and after.
<1>3. /\ b \in ToGuard(prog) /\ L \subseteq ToGuard(prog) /\ \A k \in K : b < k
      /\ Treated(prog, left)' = L
  <2>1. Ought(Current)
    BY <1>1, SelectedOught
  <2>2. b \in ToGuard(prog)
    BY <1>2, <2>1 DEF ToGuard
  <2>3. Treated(prog, left)' = Treated(prog, Front(left))
    BY <1>1 DEF Treated, Waits
  <2>4. Treated(prog, Front(left)) = L /\ \A k \in K : b < k
    BY <1>1, <2>2, TreatedMore
  <2>5. K \subseteq ToGuard(prog)
    BY DEF Treated
  <2> QED
    BY <2>2, <2>3, <2>4, <2>5
<1>4. Spread(S, prog, L)
  <2>1. Spread(S, prog, ToGuard(prog))
    BY <1>2, SpreadPlain DEF CalleesPlain
  <2> HIDE DEF S, L
  <2> QED
    BY <1>3, <2>1 DEF Spread
\* The guards' numbers.
<1> DEFINE gs2 == guards'
<1>5. /\ n \in DOMAIN GuardName /\ guards \in Seq(Sigs(prog))
      /\ \A k, m \in DOMAIN gs2 : gs2[k] = gs2[m] => k = m
      /\ n = NumberIn(guards, Current.sig) /\ Current.sig \in Sigs(prog)
      /\ gs2 = IF n > Len(guards) THEN Append(guards, Current.sig) ELSE guards
  <2>1. gs2 = IF n > Len(guards) THEN Append(guards, Current.sig) ELSE guards
    BY <1>1
  <2>2. Current.sig \in Sigs(prog)
    BY <1>2 DEF Sigs
  <2>3. n = NumberIn(guards, Current.sig)
    BY DEF Number
  <2>4. guards \in Seq(Sigs(prog))
    BY DEF ListInv
  <2> HIDE DEF gs2
  <2>5. Number(Current.sig) \in DOMAIN GuardName /\ \A k, m \in DOMAIN gs2 : gs2[k] = gs2[m] => k = m
    BY <1>1, <2>1, GuardNumber
  <2> HIDE DEF n
  <2> QED
    BY <2>1, <2>2, <2>3, <2>4, <2>5 DEF n
<1> HIDE DEF gs2
<1>6. ASSUME NEW k \in K
      PROVE  /\ NumberIn(gs2, prog.calls[k].sig) = NumberIn(guards, prog.calls[k].sig)
             /\ NumberIn(guards, prog.calls[k].sig) \in DOMAIN guards
             /\ prog.calls[k].sig \in Range(gs2)
  <2> DEFINE sig == prog.calls[k].sig
             T == Sigs(prog)
  <2>1. sig \in Range(guards)
    BY DEF DoneInv
  <2>2. gs2 = guards \/ \E x \in T : gs2 = Append(guards, x)
    BY <1>5
  <2>3. guards \in Seq(T) /\ \A j, m \in DOMAIN gs2 : gs2[j] = gs2[m] => j = m
    BY <1>5
  <2> HIDE DEF sig, T, K
  <2>4. NumberIn(gs2, sig) = NumberIn(guards, sig) /\ NumberIn(guards, sig) \in DOMAIN guards /\ sig \in Range(gs2)
    BY <2>1, <2>2, <2>3, NumberStays
  <2> QED
    BY <2>4 DEF sig
<1>7. NumberIn(gs2, Current.sig) = n /\ Current.sig \in Range(gs2)
  <2> DEFINE sig == Current.sig
             T == Sigs(prog)
  <2>1. /\ guards \in Seq(T) /\ sig \in T /\ n = NumberIn(guards, sig)
        /\ n > Len(guards) => gs2 = Append(guards, sig)
        /\ ~ (n > Len(guards)) => gs2 = guards
        /\ \A j, m \in DOMAIN gs2 : gs2[j] = gs2[m] => j = m
    BY <1>5
  <2> HIDE DEF sig, n, T
  <2>2. NumberIn(gs2, sig) = n /\ sig \in Range(gs2)
    BY <2>1, NumberNew
  <2> QED
    BY <2>2 DEF sig
<1>8. DOMAIN guards \subseteq DOMAIN GuardName
  <2>1. IsFiniteSet(Sigs(prog)) /\ Cardinality(Sigs(prog)) <= Len(GuardName)
    BY <1>2, FnsRise, SigsFinite DEF Parsed, Sigs
  <2>2. Len(guards) <= Cardinality(Sigs(prog))
    BY <2>1, NoMoreThan DEF ListInv
  <2>3. Cardinality(Sigs(prog)) \in Nat
    BY <2>1, FS_CardinalityType
  <2>4. /\ Len(guards) \in Nat /\ DOMAIN guards = 1 .. Len(guards)
        /\ Len(GuardName) \in Nat /\ DOMAIN GuardName = 1 .. Len(GuardName)
    <3>1. GuardName \in Seq(Range(GuardName))
      BY GuardNamesAssumption
    <3> QED
      BY <1>5, <3>1
  <2> QED
    BY <2>1, <2>2, <2>3, <2>4
<1>9. Spells(S, prog, gs2, L) /\ \A k \in K : Guarding(prog, guards, k) = Guarding(prog, gs2, k)
  <2>1. \A k \in L : NumberIn(gs2, prog.calls[k].sig) \in DOMAIN GuardName
    <3>1. NumberIn(gs2, prog.calls[b].sig) \in DOMAIN GuardName
      BY <1>2, <1>5, <1>7
    <3>2. ASSUME NEW k \in K PROVE NumberIn(gs2, prog.calls[k].sig) \in DOMAIN GuardName
      BY <1>6, <1>8
    <3> QED
      BY <3>1, <3>2
  <2>2. \A k \in K : Guarding(prog, guards, k) = Guarding(prog, gs2, k)
    BY <1>6 DEF Guarding
  <2> HIDE DEF gs2, L
  <2> QED
    BY <2>1, <2>2, SpellsIs
<1>10. Guarding(prog, gs2, b) = GuardName[n]
  BY <1>2, <1>7 DEF Guarding
<1> DEFINE token == GuardName[n]
\* The two texts that are meant.
<1>11. PICK more \in Seq(S) :
         /\ Meant(prog, guards, K) = SubSeq(s0, 1, s) \o more
         /\ Meant(prog, gs2, L) = SubSeq(s0, 1, f) \o (<<token>> \o (SubSeq(s0, t + 1, s) \o (Hands(prog, b) \o more)))
  <2>a. Spread(S, prog, K \cup {b}) /\ Spells(S, prog, gs2, K \cup {b})
    BY <1>4, <1>9
  <2> HIDE DEF S, K, b
  <2>1. Grows(S, FlattenSeq(prog.lines), PiecesOf(prog, guards, K), PiecesOf(prog, gs2, K \cup {b}),
              FromAt(prog, b), ToAt(prog, b), FirstAt(prog, b), Guarding(prog, gs2, b), Hands(prog, b))
    BY <1>3, <1>9, <2>a, PiecesMore
  <2> HIDE DEF L
  <2>2. Meant(prog, guards, K) = FlattenSeq(PiecesOf(prog, guards, K))
        /\ Meant(prog, gs2, L) = FlattenSeq(PiecesOf(prog, gs2, L))
    BY DEF Meant, PiecesOf
  <2> DEFINE m == PiecesOf(prog, guards, K)
             m2 == PiecesOf(prog, gs2, L)
             hands == Hands(prog, b)
  <2>3. Grows(S, s0, m, m2, f, t, s, token, hands)
    BY <1>10, <2>1 DEF L
  <2> HIDE DEF m, m2, s0, f, t, s, token, hands
  <2>4. \E rest \in Seq(S) :
           /\ FlattenSeq(m) = SubSeq(s0, 1, s) \o rest
           /\ FlattenSeq(m2) = SubSeq(s0, 1, f) \o (<<token>> \o (SubSeq(s0, t + 1, s) \o (hands \o rest)))
    <3>1. IsGrown(S, s0, m, m2, f, t, s, token, hands)
      BY <2>3, Grown
    <3> QED
      BY <3>1 DEF IsGrown
  <2> QED
    BY <2>2, <2>4 DEF m, m2, hands
\* Where the call is.
<1>12. /\ InText(base, from) /\ InText(base, to) /\ InText(base, first)
       /\ Leq(from, to) /\ Leq(to, first) /\ Leq(from, first)
       /\ base \in Seq(Seq(S)) /\ source \in Seq(Seq(S)) /\ DOMAIN source = DOMAIN base
       /\ Pristine(base, source, first)
  <2>1. Proper(prog, from) /\ Proper(prog, to) /\ Proper(prog, first)
    BY <1>2, Placement
  <2>2. Leq(from, to) /\ Leq(to, first)
    BY <1>2, FunctionsApart
  <2>3. Leq(from, first)
    BY <2>1, <2>2, LeqTrans
  <2>4. PlaceOf(prog, Item) = first /\ Ahead(prog, Item)
    BY <1>1, <1>2 DEF PlaceOf, Ahead
  <2>5. Pristine(base, source, first)
    BY <1>2, <2>4 DEF TextInv
  <2>6. base \in Seq(Seq(S))
    BY <1>4 DEF Spread
  <2>7. source \in Seq(Seq(S)) /\ DOMAIN source = DOMAIN base
    BY DEF TextInv
  <2> HIDE DEF from, to, first, S
  <2> QED
    BY <2>1, <2>2, <2>3, <2>5, <2>6, <2>7 DEF Proper, InText
<1>13. /\ Lead(base, from) = SubSeq(s0, 1, f) /\ Lead(base, to) = SubSeq(s0, 1, t)
       /\ Lead(base, first) = SubSeq(s0, 1, s)
  <2>1. f = Offset(prog, from) /\ t = Offset(prog, to) /\ s = Offset(prog, first)
    BY <1>2 DEF FromAt, ToAt, FirstAt
  <2> HIDE DEF from, to, first, S, f, t, s
  <2>2. /\ IsOffset(S, prog, from, Offset(prog, from)) /\ IsOffset(S, prog, to, Offset(prog, to))
        /\ IsOffset(S, prog, first, Offset(prog, first))
    BY <1>12, Offsets
  <2> QED
    BY <2>1, <2>2 DEF IsOffset
<1>14. callee = Callee(prog, prog.calls[b]) /\ ins = Hands(prog, b)
  <2> HIDE DEF S
  <2>1. RangeText(from, to) = SubSeq(FlattenSeq(prog.lines), Offset(prog, from) + 1, Offset(prog, to))
    BY <1>12, RangeIs
  <2>2. callee = Callee(prog, prog.calls[b])
    BY <1>2, <2>1 DEF Callee
  <2> QED
    BY <1>2, <2>2 DEF Hands
<1>15. /\ A \subseteq S /\ A \cap X = {} /\ s0 \in Seq(A) /\ token \in A /\ Hands(prog, b) \in Seq(A)
       /\ ins \in Seq(S) /\ token \in S
  <2>1. A \subseteq S /\ token \in A
    BY <1>5 DEF Tok, Range
  <2>2. A \cap X = {}
    <3>1. Alphabet(prog) \cap Range(DeclOf) = {}
      BY <1>2 DEF Parsed
    <3>2. Range(GuardName) \cap Range(DeclOf) = {} /\ "," \notin Range(DeclOf)
      BY GuardNamesAssumption
    <3> QED
      BY <3>1, <3>2
  <2>3. base \in Seq(Seq(A))
    <3>1. base \in Seq(Seq(Alphabet(prog)))
      BY <1>2 DEF Parsed
    <3>2. Seq(Alphabet(prog)) \subseteq Seq(A)
      BY SeqsGrow
    <3>3. Seq(Seq(Alphabet(prog))) \subseteq Seq(Seq(A))
      BY <3>2, SeqsGrow
    <3> QED
      BY <3>1, <3>3
  <2>4. s0 \in Seq(A)
    <3> HIDE DEF A
    <3> QED
      BY <2>3, FlattenElements
  <2>5. Spread(A, prog, L)
    <3> HIDE DEF A, L
    <3> QED
      BY <1>4, <2>3 DEF Spread
  <2>6. Spells(A, prog, gs2, L)
    <3>1. "," \in A
      OBVIOUS
    <3>2. ASSUME NEW k \in L PROVE Guarding(prog, gs2, k) \in A
      <4>1. CASE k = b
        BY <1>10, <2>1, <4>1
      <4>2. CASE k \in K
        <5>1. NumberIn(gs2, prog.calls[k].sig) \in DOMAIN GuardName
          BY <1>6, <1>8, <4>2
        <5>2. Guarding(prog, gs2, k) \in Range(GuardName)
          BY <5>1 DEF Guarding, Range
        <5> QED
          BY <5>2
      <4> QED
        BY <4>1, <4>2
    <3> HIDE DEF A, L
    <3> QED
      BY <3>1, <3>2 DEF Spells
  <2>7. Hands(prog, b) \in Seq(A)
    <3>1. b \in L
      OBVIOUS
    <3> HIDE DEF A, L, b
    <3> QED
      BY <2>5, <2>6, <3>1, HandsType
  <2>8. Seq(A) \subseteq Seq(S)
    BY <2>1, SeqsGrow
  <2> HIDE DEF A, S, X, ins, token, s0
  <2> QED
    BY <1>14, <2>1, <2>2, <2>4, <2>7, <2>8
<1>16. /\ f \in Nat /\ t \in Nat /\ s \in Nat /\ f < t /\ t <= s /\ s <= Len(s0)
  <2>1. b \in L
    OBVIOUS
  <2>2. /\ f \in Nat /\ t \in Nat /\ s \in Nat /\ f < t /\ t <= s /\ s < Len(s0)
    BY <1>4, <2>1 DEF Spread
  <2>3. Len(s0) \in Nat
    <3> HIDE DEF s0, A
    <3>1. s0 \in Seq(A)
      BY <1>15
    <3> QED
      BY <3>1
  <2> HIDE DEF f, t, s, s0
  <2> QED
    BY <2>2, <2>3
<1>17. IsEdited(S, base, source, from, to, first, ins, token, u)
  <2> HIDE DEF base, from, to, first, ins, token, S
  <2> QED
    BY <1>12, <1>15, EditFlat DEF token
<1>18. PICK rest \in Seq(S), tail \in Seq(S) :
         /\ FlattenSeq(source) = Lead(base, first) \o rest
         /\ FlattenSeq(u) = Lead(base, from) \o (<<token>> \o tail)
         /\ Lead(base, to) \o tail = Lead(base, first) \o (ins \o rest)
  <2> HIDE DEF base, from, to, first, ins, token, S, u
  <2> QED
    BY <1>17 DEF IsEdited
<1>19. Without(FlattenSeq(source), X) = Meant(prog, guards, K)
  BY DEF DoneInv, Tokens
<1> DEFINE hands == Hands(prog, b)
<1>20. Withheld(S, A, X, s0, f, t, s, hands, token, rest, tail, more)
  <2> HIDE DEF S, A, X, s0, f, t, s, token, base, from, to, first, ins, u, K, hands
  <2>1. ins = hands
    BY <1>14 DEF hands
  <2>2. Without(SubSeq(s0, 1, s) \o rest, X) = SubSeq(s0, 1, s) \o more
    BY <1>11, <1>13, <1>18, <1>19
  <2>3. SubSeq(s0, 1, t) \o tail = SubSeq(s0, 1, s) \o (hands \o rest)
    BY <1>13, <1>18, <2>1
  <2>4. hands \in Seq(A)
    BY <1>15 DEF hands
  <2> QED
    BY <1>11, <1>15, <1>16, <1>18, <2>2, <2>3, <2>4 DEF Withheld
<1>21. Without(FlattenSeq(u), X) = Meant(prog, gs2, L)
  <2> HIDE DEF S, A, X, s0, f, t, s, token, base, from, to, first, ins, u, K, L, hands
  <2>1. Without(SubSeq(s0, 1, f) \o (<<token>> \o tail), X)
           = SubSeq(s0, 1, f) \o (<<token>> \o (SubSeq(s0, t + 1, s) \o (hands \o more)))
    <3>1. StaysWithheld(X, s0, f, t, s, hands, token, tail, more)
      BY <1>20, EditWithout
    <3> QED
      BY <3>1 DEF StaysWithheld
  <2>2. FlattenSeq(u) = SubSeq(s0, 1, f) \o (<<token>> \o tail)
    BY <1>13, <1>18
  <2> QED
    BY <1>11, <2>1, <2>2 DEF hands
<1>22. ASSUME NEW k \in L PROVE prog.calls[k].sig \in Range(gs2)
  BY <1>2, <1>6, <1>7
<1> HIDE DEF u, L, X
<1>23. Without(Tokens, Range(DeclOf))' = Meant(prog, gs2, L)
  BY <1>1, <1>21 DEF Tokens, Without, X
<1> QED
  BY <1>1, <1>3, <1>22, <1>23 DEF DoneInv, gs2

\* No step leaves a call half done.
LEMMA DoneStep ==
  ASSUME ListInv, TextInv, OrderInv, CalleesPlain, DoneInv, Step
  PROVE  DoneInv'
<1>1. CASE Unexpected \/ Write
  <2>1. UNCHANGED <<prog, source, left, guards>>
    BY <1>1 DEF Unexpected, Write
  <2> QED
    BY <2>1 DEF DoneInv, Treated, Waits, Tokens, Without
<1> QED
  BY <1>1, DoneDeclare, DoneSkip, DoneGuard DEF Step

ReplacedInv ==
  status # "none" => OrderInv /\ (CalleesPlain => DoneInv)

\* Inductive with the invariants of the parts, of the run and of the text.
LEMMA ReplacedNext ==
  SplitInv /\ PlaceInv /\ RewriteInv /\ ReplacedInv /\ [Next]_vars => ReplacedInv'
<1> SUFFICES ASSUME SplitInv, PlaceInv, RewriteInv, ReplacedInv, [Next]_vars PROVE ReplacedInv'
  OBVIOUS
<1>1. CASE UNCHANGED cfiVars
  BY <1>1 DEF cfiVars, ReplacedInv, OrderInv, DoneInv, CalleesPlain, Plain, Treated, Waits, Tokens, Without
<1>2. CASE Add
  <2>1. CfiReady /\ Load(text[File])
    BY <1>2 DEF Add
  <2>2. running \in 1 .. num_parts /\ i <= PartSize(running) /\ SplitOver /\ i \in Nat \ {0}
    <3>1. CASE phase = "expanded"
      BY <3>1 DEF PlaceInv, SplitInv
    <3>2. CASE AtCommand
      BY <3>2, AtFile DEF PlaceInv
    <3> QED
      BY <2>1, <3>1, <3>2 DEF CfiReady
  <2>3. Parsed(text[File])
    BY <2>2, FileAt DEF PlaceInv
  <2> QED
    BY <2>1, <2>3, DoneLoad DEF ReplacedInv
<1>3. CASE Rewrite
  <2>1. Step /\ status = "rewriting"
    BY <1>3 DEF Rewrite, Step, Declare, Skip, Unexpected, Guard, Write
  <2>2. ListInv /\ OrderInv /\ (CalleesPlain => TextInv /\ DoneInv)
    BY <2>1 DEF RewriteInv, ReplacedInv
  <2>3. prog' = prog
    BY <2>1 DEF Step, Declare, Skip, Unexpected, Guard, Write
  <2>4. CalleesPlain' <=> CalleesPlain
    BY <2>3 DEF CalleesPlain, Plain
  <2>5. OrderInv' /\ (CalleesPlain => DoneInv')
    BY <2>1, <2>2, OrderStep, DoneStep
  <2> QED
    BY <2>4, <2>5 DEF ReplacedInv
<1> QED
  BY <1>1, <1>2, <1>3 DEF Next, Done, vars, Split, SplitEnds, Expand, ExpandFails, Added, Advance, AddFails,
                          AddAgain, NextPart, Rerun

\* Whatever the file, if its callees are plain names: but for the declarations,
\* the text that is written is the text that was parsed with every call guarded
\* that ought to be, by the guard of its signature, and nothing else changed.
THEOREM CallsReplaced == Spec => []PlainCallsReplaced
<1>1. Init => RewriteInv /\ ReplacedInv
  BY DEF Init, RewriteInv, ReplacedInv
<1>2. RewriteInv /\ ReplacedInv => PlainCallsReplaced
  <2> SUFFICES ASSUME RewriteInv, ReplacedInv, status = "written", CalleesPlain
               PROVE  Without(Tokens, Range(DeclOf)) = Meant(prog, guards, ToGuard(prog))
    BY DEF PlainCallsReplaced
  <2>1. left = << >> /\ DoneInv
    BY DEF RewriteInv, ReplacedInv
  <2>2. Treated(prog, << >>) = ToGuard(prog)
    BY DEF Treated, Waits
  <2> QED
    BY <2>1, <2>2 DEF DoneInv
<1>3. Spec => [](RewriteInv /\ ReplacedInv)
  BY <1>1, RewriteNext, ReplacedNext, PlaceAlways, PTL DEF Spec
<1> QED
  BY <1>2, <1>3, PTL

=============================================================================
