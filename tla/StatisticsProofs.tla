-------------------------- MODULE StatisticsProofs --------------------------
(***************************************************************************)
(* For every set of records and every list of libraries: what ncistat.py   *)
(* reports is there, the first search of a library misses nothing, an      *)
(* answer that is remembered is not revised, files are whole or cut off    *)
(* with a verdict on each function, and where each record is used in one   *)
(* place the verdicts are exact.  And of the lists that ncifilter.py makes *)
(* of packages: the table has a row for each, with the figures of its      *)
(* headers.                                                                *)
(***************************************************************************)
EXTENDS PackageFilter, FlattenProofs

USE RecordsAssumption

RecordFrame == [of : Records, header : Nat, next : Nat \ {0}, sofar : Answers]
FunctionFrame == [of : {"function"}, name : STRING, types : Seq(Field),
                  header : Nat, next : Nat \ {0}, sofar : Answers]
Frame == FunctionFrame \cup RecordFrame

FieldsIn(l, frame) == IF frame.of = "function" THEN frame.types
                      ELSE l.layouts[frame.header][frame.of]

\* The calls under way in library l: each frame waits for the answer to its
\* current field from the frame above it, no record is searched twice at once,
\* and what a frame has found is below it.
Calls(l, s) ==
  /\ s \in Seq(Frame)
  /\ \A n \in DOMAIN s : /\ s[n].header \in DOMAIN l.layouts
                         /\ s[n].of = "function" <=> n = 1
                         /\ Found(s[n].sofar) => Justified(l, FieldsIn(l, s[n]))
  /\ \A n \in 2 .. Len(s) : /\ s[n - 1].next \in DOMAIN FieldsIn(l, s[n - 1])
                            /\ FieldsIn(l, s[n - 1])[s[n - 1].next].to = s[n].of
  /\ \A m, n \in 2 .. Len(s) : s[m].of = s[n].of => m = n

Shape ==
  /\ info_doc \in Seq([name : STRING, lib : Library])
  /\ lib \in Library
  /\ todo \in Seq(Decl) /\ \A n \in DOMAIN todo : todo[n].header \in DOMAIN lib.layouts
  /\ verdicts \in Seq([name : STRING, header : Nat, types : Seq(Field), answer : Answers])
  /\ phase \in {"scanning", "writing"} => i <= Len(info_doc)

Remembered == \A r \in DOMAIN records_map : Found(records_map[r]) => LeadsToFunction(lib, r)
Told == \A n \in DOMAIN verdicts : Found(verdicts[n].answer) => Justified(lib, verdicts[n].types)

Inv == TypeOK /\ Shape /\ Calls(lib, stack) /\ Remembered /\ Told

-----------------------------------------------------------------------------
(* What a search finds is below the record it was found from.              *)

LEMMA FieldsType ==
  ASSUME NEW l \in Library, NEW frame \in Frame, frame.header \in DOMAIN l.layouts
  PROVE  FieldsIn(l, frame) \in Seq(Field)
<1>1. CASE frame.of = "function"
  BY <1>1 DEF Frame, FunctionFrame, RecordFrame, FieldsIn
<1>2. CASE frame.of # "function"
  <2>1. frame.of \in Records
    BY <1>2 DEF Frame, FunctionFrame, RecordFrame
  <2>2. l.layouts[frame.header] \in [Records -> Seq(Field)]
    BY DEF Library
  <2> QED
    BY <1>2, <2>1, <2>2 DEF FieldsIn
<1> QED
  BY <1>1, <1>2

LEMMA BelowRecord ==
  ASSUME NEW l \in Library, NEW h \in DOMAIN l.layouts, NEW r \in Records,
         NEW n \in DOMAIN l.layouts[h][r], Bad(l, l.layouts[h][r][n])
  PROVE  LeadsToFunction(l, r)
<1> DEFINE f == l.layouts[h][r][n]
<1>1. f \in FieldsAnywhere(l, r)
  BY DEF FieldsAnywhere, Range
<1> SUFFICES ASSUME NEW S \in SUBSET Records, Downward(l, S) PROVE r \in S
  BY DEF LeadsToFunction
<1>2. f.to = "function" \/ f.to \in S
  BY DEF Bad, LeadsToFunction
<1> QED
  BY <1>1, <1>2 DEF Downward

LEMMA FoundBelow ==
  ASSUME NEW l \in Library, NEW frame \in Frame, frame.header \in DOMAIN l.layouts,
         frame.of # "function", Justified(l, FieldsIn(l, frame))
  PROVE  frame.of \in Records /\ LeadsToFunction(l, frame.of)
<1>1. frame.of \in Records
  BY DEF Frame, FunctionFrame, RecordFrame
<1>2. FieldsIn(l, frame) = l.layouts[frame.header][frame.of]
  BY DEF FieldsIn
<1> QED
  BY <1>1, <1>2, BelowRecord DEF Justified

\* A frame takes up an answer: what it finds is justified by its current field.
LEMMA AnswerTaken ==
  ASSUME lib \in Library, NEW frame \in Frame, frame.header \in DOMAIN lib.layouts,
         NEW answer \in Answers, frame.next \in DOMAIN FieldsIn(lib, frame),
         Found(frame.sofar) => Justified(lib, FieldsIn(lib, frame)),
         Found(answer) => Bad(lib, FieldsIn(lib, frame)[frame.next])
  PROVE  LET after == Answered(frame, answer) IN
         /\ after \in Frame /\ after.of = frame.of /\ after.header = frame.header
         /\ FieldsIn(lib, after) = FieldsIn(lib, frame)
         /\ Found(after.sofar) => Justified(lib, FieldsIn(lib, after))
<1> DEFINE after == Answered(frame, answer)
<1>1. Combine(frame, answer) \in Answers
  BY DEF Combine, Answers, Frame, FunctionFrame, RecordFrame
<1>2. frame.next + 1 \in Nat \ {0}
  BY DEF Frame, FunctionFrame, RecordFrame
<1>3. after = [frame EXCEPT !.sofar = Combine(frame, answer), !.next = frame.next + 1]
  BY DEF Answered
<1>4. after \in Frame /\ after.of = frame.of /\ after.header = frame.header
      /\ after.sofar = Combine(frame, answer)
      /\ (frame.of = "function" => after.types = frame.types)
  <2> HIDE DEF after
  <2>1. CASE frame \in FunctionFrame
    BY <1>1, <1>2, <1>3, <2>1 DEF Frame, FunctionFrame
  <2>2. CASE frame \in RecordFrame
    BY <1>1, <1>2, <1>3, <2>2 DEF Frame, RecordFrame
  <2> QED
    BY <2>1, <2>2 DEF Frame
<1>5. FieldsIn(lib, after) = FieldsIn(lib, frame)
  BY <1>4 DEF FieldsIn
<1>6. Found(Combine(frame, answer)) => Found(frame.sofar) \/ Found(answer)
  BY DEF Combine, Found, Answers
<1> QED
  BY <1>4, <1>5, <1>6 DEF Justified

-----------------------------------------------------------------------------
(* The stack of calls.                                                     *)

LEMMA FrontIs ==
  ASSUME NEW T, NEW s \in Seq(T), s # << >>
  PROVE  /\ Len(s) \in Nat \ {0} /\ Front(s) \in Seq(T) /\ Len(Front(s)) = Len(s) - 1
         /\ \A n \in 1 .. Len(s) - 1 : Front(s)[n] = s[n]
BY DEF Front

LEMMA Popped ==
  ASSUME NEW l, NEW s, Calls(l, s), s # << >> PROVE Calls(l, Front(s))
<1> DEFINE f == Front(s)
<1>1. f \in Seq(Frame) /\ Len(f) = Len(s) - 1 /\ \A n \in 1 .. Len(f) : f[n] = s[n]
  BY FrontIs DEF Calls
<1>2. Len(s) \in Nat \ {0} /\ DOMAIN f = 1 .. Len(s) - 1 /\ DOMAIN s = 1 .. Len(s)
  BY <1>1, FrontIs DEF Calls
<1> HIDE DEF f
<1>3. \A n \in DOMAIN f : n \in DOMAIN s /\ f[n] = s[n]
  BY <1>1, <1>2
<1>4. \A n \in 2 .. Len(f) : n \in 2 .. Len(s) /\ f[n] = s[n] /\ f[n - 1] = s[n - 1]
  BY <1>1, <1>2
<1>5. Calls(l, f)
  BY <1>1, <1>3, <1>4, SMTT(30) DEF Calls
<1> QED
  BY <1>5 DEF f

LEMMA Pushed ==
  ASSUME NEW l, NEW s, Calls(l, s), s # << >>, NEW frame \in RecordFrame,
         frame.header \in DOMAIN l.layouts, ~ Found(frame.sofar),
         s[Len(s)].next \in DOMAIN FieldsIn(l, s[Len(s)]),
         FieldsIn(l, s[Len(s)])[s[Len(s)].next].to = frame.of,
         \A n \in 2 .. Len(s) : s[n].of # frame.of
  PROVE  Calls(l, Append(s, frame))
<1> DEFINE t == Append(s, frame)
<1>1. s \in Seq(Frame) /\ Len(s) \in Nat \ {0} /\ frame \in Frame /\ frame.of # "function"
  BY FrontIs DEF Calls, Frame, RecordFrame
<1>2. /\ t \in Seq(Frame) /\ Len(t) = Len(s) + 1 /\ t[Len(s) + 1] = frame
      /\ \A n \in 1 .. Len(s) : t[n] = s[n]
  BY <1>1
<1>3. DOMAIN t = 1 .. Len(s) + 1 /\ DOMAIN s = 1 .. Len(s)
  BY <1>1, <1>2
<1> HIDE DEF t
<1>4. \A n \in DOMAIN t : /\ t[n].header \in DOMAIN l.layouts
                          /\ t[n].of = "function" <=> n = 1
                          /\ Found(t[n].sofar) => Justified(l, FieldsIn(l, t[n]))
  <2>1. ASSUME NEW n \in DOMAIN t, n # Len(s) + 1 PROVE n \in DOMAIN s /\ t[n] = s[n]
    BY <1>1, <1>2, <1>3, <2>1
  <2> QED
    BY <1>1, <1>2, <1>3, <2>1 DEF Calls
<1>5. \A n \in 2 .. Len(t) : /\ t[n - 1].next \in DOMAIN FieldsIn(l, t[n - 1])
                             /\ FieldsIn(l, t[n - 1])[t[n - 1].next].to = t[n].of
  <2>1. ASSUME NEW n \in 2 .. Len(t), n # Len(s) + 1
        PROVE  n \in 2 .. Len(s) /\ t[n] = s[n] /\ t[n - 1] = s[n - 1]
    BY <1>1, <1>2, <2>1
  <2>2. Len(s) + 1 - 1 = Len(s) /\ t[Len(s)] = s[Len(s)]
    BY <1>1, <1>2
  <2>3. ASSUME NEW n \in 2 .. Len(t), n # Len(s) + 1
        PROVE  /\ t[n - 1].next \in DOMAIN FieldsIn(l, t[n - 1])
               /\ FieldsIn(l, t[n - 1])[t[n - 1].next].to = t[n].of
    BY <2>1, <2>3 DEF Calls
  <2>4. ASSUME NEW n \in 2 .. Len(t), n = Len(s) + 1
        PROVE  /\ t[n - 1].next \in DOMAIN FieldsIn(l, t[n - 1])
               /\ FieldsIn(l, t[n - 1])[t[n - 1].next].to = t[n].of
    BY <1>2, <2>2, <2>4
  <2> QED
    BY <2>3, <2>4
<1>6. \A m, n \in 2 .. Len(t) : t[m].of = t[n].of => m = n
  <2>1. ASSUME NEW n \in 2 .. Len(t) PROVE n = Len(s) + 1 \/ (n \in 2 .. Len(s) /\ t[n] = s[n])
    BY <1>1, <1>2
  <2> QED
    BY <1>2, <2>1 DEF Calls
<1>7. Calls(l, t)
  BY <1>2, <1>4, <1>5, <1>6 DEF Calls
<1> QED
  BY <1>7 DEF t

LEMMA TopReplaced ==
  ASSUME NEW l, NEW s, Calls(l, s), s # << >>, NEW frame \in Frame,
         frame.of = s[Len(s)].of, frame.header = s[Len(s)].header,
         Found(frame.sofar) => Justified(l, FieldsIn(l, frame))
  PROVE  Calls(l, Append(Front(s), frame))
<1> DEFINE f == Front(s)
           t == Append(f, frame)
<1>0. f \in Seq(Frame) /\ Len(f) = Len(s) - 1 /\ \A n \in 1 .. Len(s) - 1 : f[n] = s[n]
  BY FrontIs DEF Calls
<1>1. s \in Seq(Frame) /\ Len(s) \in Nat \ {0} /\ DOMAIN s = 1 .. Len(s)
  BY FrontIs DEF Calls
<1> HIDE DEF f
<1>2. /\ t \in Seq(Frame) /\ Len(t) = Len(s) /\ t[Len(s)] = frame
      /\ \A n \in 1 .. Len(s) - 1 : t[n] = s[n]
  BY <1>0, <1>1
<1> HIDE DEF t
<1>3. DOMAIN t = 1 .. Len(s)
  BY <1>1, <1>2
<1>4. \A n \in DOMAIN t : n \in DOMAIN s /\ t[n].of = s[n].of /\ t[n].header = s[n].header
                          /\ (t[n] = s[n] \/ t[n] = frame)
  BY <1>1, <1>2, <1>3
<1>5. \A n \in 2 .. Len(t) : /\ n \in 2 .. Len(s) /\ t[n].of = s[n].of /\ t[n - 1] = s[n - 1]
  BY <1>1, <1>2, <1>3, <1>4
<1>6. \A n \in DOMAIN t : Found(t[n].sofar) => Justified(l, FieldsIn(l, t[n]))
  BY <1>4 DEF Calls
<1>7. \A n \in DOMAIN t : t[n].header \in DOMAIN l.layouts /\ (t[n].of = "function" <=> n = 1)
  BY <1>4 DEF Calls
<1>8. Calls(l, t)
  BY <1>2, <1>5, <1>6, <1>7 DEF Calls
<1> QED
  BY <1>8 DEF f, t

-----------------------------------------------------------------------------
(* The steps of the search.                                                *)

Aside == UNCHANGED <<info_doc, i, files, phase, rows, crashes>>

LEMMA TopIs ==
  ASSUME Inv, stack # << >>
  PROVE  /\ Len(stack) \in Nat \ {0} /\ Top \in Frame /\ Top.header \in DOMAIN lib.layouts
         /\ FieldsOf(Top) = FieldsIn(lib, Top) /\ FieldsIn(lib, Top) \in Seq(Field)
         /\ Found(Top.sofar) => Justified(lib, FieldsIn(lib, Top))
         /\ Top.of = "function" <=> InFunction
         /\ ~ Over(Top) => /\ Top.next \in DOMAIN FieldsIn(lib, Top)
                           /\ Current = FieldsIn(lib, Top)[Top.next]
                           /\ Current.to \in Records \cup {"function", "plain"}
<1>1. stack \in Seq(Frame) /\ Len(stack) \in Nat \ {0} /\ Len(stack) \in DOMAIN stack
  BY DEF Inv, Calls
<1>2. /\ Top \in Frame /\ Top.header \in DOMAIN lib.layouts
      /\ Found(Top.sofar) => Justified(lib, FieldsIn(lib, Top))
      /\ Top.of = "function" <=> InFunction
  <2>1. Top = stack[Len(stack)] /\ (InFunction <=> Len(stack) = 1)
    BY DEF Top, InFunction
  <2>2. \A n \in DOMAIN stack : stack[n] \in Frame
    BY <1>1
  <2> QED
    BY <1>1, <2>1, <2>2 DEF Inv, Calls
<1>3. FieldsOf(Top) = FieldsIn(lib, Top)
  BY DEF FieldsOf, FieldsIn
<1>4. FieldsIn(lib, Top) \in Seq(Field)
  BY <1>2, FieldsType DEF Inv, Shape
<1>5. ASSUME ~ Over(Top)
      PROVE  /\ Top.next \in DOMAIN FieldsIn(lib, Top)
             /\ Current = FieldsIn(lib, Top)[Top.next]
             /\ Current.to \in Records \cup {"function", "plain"}
  <2>1. Top.next \in Nat \ {0}
    BY <1>2 DEF Frame, FunctionFrame, RecordFrame
  <2>2. ~ (Top.next > Len(FieldsIn(lib, Top)))
    BY <1>3, <1>5 DEF Over
  <2>3. Top.next \in DOMAIN FieldsIn(lib, Top)
    BY <1>4, <2>1, <2>2
  <2>4. Current = FieldsIn(lib, Top)[Top.next]
    BY <1>3 DEF Current
  <2>5. Current \in Field
    BY <1>4, <2>3, <2>4
  <2> QED
    BY <2>3, <2>4, <2>5 DEF Field
<1> QED
  BY <1>1, <1>2, <1>3, <1>4, <1>5

\* What is answered without a search is true.
LEMMA ReadyIs ==
  ASSUME Inv, NEW to \in Records \cup {"function", "plain"}, ~ NeedsCall(to)
  PROVE  /\ Ready(to) \in Answers
         /\ Found(Ready(to)) => to = "function" \/ (to \in Records /\ LeadsToFunction(lib, to))
<1>1. records_map \in [DOMAIN records_map -> Answers] /\ DOMAIN records_map \subseteq Records
  BY DEF Inv, TypeOK
<1>0. VisitedNow \subseteq Records
  BY DEF Inv, TypeOK, VisitedNow
<1>2. CASE to = "plain" \/ to = "function"
  <2>1. to \notin VisitedNow /\ to \notin DOMAIN records_map
    BY <1>0, <1>1, <1>2
  <2> QED
    BY <1>2, <2>1 DEF Ready, Answers, Found
<1>3. CASE to \in VisitedNow /\ to \in Records
  <2>1. to # "plain" /\ to # "function"
    BY <1>3
  <2> QED
    BY <1>3, <2>1 DEF Ready, Answers, Found
<1>4. CASE to \notin VisitedNow /\ to \in DOMAIN records_map
  <2>1. Ready(to) = records_map[to]
    BY <1>1, <1>4 DEF Ready
  <2> QED
    BY <1>1, <1>4, <2>1 DEF Inv, Remembered
<1> QED
  BY <1>2, <1>3, <1>4 DEF NeedsCall

LEMMA LookStep == ASSUME Inv, Look, Aside PROVE Inv'
<1>1. stack # << >> /\ ~ Over(Top) /\ ~ NeedsCall(Current.to)
  BY DEF Look
<1> DEFINE answer == Ready(Current.to)
           after == Answered(Top, answer)
<1>2. answer \in Answers /\ (Found(answer) => Bad(lib, Current))
  BY <1>1, TopIs, ReadyIs DEF Bad
<1>3. /\ after \in Frame /\ after.of = Top.of /\ after.header = Top.header
      /\ Found(after.sofar) => Justified(lib, FieldsIn(lib, after))
  BY <1>1, <1>2, TopIs, AnswerTaken DEF Inv, Shape
<1> HIDE DEF answer
<1>4. stack' = Append(Front(stack), after) /\ UNCHANGED <<lib, todo, records_map, verdicts>>
  BY DEF Look, answer
<1> HIDE DEF after
<1>5. Calls(lib, Append(Front(stack), after))
  BY <1>1, <1>3, TopReplaced DEF Inv, Top
<1>6. Calls(lib, stack)'
  BY <1>4, <1>5
<1>7. visited \subseteq visited' \/ InFunction
  BY DEF Look, VisitedNow
<1>8. visited' \subseteq Records
  BY DEF Look, VisitedNow, Inv, TypeOK
<1>9. TypeOK'
  <2>1. \A n \in DOMAIN stack' : stack'[n].sofar \in Answers
    BY <1>6 DEF Calls, Frame, FunctionFrame, RecordFrame
  <2>2. Len(stack') = Len(stack) /\ \A n \in 2 .. Len(stack) : stack'[n].of = stack[n].of
    <3>1. /\ stack \in Seq(Frame) /\ Front(stack) \in Seq(Frame) /\ Len(Front(stack)) = Len(stack) - 1
          /\ \A n \in 1 .. Len(stack) - 1 : Front(stack)[n] = stack[n]
          /\ Len(stack) \in Nat \ {0}
      BY <1>1, FrontIs DEF Inv, Calls
    <3> DEFINE f == Front(stack)
    <3> HIDE DEF f
    <3>2. Append(f, after)[Len(f) + 1] = after /\ Len(Append(f, after)) = Len(f) + 1
          /\ \A n \in 1 .. Len(f) : Append(f, after)[n] = f[n]
      BY <1>3, <3>1 DEF f
    <3> QED
      BY <1>3, <1>4, <3>1, <3>2 DEF f, Top
  <2>3. \A n \in 2 .. Len(stack') : stack'[n].of \in visited' \ DOMAIN records_map'
    BY <1>1, <1>4, <1>7, <2>2, TopIs DEF Inv, TypeOK, InFunction
  <2> QED
    BY <1>4, <1>8, <2>1, <2>3 DEF Inv, TypeOK, Aside
<1> QED
  BY <1>4, <1>6, <1>9 DEF Inv, Shape, Remembered, Told, Aside

LEMMA EnterStep == ASSUME Inv, Enter, Aside PROVE Inv'
<1> DEFINE frame == [of |-> Current.to, header |-> Top.header, next |-> 1, sofar |-> "none"]
<1>1. stack # << >> /\ ~ Over(Top) /\ NeedsCall(Current.to)
  BY DEF Enter
<1>2. /\ frame \in RecordFrame /\ frame.header \in DOMAIN lib.layouts
      /\ frame.of = Current.to /\ frame.sofar = "none"
  <2>1. Top.header \in DOMAIN lib.layouts /\ Top.header \in Nat
    BY <1>1, TopIs DEF Frame, FunctionFrame, RecordFrame
  <2>2. Current.to \in Records
    BY <1>1 DEF NeedsCall
  <2> QED
    BY <2>1, <2>2 DEF RecordFrame, Answers
<1>3. stack' = Append(stack, frame) /\ UNCHANGED <<lib, todo, records_map, verdicts>>
      /\ visited' = VisitedNow \cup {Current.to}
  BY DEF Enter
<1> HIDE DEF frame
<1>4. \A n \in 2 .. Len(stack) : stack[n].of # Current.to /\ stack[n].of \in VisitedNow
  <2>1. 2 .. Len(stack) # {} => VisitedNow = visited
    <3>1. InFunction => 2 .. Len(stack) = {}
      BY DEF InFunction
    <3> QED
      BY <3>1 DEF VisitedNow
  <2> QED
    BY <1>1, <2>1 DEF NeedsCall, Inv, TypeOK
<1>5. Calls(lib, Append(stack, frame))
  BY <1>1, <1>2, <1>4, TopIs, Pushed DEF Inv, Top, Found
<1>6. Calls(lib, stack)'
  BY <1>3, <1>5
<1>7. TypeOK'
  <2>1. \A n \in DOMAIN stack' : stack'[n].sofar \in Answers
    BY <1>6 DEF Calls, Frame, FunctionFrame, RecordFrame
  <2>2. visited' \subseteq Records
    BY <1>1, <1>3 DEF VisitedNow, NeedsCall, Inv, TypeOK
  <2>3. \A n \in 2 .. Len(stack') : stack'[n].of = Current.to \/ (n \in 2 .. Len(stack) /\ stack'[n] = stack[n])
    <3>1. stack \in Seq(Frame) /\ Len(stack) \in Nat /\ frame \in Frame
      BY <1>2 DEF Inv, Calls, Frame
    <3>2. /\ Len(stack') = Len(stack) + 1 /\ stack'[Len(stack) + 1] = frame
          /\ \A n \in 1 .. Len(stack) : stack'[n] = stack[n]
      BY <1>3, <3>1
    <3> QED
      BY <1>2, <3>1, <3>2
  <2>4. Current.to \notin DOMAIN records_map
    BY <1>1 DEF NeedsCall
  <2>5. \A n \in 2 .. Len(stack') : stack'[n].of \in visited' \ DOMAIN records_map'
    BY <1>3, <1>4, <2>3, <2>4 DEF Inv, TypeOK
  <2> QED
    BY <1>3, <2>1, <2>2, <2>5 DEF Inv, TypeOK, Aside
<1> QED
  BY <1>3, <1>6, <1>7 DEF Inv, Shape, Remembered, Told, Aside

LEMMA ReturnStep == ASSUME Inv, Return, Aside PROVE Inv'
<1> DEFINE f == Front(stack)
           below == stack[Len(stack) - 1]
           after == Answered(below, Top.sofar)
<1>0. ~ InFunction
  <2>1. Len(stack) # 1
    BY DEF Return, Inv, Calls
  <2> QED
    BY <2>1 DEF InFunction
<1>1. stack # << >> /\ Len(stack) \in Nat /\ Len(stack) > 1 /\ stack \in Seq(Frame)
  BY DEF Return, Inv, Calls
<1>2. /\ f \in Seq(Frame) /\ Len(f) = Len(stack) - 1 /\ f # << >>
      /\ \A n \in 1 .. Len(f) : f[n] = stack[n]
      /\ f[Len(f)] = below
  BY <1>1, FrontIs
<1>3. Calls(lib, f)
  BY <1>1, Popped DEF Inv
<1>4. Top \in Frame /\ Top.of \in Records /\ Top.sofar \in Answers
      /\ (Found(Top.sofar) => LeadsToFunction(lib, Top.of))
  <2>1. Top \in Frame /\ Top.header \in DOMAIN lib.layouts /\ Top.of # "function"
        /\ (Found(Top.sofar) => Justified(lib, FieldsIn(lib, Top)))
    BY <1>0, <1>1, TopIs
  <2> QED
    BY <2>1, FoundBelow DEF Inv, Shape, Frame, FunctionFrame, RecordFrame
<1>5. /\ below \in Frame /\ below.header \in DOMAIN lib.layouts
      /\ Found(below.sofar) => Justified(lib, FieldsIn(lib, below))
  <2>1. Len(stack) - 1 \in DOMAIN stack
    BY <1>1
  <2> QED
    BY <1>1, <2>1 DEF Inv, Calls
<1>6. below.next \in DOMAIN FieldsIn(lib, below) /\ FieldsIn(lib, below)[below.next].to = Top.of
  <2>1. Len(stack) \in 2 .. Len(stack)
    BY <1>1
  <2> QED
    BY <2>1 DEF Inv, Calls, Top
<1>7. /\ after \in Frame /\ after.of = below.of /\ after.header = below.header
      /\ Found(after.sofar) => Justified(lib, FieldsIn(lib, after))
  BY <1>4, <1>5, <1>6, AnswerTaken DEF Inv, Shape, Bad
<1>8. stack' = Append(Front(f), after) /\ UNCHANGED <<lib, todo, visited, verdicts>>
      /\ records_map' = [r \in DOMAIN records_map \cup {Top.of} |->
                           IF r = Top.of THEN Top.sofar ELSE records_map[r]]
  BY DEF Return, Remembering
<1> HIDE DEF f, below, after
<1>9. Calls(lib, stack)'
  BY <1>2, <1>3, <1>7, <1>8, TopReplaced
<1>10. /\ DOMAIN records_map' = {Top.of} \cup DOMAIN records_map
       /\ \A r \in DOMAIN records_map' : records_map'[r] = IF r = Top.of THEN Top.sofar ELSE records_map[r]
       /\ records_map' \in [DOMAIN records_map' -> Answers]
  <2>1. records_map \in [DOMAIN records_map -> Answers]
    BY DEF Inv, TypeOK
  <2> QED
    BY <1>4, <1>8, <2>1
<1>11. /\ Len(stack') = Len(stack) - 1
       /\ \A n \in 2 .. Len(stack') : n \in 2 .. Len(stack) /\ n # Len(stack) /\ stack'[n].of = stack[n].of
  <2> DEFINE g == Front(f)
  <2>1. /\ g \in Seq(Frame) /\ Len(g) = Len(f) - 1 /\ Len(f) \in Nat \ {0}
        /\ \A n \in 1 .. Len(f) - 1 : g[n] = f[n]
    BY <1>2, FrontIs
  <2>2. stack' = Append(g, after)
    BY <1>8
  <2> HIDE DEF g
  <2>3. /\ Len(stack') = Len(g) + 1 /\ stack'[Len(g) + 1] = after
        /\ \A n \in 1 .. Len(g) : stack'[n] = g[n]
    BY <1>7, <2>1, <2>2
  <2>4. \A n \in 1 .. Len(f) - 1 : stack'[n] = stack[n]
    BY <1>2, <2>1, <2>3, SMTT(30)
  <2>5. stack'[Len(f)].of = stack[Len(f)].of
    BY <1>2, <1>7, <2>1, <2>3
  <2>6. Len(stack') = Len(f)
    BY <2>1, <2>3
  <2>7. ASSUME NEW n \in 2 .. Len(stack') PROVE stack'[n].of = stack[n].of
    <3>1. n = Len(f) \/ n \in 1 .. Len(f) - 1
      BY <2>1, <2>6
    <3> QED
      BY <2>4, <2>5, <3>1
  <2> QED
    BY <1>1, <1>2, <2>6, <2>7
<1>12. TypeOK'
  <2>1. \A n \in DOMAIN stack' : stack'[n].sofar \in Answers
    BY <1>9 DEF Calls, Frame, FunctionFrame, RecordFrame
  <2>2. \A n \in 2 .. Len(stack') : stack[n].of # Top.of
    BY <1>1, <1>11 DEF Inv, Calls, Top
  <2>3. \A n \in 2 .. Len(stack') : stack'[n].of \in visited' \ DOMAIN records_map'
    BY <1>8, <1>10, <1>11, <2>2 DEF Inv, TypeOK
  <2> QED
    BY <1>4, <1>8, <1>10, <2>1, <2>3 DEF Inv, TypeOK, Aside
<1>13. Remembered'
  BY <1>4, <1>8, <1>10 DEF Inv, Remembered
<1> QED
  BY <1>8, <1>9, <1>12, <1>13 DEF Inv, Shape, Told, Aside

LEMMA TakeStep == ASSUME Inv, Take, Aside PROVE Inv'
<1>1. /\ todo # << >> /\ todo' = Tail(todo) /\ todo \in Seq(Decl)
      /\ UNCHANGED <<lib, visited, records_map, verdicts>>
  BY DEF Take, Inv, Shape
<1>2. Head(todo) \in Decl /\ Head(todo).header \in DOMAIN lib.layouts
  BY <1>1 DEF Inv, Shape
<1>3. Shape'
  <2>1. Tail(todo) \in Seq(Decl) /\ \A n \in DOMAIN Tail(todo) : n + 1 \in DOMAIN todo /\ Tail(todo)[n] = todo[n + 1]
    BY <1>1
  <2> QED
    BY <1>1, <2>1 DEF Inv, Shape, Aside
<1> DEFINE frame == [of |-> "function", name |-> Head(todo).name, types |-> Head(todo).types,
                     header |-> Head(todo).header, next |-> 1, sofar |-> "none"]
<1>4. frame \in Frame /\ frame.of = "function" /\ frame.header = Head(todo).header /\ frame.sofar = "none"
  BY <1>2 DEF Frame, FunctionFrame, Decl, Answers
<1>5. stack' = << >> \/ stack' = <<frame>>
  BY DEF Take
<1> HIDE DEF frame
<1>6. Calls(lib, stack')
  <2>1. CASE stack' = << >>
    <3>1. stack' \in Seq(Frame) /\ DOMAIN stack' = {} /\ Len(stack') = 0
      BY <2>1
    <3> QED
      BY <3>1 DEF Calls
  <2>2. CASE stack' = <<frame>>
    <3>1. stack' \in Seq(Frame) /\ DOMAIN stack' = {1} /\ Len(stack') = 1 /\ stack'[1] = frame
      BY <1>4, <2>2
    <3> QED
      BY <1>2, <1>4, <3>1 DEF Calls, Found
  <2> QED
    BY <1>5, <2>1, <2>2
<1>7. TypeOK'
  <2>1. \A n \in DOMAIN stack' : stack'[n].sofar \in Answers
    BY <1>6 DEF Calls, Frame, FunctionFrame, RecordFrame
  <2>2. Len(stack') \in {0, 1}
    BY <1>5
  <2> QED
    BY <1>1, <2>1, <2>2 DEF Inv, TypeOK, Aside
<1> QED
  BY <1>1, <1>3, <1>6, <1>7 DEF Inv, Remembered, Told

LEMMA Emptied == stack' = << >> => Calls(lib', stack') /\ \A n \in DOMAIN stack' : FALSE
<1> SUFFICES ASSUME stack' = << >> PROVE Calls(lib', stack') /\ DOMAIN stack' = {}
  OBVIOUS
<1>1. stack' \in Seq(Frame) /\ DOMAIN stack' = {} /\ Len(stack') = 0
  OBVIOUS
<1> QED
  BY <1>1 DEF Calls

LEMMA FinishStep == ASSUME Inv, Finish, Aside PROVE Inv'
<1> DEFINE verdict == [name |-> Top.name, header |-> Top.header, types |-> Top.types, answer |-> Top.sofar]
<1>1. stack # << >> /\ InFunction /\ stack' = << >> /\ UNCHANGED <<lib, todo, visited, records_map>>
      /\ verdicts' = Append(verdicts, verdict)
  BY DEF Finish
<1>2. Top \in FunctionFrame /\ (Found(Top.sofar) => Justified(lib, Top.types))
  BY <1>1, TopIs DEF Frame, FunctionFrame, RecordFrame, FieldsIn
<1>3. /\ verdict \in [name : STRING, header : Nat, types : Seq(Field), answer : Answers]
      /\ Found(verdict.answer) => Justified(lib, verdict.types)
  BY <1>2 DEF FunctionFrame
<1> HIDE DEF verdict
<1>4. Told' /\ Shape'
  <2> DEFINE V == [name : STRING, header : Nat, types : Seq(Field), answer : Answers]
  <2>1. verdicts \in Seq(V) /\ verdict \in V
    BY <1>3 DEF Inv, Shape
  <2> HIDE DEF V
  <2>2. /\ verdicts' \in Seq(V)
        /\ \A n \in DOMAIN verdicts' : verdicts'[n] = verdict \/ (n \in DOMAIN verdicts /\ verdicts'[n] = verdicts[n])
    BY <1>1, <2>1
  <2>3. Told'
    BY <1>1, <1>3, <2>2 DEF Inv, Told
  <2> QED
    BY <1>1, <2>2, <2>3 DEF Inv, Shape, Aside, V
<1>5. TypeOK'
  <2>1. Len(stack') = 0
    BY <1>1
  <2> QED
    BY <1>1, <2>1, Emptied DEF Inv, TypeOK, Aside
<1> QED
  BY <1>1, <1>4, <1>5, Emptied DEF Inv, Remembered

-----------------------------------------------------------------------------
(* The run over the list of libraries.                                     *)

\* A library is begun with nothing known, be it the next or, at a crash, none.
LEMMA Started ==
  ASSUME NEW l \in Library, Start(l), phase' \in {"idle", "scanning"},
         i' \in 1 .. Len(info_doc) + 1, phase' = "scanning" => i' <= Len(info_doc),
         info_doc' = info_doc, Inv
  PROVE  Inv'
<1>1. lib' = l /\ todo' = l.decls /\ stack' = << >> /\ visited' = {} /\ records_map' = << >> /\ verdicts' = << >>
  BY DEF Start
<1>2. /\ DOMAIN records_map' = {} /\ DOMAIN verdicts' = {} /\ Len(stack') = 0
      /\ records_map' \in [DOMAIN records_map' -> Answers]
      /\ verdicts' \in Seq([name : STRING, header : Nat, types : Seq(Field), answer : Answers])
  BY <1>1
<1>3. Calls(lib', stack') /\ \A n \in DOMAIN stack' : FALSE
  BY <1>1, Emptied
<1>4. TypeOK'
  BY <1>1, <1>2, <1>3 DEF TypeOK
<1>5. Shape'
  BY <1>1, <1>2 DEF Inv, Shape, Library
<1> QED
  BY <1>2, <1>3, <1>4, <1>5 DEF Inv, Remembered, Told

LEMMA ScanStep == ASSUME Inv, Scan PROVE Inv'
<1>1. Aside
  BY DEF Scan, Aside
<1> QED
  BY <1>1, TakeStep, LookStep, EnterStep, ReturnStep, FinishStep DEF Scan, Step

LEMMA ElementOf ==
  ASSUME NEW S, NEW s \in Seq(S), NEW k \in DOMAIN s PROVE s[k] \in S
OBVIOUS

LEMMA NothingIs == Nothing \in Library
BY DEF Nothing, Library

\* Whatever the list, before the first of it is begun.
AtStart == info_doc \in Seq([name : STRING, lib : Library]) /\ Fresh

LEMMA InitAtStart == Init => AtStart
BY InfoDocsAssumption DEF Init, AtStart

LEMMA InvInit == AtStart => Inv
<1> SUFFICES ASSUME AtStart PROVE Inv
  OBVIOUS
<1>1. info_doc \in Seq([name : STRING, lib : Library])
  BY DEF AtStart
<1>2. /\ DOMAIN records_map = {} /\ DOMAIN verdicts = {} /\ Len(stack) = 0 /\ DOMAIN stack = {} /\ stack \in Seq(Frame)
      /\ records_map \in [DOMAIN records_map -> Answers]
      /\ verdicts \in Seq([name : STRING, header : Nat, types : Seq(Field), answer : Answers])
  BY DEF AtStart, Fresh
<1>3. TypeOK
  BY <1>1, <1>2 DEF AtStart, Fresh, TypeOK
<1>4. Shape
  BY <1>1, <1>2, NothingIs DEF AtStart, Fresh, Shape
<1>5. Calls(lib, stack)
  BY <1>2 DEF Calls
<1> QED
  BY <1>2, <1>3, <1>4, <1>5 DEF Inv, Remembered, Told

LEMMA InvStep == Inv /\ [Next]_vars => Inv'
<1> SUFFICES ASSUME Inv, [Next]_vars PROVE Inv'
  OBVIOUS
<1>0. info_doc \in Seq([name : STRING, lib : Library]) /\ Len(info_doc) \in Nat /\ i \in 1 .. Len(info_doc) + 1
  BY DEF Inv, Shape, TypeOK
<1>1. CASE Begin
  <2>1. i \in DOMAIN info_doc
    BY <1>0, <1>1 DEF Begin
  <2>2. info_doc[i].lib \in Library
    <3>1. info_doc[i] \in [name : STRING, lib : Library]
      BY <1>0, <2>1, ElementOf
    <3> QED
      BY <3>1
  <2> QED
    BY <1>0, <1>1, <2>2, Started DEF Begin
<1>2. CASE Scan
  BY <1>2, ScanStep
<1>3. CASE Crash
  BY <1>0, <1>3, NothingIs, Started DEF Crash
<1>4. CASE Pass \/ Open \/ Write \/ Exit \/ Table \/ Done \/ UNCHANGED vars
  <2>1. UNCHANGED <<scanVars, info_doc>>
    BY <1>4 DEF Pass, Open, Write, Exit, Table, Done, vars
  <2>2. i' \in 1 .. Len(info_doc) + 1
    <3>1. CASE Pass \/ Write
      <4>1. i <= Len(info_doc) /\ i' = i + 1
        BY <3>1 DEF Pass, Write, Inv, Shape
      <4> QED
        BY <1>0, <4>1
    <3>2. CASE Open \/ Exit \/ Table \/ Done \/ UNCHANGED vars
      BY <1>0, <3>2 DEF Open, Exit, Table, Done, vars
    <3> QED
      BY <1>4, <3>1, <3>2
  <2>3. phase' \in {"idle", "scanning", "writing", "over", "tabled", "failed"}
    BY <1>4 DEF Pass, Open, Write, Exit, Table, Done, vars, Inv, TypeOK
  <2>4. phase' \in {"scanning", "writing"} => i' <= Len(info_doc)
    BY <1>4 DEF Pass, Open, Write, Exit, Table, Done, vars, Inv, Shape
  <2>5. TypeOK' /\ Shape'
    BY <2>1, <2>2, <2>3, <2>4 DEF Inv, TypeOK, Shape, scanVars
  <2> QED
    BY <2>1, <2>5 DEF Inv, Remembered, Told, scanVars
<1> QED
  BY <1>1, <1>2, <1>3, <1>4 DEF Next, Work

LEMMA Always == Spec => []Inv
BY InitAtStart, InvInit, InvStep, PTL DEF Spec

\* Types and the stack's discipline: no record is searched that is known.
THEOREM TypeCorrect == Spec => []TypeOK
<1>1. Inv => TypeOK
  BY DEF Inv
<1> QED
  BY <1>1, Always, PTL

LEMMA AlarmsTrue == Inv => NoFalseAlarm
<1> SUFFICES ASSUME Inv PROVE NoFalseAlarm
  OBVIOUS
<1>1. ASSUME NEW n \in DOMAIN stack, Found(stack[n].sofar) PROVE Justified(lib, FieldsOf(stack[n]))
  <2>1. FieldsOf(stack[n]) = FieldsIn(lib, stack[n])
    BY DEF FieldsOf, FieldsIn
  <2> QED
    BY <1>1, <2>1 DEF Inv, Calls
<1> QED
  BY <1>1 DEF Inv, Remembered, Told, NoFalseAlarm

\* What ncistat.py reports to have function pointers has some.
THEOREM NoAlarmIsFalse == Spec => []NoFalseAlarm
BY AlarmsTrue, Always, PTL

LEMMA AnswersStay ==
  ASSUME Inv, [Next]_vars, phase = "scanning", phase' = "scanning"
  PROVE  \A r \in DOMAIN records_map : r \in DOMAIN records_map' /\ records_map'[r] = records_map[r]
<1>1. Scan \/ Table \/ Done \/ UNCHANGED vars
  BY DEF Next, Work, Pass, Begin, Open, Write, Exit, Crash
<1>2. CASE Scan
  <2>1. CASE Return
    <3>1. stack # << >> /\ Len(stack) \in 2 .. Len(stack)
      BY <2>1 DEF Return, Inv, Calls
    <3>2. Top.of \notin DOMAIN records_map
      BY <3>1 DEF Inv, TypeOK, Top
    <3> QED
      BY <2>1, <3>2 DEF Return, Remembering
  <2>2. CASE Take \/ Look \/ Enter \/ Finish
    BY <2>2 DEF Take, Look, Enter, Finish
  <2> QED
    BY <1>2, <2>1, <2>2 DEF Scan, Step
<1>3. CASE Table \/ Done \/ UNCHANGED vars
  BY <1>3 DEF Table, Done, vars, scanVars
<1> QED
  BY <1>1, <1>2, <1>3

\* A record's answer stays, once it is remembered, as long as its library is
\* scanned.
THEOREM AnswersRemain == Spec => AnswersStand
BY AnswersStay, Always, PTL DEF Spec, AnswersStand

-----------------------------------------------------------------------------
(* The files of the runs.                                                  *)

\* The name whose verdict is due.
UnderWay == IF stack = << >> THEN {} ELSE {stack[1].name}
OneEach(s) == \A m, n \in DOMAIN s : s[m].name = s[n].name => m = n

\* No function of the library is lost, and none judged twice.
VerdictsInv ==
  /\ Names(lib.decls) = Names(verdicts) \cup Names(todo) \cup UnderWay
  /\ UnderWay \cap Names(verdicts) = {}
  /\ OneEach(verdicts)

IsFirst(m) == \A k \in 1 .. m - 1 : info_doc[k].name # info_doc[m].name
Complete(file, l) ==
  /\ Names(file.verdicts) = Names(l.decls) /\ Len(file.verdicts) = Cardinality(Names(file.verdicts))
  /\ file.va = [name \in Names(l.decls) |-> IsVa(FirstOf(l.decls, name))]

\* Libraries behind i have their files; a whole file is complete and the first
\* library's of its name; and a file is cut off only while it is written, or
\* by a crash.
FiledInv ==
  /\ crashes \in Nat
  /\ phase \notin {"idle", "scanning", "writing"} => i > Len(info_doc)
  /\ \A n \in 1 .. i - 1 : info_doc[n].name \in DOMAIN files
  /\ phase \in {"scanning", "writing"} => lib = info_doc[i].lib /\ IsFirst(i)
  /\ phase = "scanning" => info_doc[i].name \notin DOMAIN files
  /\ phase = "writing" => info_doc[i].name \in DOMAIN files /\ Scanned
  /\ \A name \in DOMAIN files : files[name].whole =>
       \E m \in DOMAIN info_doc : /\ info_doc[m].name = name /\ IsFirst(m)
                                  /\ Complete(files[name], info_doc[m].lib)
  /\ crashes = 0 => \A name \in DOMAIN files :
                      files[name].whole \/ (phase = "writing" /\ name = info_doc[i].name)

LEMMA NamesOfTail ==
  ASSUME NEW S, NEW s \in Seq(S), s # << >>
  PROVE  Names(s) = {Head(s).name} \cup Names(Tail(s))
<1>1. /\ DOMAIN s = 1 .. Len(s) /\ Len(s) \in Nat \ {0} /\ Head(s) = s[1]
      /\ DOMAIN Tail(s) = 1 .. Len(s) - 1 /\ \A n \in 1 .. Len(s) - 1 : Tail(s)[n] = s[n + 1]
  OBVIOUS
<1>2. \A n \in 1 .. Len(s) : n = 1 \/ (n - 1 \in 1 .. Len(s) - 1 /\ (n - 1) + 1 = n)
  BY <1>1
<1>3. \A n \in 1 .. Len(s) - 1 : n + 1 \in 1 .. Len(s)
  BY <1>1
<1>4. 1 \in 1 .. Len(s)
  BY <1>1
<1>5. Names(s) \subseteq {Head(s).name} \cup Names(Tail(s))
  <2> SUFFICES ASSUME NEW n \in 1 .. Len(s), n # 1 PROVE s[n].name \in Names(Tail(s))
    BY <1>1 DEF Names
  <2>1. n - 1 \in DOMAIN Tail(s) /\ Tail(s)[n - 1] = s[n]
    BY <1>1, <1>2
  <2> QED
    BY <2>1 DEF Names
<1>6. {Head(s).name} \cup Names(Tail(s)) \subseteq Names(s)
  BY <1>1, <1>3, <1>4 DEF Names
<1> QED
  BY <1>5, <1>6

LEMMA NamesOfAppend ==
  ASSUME NEW S, NEW s \in Seq(S), NEW e \in S
  PROVE  /\ Names(Append(s, e)) = Names(s) \cup {e.name}
         /\ e.name \notin Names(s) /\ OneEach(s) => OneEach(Append(s, e))
<1> DEFINE t == Append(s, e)
<1>1. /\ DOMAIN s = 1 .. Len(s) /\ Len(s) \in Nat /\ DOMAIN t = 1 .. Len(s) + 1
      /\ t[Len(s) + 1] = e /\ \A n \in 1 .. Len(s) : t[n] = s[n]
  OBVIOUS
<1>2. 1 .. Len(s) + 1 = (1 .. Len(s)) \cup {Len(s) + 1}
  BY <1>1
<1> HIDE DEF t
<1>3. Names(t) = Names(s) \cup {e.name}
  BY <1>1, <1>2 DEF Names
<1>4. ASSUME e.name \notin Names(s), OneEach(s) PROVE OneEach(t)
  BY <1>1, <1>2, <1>4 DEF Names, OneEach
<1> QED
  BY <1>3, <1>4 DEF t

\* The frames that a step leaves and the one it changes.
LEMMA StackAfter ==
  ASSUME Inv
  PROVE  /\ Look => /\ stack' # << >> /\ Len(stack') = Len(stack)
                    /\ stack'[Len(stack)] = Answered(Top, Ready(Current.to))
                    /\ \A n \in 1 .. Len(stack) - 1 : stack'[n] = stack[n]
         /\ Return => /\ stack' # << >> /\ Len(stack') = Len(stack) - 1
                      /\ stack'[Len(stack) - 1] = Answered(stack[Len(stack) - 1], Top.sofar)
                      /\ \A n \in 1 .. Len(stack) - 2 : stack'[n] = stack[n]
<1> DEFINE f == Front(stack)
<1>0. ASSUME stack # << >>
      PROVE  /\ stack \in Seq(Frame) /\ Len(stack) \in Nat \ {0} /\ f \in Seq(Frame) /\ Len(f) = Len(stack) - 1
             /\ \A n \in 1 .. Len(stack) - 1 : f[n] = stack[n]
  BY <1>0, FrontIs DEF Inv, Calls
<1>1. ASSUME Look
      PROVE  /\ stack' # << >> /\ Len(stack') = Len(stack)
             /\ stack'[Len(stack)] = Answered(Top, Ready(Current.to))
             /\ \A n \in 1 .. Len(stack) - 1 : stack'[n] = stack[n]
  <2> DEFINE e == Answered(Top, Ready(Current.to))
  <2>1. stack # << >> /\ stack' = Append(f, e)
    BY <1>1 DEF Look
  <2> HIDE DEF f, e
  <2>2. Len(stack') = Len(stack) /\ stack'[Len(stack)] = e /\ \A n \in 1 .. Len(stack) - 1 : stack'[n] = stack[n]
    BY <1>0, <2>1
  <2> QED
    BY <1>0, <2>1, <2>2 DEF e
<1>2. ASSUME Return
      PROVE  /\ stack' # << >> /\ Len(stack') = Len(stack) - 1
             /\ stack'[Len(stack) - 1] = Answered(stack[Len(stack) - 1], Top.sofar)
             /\ \A n \in 1 .. Len(stack) - 2 : stack'[n] = stack[n]
  <2> DEFINE g == Front(f)
             e == Answered(stack[Len(stack) - 1], Top.sofar)
  <2>1. stack # << >> /\ Len(stack) > 1 /\ stack' = Append(g, e)
    BY <1>2 DEF Return, Inv, Calls
  <2> HIDE DEF f, e
  <2>2. g \in Seq(Frame) /\ Len(g) = Len(f) - 1 /\ \A n \in 1 .. Len(f) - 1 : g[n] = f[n]
    <3>1. f # << >>
      BY <1>0, <2>1
    <3> QED
      BY <1>0, <2>1, <3>1, FrontIs
  <2> HIDE DEF g
  <2>3. Len(g) = Len(stack) - 2 /\ \A n \in 1 .. Len(stack) - 2 : g[n] = stack[n]
    BY <1>0, <2>1, <2>2
  <2>4. /\ Len(stack') = Len(stack) - 1 /\ stack'[Len(stack) - 1] = e
        /\ \A n \in 1 .. Len(stack) - 2 : stack'[n] = stack[n]
    BY <1>0, <2>1, <2>2, <2>3
  <2> QED
    BY <1>0, <2>1, <2>4 DEF e
<1> QED
  BY <1>1, <1>2

LEMMA AnsweredIs ==
  ASSUME NEW frame \in Frame, NEW answer \in Answers
  PROVE  /\ Answered(frame, answer).of = frame.of /\ Answered(frame, answer).header = frame.header
         /\ Answered(frame, answer).next = frame.next + 1
         /\ frame \in FunctionFrame => /\ Answered(frame, answer).name = frame.name
                                       /\ Answered(frame, answer).types = frame.types
         /\ Answered(frame, answer).sofar = Combine(frame, answer)
         /\ Found(answer) => Found(Combine(frame, answer))
         /\ ~ Found(answer) => Combine(frame, answer) = frame.sofar
BY DEF Answered, Frame, FunctionFrame, RecordFrame, Combine, Found, Answers

\* A search that goes on is that of the same function.
LEMMA BottomStays ==
  ASSUME Inv, Look \/ Enter \/ Return
  PROVE  stack # << >> /\ stack' # << >> /\ stack'[1].name = stack[1].name /\ stack'[1].types = stack[1].types
<1>1. stack # << >> /\ stack \in Seq(Frame) /\ Len(stack) \in Nat \ {0} /\ DOMAIN stack = 1 .. Len(stack)
  BY DEF Look, Enter, Return, Inv, Calls
<1>2. stack[1] \in FunctionFrame /\ \A n \in 1 .. Len(stack) : stack[n].sofar \in Answers
  BY <1>1 DEF Inv, Calls, TypeOK, Frame, FunctionFrame, RecordFrame
<1>3. CASE Look
  <2>1. Ready(Current.to) \in Answers /\ Top = stack[Len(stack)]
    <3>1. ~ Over(Top) /\ ~ NeedsCall(Current.to)
      BY <1>3 DEF Look
    <3> QED
      BY <1>1, <3>1, TopIs, ReadyIs DEF Top
  <2>2. CASE Len(stack) = 1
    BY <1>1, <1>2, <1>3, <2>1, <2>2, StackAfter, AnsweredIs DEF Frame
  <2>3. CASE Len(stack) # 1
    <3>1. 1 \in 1 .. Len(stack) - 1
      BY <1>1, <2>3
    <3> QED
      BY <1>1, <1>3, <3>1, StackAfter
  <2> QED
    BY <2>2, <2>3
<1>4. CASE Enter
  BY <1>1, <1>4 DEF Enter
<1>5. CASE Return
  <2>1. Len(stack) > 1 /\ Top.sofar \in Answers
    BY <1>1, <1>2, <1>5 DEF Return, Top
  <2>2. CASE Len(stack) = 2
    <3>1. stack' # << >> /\ stack'[1] = Answered(stack[1], Top.sofar)
      BY <1>5, <2>2, StackAfter
    <3> QED
      BY <1>1, <1>2, <2>1, <3>1, AnsweredIs DEF Frame
  <2>3. CASE Len(stack) # 2
    <3>1. 1 \in 1 .. Len(stack) - 2
      BY <1>1, <2>1, <2>3
    <3> QED
      BY <1>1, <1>5, <3>1, StackAfter
  <2> QED
    BY <2>2, <2>3
<1> QED
  BY <1>3, <1>4, <1>5

LEMMA VerdictsStep == ASSUME Inv, VerdictsInv, Step PROVE VerdictsInv'
<1> DEFINE V == [name : STRING, header : Nat, types : Seq(Field), answer : Answers]
<1>1. CASE Take
  <2>1. /\ todo \in Seq(Decl) /\ todo # << >> /\ todo' = Tail(todo) /\ stack = << >>
        /\ UNCHANGED <<lib, verdicts>>
    BY <1>1 DEF Take, Inv, Shape
  <2>2. Names(todo) = {Head(todo).name} \cup Names(todo')
    <3> HIDE DEF V
    <3> QED
      BY <2>1, NamesOfTail
  <2>3. Known(Head(todo).name) <=> Head(todo).name \in Names(verdicts)
    BY DEF Known, Names
  <2>4. UnderWay = {} /\ UnderWay' = IF Known(Head(todo).name) THEN {} ELSE {Head(todo).name}
    BY <1>1, <2>1 DEF Take, UnderWay
  <2>5. Names(lib'.decls) = Names(lib.decls) /\ Names(verdicts') = Names(verdicts) /\ OneEach(verdicts')
    BY <2>1 DEF VerdictsInv
  <2>6. Names(lib.decls) = Names(verdicts) \cup Names(todo') \cup UnderWay' /\ UnderWay' \cap Names(verdicts) = {}
    BY <2>2, <2>3, <2>4 DEF VerdictsInv
  <2> QED
    BY <2>5, <2>6 DEF VerdictsInv
<1>2. CASE Look \/ Enter \/ Return
  <2>1. UNCHANGED <<lib, todo, verdicts>>
    BY <1>2 DEF Look, Enter, Return
  <2>2. UnderWay' = UnderWay
    BY <1>2, BottomStays DEF UnderWay
  <2> QED
    BY <2>1, <2>2 DEF VerdictsInv, OneEach, Names
<1>3. CASE Finish
  <2> DEFINE v == [name |-> Top.name, header |-> Top.header, types |-> Top.types, answer |-> Top.sofar]
  <2>1. /\ stack # << >> /\ Len(stack) = 1 /\ stack' = << >> /\ verdicts' = Append(verdicts, v)
        /\ UNCHANGED <<lib, todo>> /\ verdicts \in Seq(V)
    BY <1>3 DEF Finish, InFunction, Inv, Shape
  <2>2. Top \in FunctionFrame /\ Top = stack[1]
    BY <1>3, <2>1, TopIs DEF InFunction, Top, Frame, FunctionFrame, RecordFrame
  <2>3. v \in V /\ v.name = stack[1].name
    BY <2>2 DEF FunctionFrame
  <2> HIDE DEF v, V
  <2>4. UnderWay = {v.name} /\ UnderWay' = {}
    BY <2>1, <2>3 DEF UnderWay
  <2>5. Names(verdicts') = Names(verdicts) \cup {v.name} /\ OneEach(verdicts')
    BY <2>1, <2>3, <2>4, NamesOfAppend DEF VerdictsInv
  <2>6. Names(lib'.decls) = Names(lib.decls) /\ Names(todo') = Names(todo)
    BY <2>1
  <2> QED
    BY <2>4, <2>5, <2>6 DEF VerdictsInv
<1> QED
  BY <1>1, <1>2, <1>3 DEF Step

LEMMA VerdictsStarted == ASSUME NEW l, Start(l) PROVE VerdictsInv'
<1>1. lib' = l /\ todo' = l.decls /\ stack' = << >> /\ verdicts' = << >>
  BY DEF Start
<1>2. Names(verdicts') = {} /\ OneEach(verdicts') /\ UnderWay' = {}
  BY <1>1 DEF Names, OneEach, UnderWay
<1> QED
  BY <1>1, <1>2 DEF VerdictsInv

LEMMA NameCount ==
  ASSUME NEW S, NEW s \in Seq(S), OneEach(s)
  PROVE  Len(s) = Cardinality(Names(s))
<1> DEFINE f == [k \in 1 .. Len(s) |-> s[k].name]
<1>1. DOMAIN s = 1 .. Len(s) /\ Len(s) \in Nat
  OBVIOUS
<1>2. f \in [1 .. Len(s) -> Names(s)] /\ \A y \in Names(s) : \E x \in 1 .. Len(s) : f[x] = y
  BY <1>1 DEF Names
<1>3. \A x, y \in 1 .. Len(s) : f[x] = f[y] => x = y
  BY <1>1 DEF OneEach
<1> HIDE DEF f
<1>4. f \in Bijection(1 .. Len(s), Names(s))
  BY <1>2, <1>3 DEF Bijection, Injection, Surjection, IsInjective
<1>5. ExistsBijection(1 .. Len(s), Names(s))
  BY <1>4 DEF ExistsBijection
<1> QED
  BY <1>1, <1>5, FS_CountingElements

\* With what a run leaves alone a library stays complete.
LEMMA FiledUntouched ==
  ASSUME FiledInv, UNCHANGED <<info_doc, files>>
  PROVE  /\ \A m : IsFirst(m)' <=> IsFirst(m)
         /\ \A name \in DOMAIN files' : files'[name].whole =>
              \E m \in DOMAIN info_doc' : /\ info_doc'[m].name = name /\ IsFirst(m)'
                                          /\ Complete(files'[name], info_doc'[m].lib)
<1>1. \A m : IsFirst(m)' <=> IsFirst(m)
  BY DEF IsFirst
<1>2. \A name \in DOMAIN files : files[name].whole =>
        \E m \in DOMAIN info_doc : info_doc[m].name = name /\ IsFirst(m) /\ Complete(files[name], info_doc[m].lib)
  BY DEF FiledInv
<1> QED
  BY <1>1, <1>2

LEMMA FiledStep == ASSUME Inv, VerdictsInv, FiledInv, Next PROVE FiledInv'
<1>0. /\ info_doc \in Seq([name : STRING, lib : Library]) /\ Len(info_doc) \in Nat /\ DOMAIN info_doc = 1 .. Len(info_doc)
      /\ i \in 1 .. Len(info_doc) + 1 /\ (phase \in {"scanning", "writing"} => i \in DOMAIN info_doc)
      /\ info_doc' = info_doc
  BY DEF Inv, Shape, TypeOK, Next, Work, Pass, Begin, Scan, Open, Write, Exit, Table, Crash, Done, vars
<1>1. CASE Pass
  <2>1. /\ phase = "idle" /\ phase' = "idle" /\ i \in DOMAIN info_doc /\ info_doc[i].name \in DOMAIN files
        /\ i' = i + 1 /\ UNCHANGED <<files, crashes>>
    BY <1>0, <1>1 DEF Pass
  <2>2. 1 .. i' - 1 = (1 .. i - 1) \cup {i}
    BY <1>0, <2>1
  <2>3. \A n \in 1 .. i' - 1 : info_doc[n].name \in DOMAIN files
    BY <2>1, <2>2 DEF FiledInv
  <2> QED
    BY <1>0, <2>1, <2>3, FiledUntouched DEF FiledInv
<1>2. CASE Begin
  <2>1. /\ phase = "idle" /\ phase' = "scanning" /\ i \in DOMAIN info_doc /\ info_doc[i].name \notin DOMAIN files
        /\ lib' = info_doc[i].lib /\ UNCHANGED <<i, files, crashes>>
    BY <1>0, <1>2 DEF Begin, Start
  <2>2. IsFirst(i)
    BY <2>1 DEF FiledInv, IsFirst
  <2> QED
    BY <1>0, <2>1, <2>2, FiledUntouched DEF FiledInv
<1>3. CASE Scan
  <2>1. phase = "scanning" /\ phase' = "scanning" /\ UNCHANGED <<i, files, crashes>> /\ lib' = lib
    BY <1>3 DEF Scan, Step, Take, Look, Enter, Return, Finish
  <2> QED
    BY <1>0, <2>1, FiledUntouched DEF FiledInv
<1>4. CASE Open
  <2> DEFINE name == info_doc[i].name
  <2>1. /\ phase = "scanning" /\ Scanned /\ phase' = "writing" 
        /\ files' = [n \in DOMAIN files \cup {name} |-> IF n \in DOMAIN files THEN files[n] ELSE Partial]
        /\ UNCHANGED <<scanVars, i, crashes>>
    BY <1>4 DEF Open
  <2>2. name \notin DOMAIN files
    BY <2>1 DEF FiledInv
  <2>3. /\ DOMAIN files' = DOMAIN files \cup {name} /\ files'[name] = Partial
        /\ \A n \in DOMAIN files : files'[n] = files[n]
    BY <2>1, <2>2
  <2> HIDE DEF name
  <2>4. \A m : IsFirst(m)' <=> IsFirst(m)
    BY <1>0 DEF IsFirst
  <2>5. \A n \in DOMAIN files' : files'[n].whole => n \in DOMAIN files /\ files'[n] = files[n] 
    BY <2>3 DEF Partial
  <2>6. \A n \in DOMAIN files' : files'[n].whole =>
          \E m \in DOMAIN info_doc' : info_doc'[m].name = n /\ IsFirst(m)' /\ Complete(files'[n], info_doc'[m].lib)
    BY <1>0, <2>4, <2>5 DEF FiledInv
  <2>7. crashes' = 0 => \A n \in DOMAIN files' : files'[n].whole \/ n = name
    BY <2>1, <2>3 DEF FiledInv
  <2>8. lib' = lib /\ Scanned'
    BY <2>1 DEF scanVars, Scanned
  <2> QED
    BY <1>0, <2>1, <2>3, <2>4, <2>6, <2>7, <2>8 DEF FiledInv, name
<1>5. CASE Write
  <2> DEFINE name == info_doc[i].name
             file == [whole |-> TRUE, verdicts |-> verdicts,
                      va |-> [f \in Names(verdicts) |-> IsVa(FirstOf(lib.decls, f))]]
  <2>1. /\ phase = "writing" /\ phase' = "idle" /\ i' = i + 1 /\ files' = [files EXCEPT ![name] = file]
        /\ UNCHANGED <<scanVars, crashes>>
    BY <1>5 DEF Write
  <2>2. name \in DOMAIN files /\ Scanned /\ IsFirst(i) /\ lib = info_doc[i].lib /\ i \in DOMAIN info_doc
    BY <1>0, <2>1 DEF FiledInv
  <2>3. /\ file.whole /\ file.verdicts = verdicts
        /\ file.va = [f \in Names(verdicts) |-> IsVa(FirstOf(lib.decls, f))]
    OBVIOUS
  <2>4. Complete(file, info_doc[i].lib)
    <3>1. Names(todo) = {} /\ UnderWay = {}
      BY <2>2 DEF Scanned, Names, UnderWay
    <3>2. Len(verdicts) = Cardinality(Names(verdicts))
      BY NameCount DEF Inv, Shape, VerdictsInv
    <3> QED
      BY <2>2, <2>3, <3>1, <3>2 DEF Complete, VerdictsInv
  <2> HIDE DEF file
  <2>5. DOMAIN files' = DOMAIN files /\ files'[name] = file /\ \A n \in DOMAIN files \ {name} : files'[n] = files[n]
    BY <2>1, <2>2
  <2>6. \A m : IsFirst(m)' <=> IsFirst(m)
    BY <1>0 DEF IsFirst
  <2>7. \A n \in DOMAIN files' : files'[n].whole =>
          \E m \in DOMAIN info_doc' : info_doc'[m].name = n /\ IsFirst(m)' /\ Complete(files'[n], info_doc'[m].lib)
    <3> SUFFICES ASSUME NEW n \in DOMAIN files, files'[n].whole
                 PROVE  \E m \in DOMAIN info_doc : info_doc[m].name = n /\ IsFirst(m) /\ Complete(files'[n], info_doc[m].lib)
      BY <1>0, <2>5, <2>6
    <3>1. CASE n = name
      BY <2>2, <2>4, <2>5, <3>1
    <3>2. CASE n # name
      BY <2>5, <3>2 DEF FiledInv
    <3> QED
      BY <3>1, <3>2
  <2>8. 1 .. i' - 1 = (1 .. i - 1) \cup {i}
    BY <1>0, <2>1
  <2>9. \A n \in 1 .. i' - 1 : info_doc[n].name \in DOMAIN files'
    BY <2>2, <2>5, <2>8 DEF FiledInv
  <2>10. crashes' = 0 => \A n \in DOMAIN files' : files'[n].whole
    BY <2>1, <2>3, <2>5 DEF FiledInv
  <2> QED
    BY <1>0, <2>1, <2>7, <2>9, <2>10 DEF FiledInv
<1>6. CASE Crash
  <2>1. /\ phase' = "idle" /\ i' = 1 /\ crashes' = crashes + 1 /\ UNCHANGED files
    BY <1>6 DEF Crash
  <2>2. crashes' \in Nat /\ crashes' # 0
    BY <2>1 DEF FiledInv
  <2>3. 1 .. i' - 1 = {}
    BY <2>1
  <2> QED
    BY <1>0, <2>1, <2>2, <2>3, FiledUntouched DEF FiledInv
<1>7. CASE Exit \/ Table \/ Done
  <2>1. /\ UNCHANGED <<i, files, crashes>> /\ i > Len(info_doc)
        /\ phase \in {"idle", "over", "tabled", "failed"} /\ phase' \in {"over", "tabled", "failed"}
    BY <1>7 DEF Exit, Table, Done, vars, FiledInv
  <2> QED
    BY <1>0, <2>1, FiledUntouched DEF FiledInv
<1> QED
  BY <1>1, <1>2, <1>3, <1>4, <1>5, <1>6, <1>7 DEF Next, Work

LEMMA FiledInit == AtStart => VerdictsInv /\ FiledInv
<1> SUFFICES ASSUME AtStart PROVE VerdictsInv /\ FiledInv
  OBVIOUS
<1>1. VerdictsInv
  <2>1. lib.decls = << >> /\ verdicts = << >> /\ todo = << >> /\ stack = << >>
    BY DEF AtStart, Fresh, Nothing
  <2> QED
    BY <2>1 DEF VerdictsInv, Names, UnderWay, OneEach
<1>2. DOMAIN files = {} /\ 1 .. i - 1 = {} /\ phase = "idle" /\ crashes = 0
  BY DEF AtStart, Fresh
<1>3. FiledInv
  BY <1>2 DEF FiledInv
<1> QED
  BY <1>1, <1>3

LEMMA FiledNext == Inv /\ VerdictsInv /\ FiledInv /\ [Next]_vars => (VerdictsInv /\ FiledInv)'
<1> SUFFICES ASSUME Inv, VerdictsInv, FiledInv, [Next]_vars PROVE (VerdictsInv /\ FiledInv)'
  OBVIOUS
<1>1. CASE Next
  <2>1. VerdictsInv'
    <3>1. CASE Begin \/ Crash
      BY <3>1, VerdictsStarted DEF Begin, Crash
    <3>2. CASE Scan
      BY <3>2, VerdictsStep DEF Scan
    <3>3. CASE Pass \/ Open \/ Write \/ Exit \/ Table \/ Done
      <4>1. UNCHANGED scanVars
        BY <3>3 DEF Pass, Open, Write, Exit, Table, Done, vars
      <4> QED
        BY <4>1 DEF scanVars, VerdictsInv, UnderWay, OneEach, Names
    <3> QED
      BY <1>1, <3>1, <3>2, <3>3 DEF Next, Work
  <2> QED
    BY <1>1, <2>1, FiledStep
<1>2. CASE UNCHANGED vars
  <2>1. VerdictsInv'
    <3>1. UNCHANGED scanVars
      BY <1>2 DEF vars
    <3> QED
      BY <3>1, SMTT(30) DEF scanVars, VerdictsInv, UnderWay, OneEach, Names
  <2>2. FiledInv'
    BY <1>2, FiledUntouched DEF vars, scanVars, FiledInv, Scanned
  <2> QED
    BY <2>1, <2>2
<1> QED
  BY <1>1, <1>2

LEMMA FiledAlways == Spec => [](VerdictsInv /\ FiledInv)
BY InitAtStart, FiledInit, FiledNext, Always, PTL DEF Spec

LEMMA FilesAsClaimed == Inv /\ VerdictsInv /\ FiledInv => ResultsFiled
<1> SUFFICES ASSUME Inv, VerdictsInv, FiledInv PROVE ResultsFiled
  OBVIOUS
<1> SUFFICES ASSUME phase = "over", NEW n \in DOMAIN info_doc
             PROVE  LET file  == files[info_doc[n].name]
                        first == CHOOSE m \in DOMAIN info_doc :
                                   /\ info_doc[m].name = info_doc[n].name
                                   /\ \A k \in 1 .. m - 1 : info_doc[k].name # info_doc[m].name
                    IN  /\ info_doc[n].name \in DOMAIN files
                        /\ crashes = 0 => file.whole
                        /\ file.whole => /\ Names(file.verdicts) = Names(info_doc[first].lib.decls)
                                         /\ Len(file.verdicts) = Cardinality(Names(file.verdicts))
  BY DEF ResultsFiled
<1> DEFINE name == info_doc[n].name
           file == files[name]
           First(m) == info_doc[m].name = name /\ \A k \in 1 .. m - 1 : info_doc[k].name # info_doc[m].name
           first == CHOOSE m \in DOMAIN info_doc : First(m)
<1>1. DOMAIN info_doc = 1 .. Len(info_doc) /\ Len(info_doc) \in Nat /\ i > Len(info_doc) /\ i \in Nat
  BY DEF Inv, Shape, FiledInv, TypeOK
<1>2. name \in DOMAIN files
  <2>1. n \in 1 .. i - 1
    BY <1>1
  <2> QED
    BY <2>1 DEF FiledInv
<1>3. crashes = 0 => file.whole
  BY <1>2 DEF FiledInv
<1>4. ASSUME file.whole
      PROVE  Names(file.verdicts) = Names(info_doc[first].lib.decls) /\ Len(file.verdicts) = Cardinality(Names(file.verdicts))
  <2>1. PICK m \in DOMAIN info_doc : First(m) /\ Complete(file, info_doc[m].lib)
    BY <1>2, <1>4 DEF FiledInv, IsFirst
  <2>2. \A x, y \in DOMAIN info_doc : First(x) /\ First(y) => x = y
    <3> SUFFICES ASSUME NEW x \in DOMAIN info_doc, NEW y \in DOMAIN info_doc, First(x), First(y), x < y
                 PROVE  FALSE
      BY <1>1
    <3>1. x \in 1 .. y - 1
      BY <1>1
    <3> QED
      BY <3>1
  <2> HIDE DEF First
  <2>3. first = m
    BY <2>1, <2>2
  <2> QED
    BY <2>1, <2>3 DEF Complete
<1> QED
  BY <1>2, <1>3, <1>4

\* However often ncistat.py is broken off and run again, at the end each
\* library has a file, whole if nothing was broken off, and a whole file has one
\* verdict on each function of the first library of its name.
THEOREM ResultsAreFiled == Spec => []ResultsFiled
BY FilesAsClaimed, Always, FiledAlways, PTL

-----------------------------------------------------------------------------
(* The first search of a library.                                          *)

AtMostOneRecord(types) ==
  \A m, n \in DOMAIN types : types[m].to \in Records /\ types[n].to \in Records => m = n

\* No pointer to a function among the fields of r that come before upto, and
\* the records there have been entered.
Searched(l, seen, r, upto) ==
  \A k \in DOMAIN l.layouts[1][r] : k < upto =>
    LET f == l.layouts[1][r][k] IN f.to # "function" /\ (f.to \in Records => f.to \in seen)
SearchedAll(l, seen, r) == Searched(l, seen, r, Len(l.layouts[1][r]) + 1)

NothingFound == \A n \in 2 .. Len(stack) : ~ Found(stack[n].sofar)

\* As long as the records of a search have shown nothing, those that were
\* entered are searched, as far as their frames have come or, without a frame,
\* to the end: none was passed over that records_map does not know either.
FirstSearch ==
  /\ \A k \in DOMAIN stack[1].types :
       k < stack[1].next /\ Bad(lib, stack[1].types[k]) => Found(stack[1].sofar)
  /\ Len(stack) = 1 /\ (\A k \in DOMAIN stack[1].types : k < stack[1].next => stack[1].types[k].to \notin Records)
       => DOMAIN records_map = {}
  /\ Len(stack) > 1 => DOMAIN records_map \subseteq visited
  /\ Len(stack) > 1 /\ NothingFound =>
       \A r \in visited : \/ SearchedAll(lib, visited, r)
                          \/ \E n \in 2 .. Len(stack) : stack[n].of = r /\ Searched(lib, visited, r, stack[n].next)

FirstInv ==
  Len(lib.layouts) = 1 =>
    /\ verdicts # << >> /\ AtMostOneRecord(verdicts[1].types) /\ Justified(lib, verdicts[1].types)
         => Found(verdicts[1].answer)
    /\ verdicts = << >> /\ stack = << >> => DOMAIN records_map = {}
    /\ verdicts = << >> /\ stack # << >> /\ AtMostOneRecord(stack[1].types) => FirstSearch

LEMMA FramesAre ==
  ASSUME Inv, Len(lib.layouts) = 1, stack # << >>
  PROVE  /\ Len(stack) \in Nat \ {0} /\ Top = stack[Len(stack)]
         /\ visited \subseteq Records /\ lib.layouts[1] \in [Records -> Seq(Field)]
         /\ stack[1] \in FunctionFrame /\ FieldsIn(lib, stack[1]) = stack[1].types
         /\ \A n \in 1 .. Len(stack) : stack[n] \in Frame
         /\ \A n \in 2 .. Len(stack) : /\ stack[n] \in RecordFrame /\ stack[n].of \in visited
                                       /\ FieldsIn(lib, stack[n]) = lib.layouts[1][stack[n].of]
<1>1. stack \in Seq(Frame) /\ Len(stack) \in Nat \ {0} /\ DOMAIN stack = 1 .. Len(stack) /\ Top = stack[Len(stack)]
  BY DEF Inv, Calls, Top
<1>2. visited \subseteq Records /\ lib.layouts[1] \in [Records -> Seq(Field)]
  BY DEF Inv, TypeOK, Shape, Library
<1>3. \A n \in 1 .. Len(stack) : stack[n] \in Frame /\ stack[n].header = 1 /\ (stack[n].of = "function" <=> n = 1)
  <2>1. DOMAIN lib.layouts = {1}
    BY DEF Inv, Shape, Library
  <2> QED
    BY <1>1, <2>1 DEF Inv, Calls
<1>4. \A n \in 1 .. Len(stack) : stack[n] \in FunctionFrame <=> n = 1
  BY <1>3 DEF Frame, FunctionFrame, RecordFrame
<1>5. ASSUME NEW n \in 2 .. Len(stack)
      PROVE  /\ stack[n] \in RecordFrame /\ stack[n].of \in visited
             /\ FieldsIn(lib, stack[n]) = lib.layouts[1][stack[n].of]
  <2>1. n \in 1 .. Len(stack) /\ n # 1
    BY <1>1
  <2> QED
    BY <1>3, <1>4, <2>1 DEF Inv, TypeOK, Frame, FieldsIn
<1>6. 1 \in 1 .. Len(stack)
  BY <1>1
<1> QED
  BY <1>1, <1>2, <1>3, <1>4, <1>5, <1>6 DEF FieldsIn, FunctionFrame

\* Where the records that were entered show nothing and lead to each other
\* only, there is no pointer to a function below them.
LEMMA NothingBelow ==
  ASSUME Inv, Len(lib.layouts) = 1, \A r \in visited : SearchedAll(lib, visited, r)
  PROVE  \A r \in visited : ~ LeadsToFunction(lib, r)
<1>1. lib.layouts[1] \in [Records -> Seq(Field)] /\ DOMAIN lib.layouts = {1} /\ visited \subseteq Records
  <2>1. lib.layouts[1] \in [Records -> Seq(Field)]
    BY DEF Inv, Shape, Library
  <2>2. DOMAIN lib.layouts = {1}
    BY DEF Inv, Shape, Library
  <2> QED
    BY <2>1, <2>2 DEF Inv, TypeOK
<1>2. \A r \in visited : \A f \in Range(lib.layouts[1][r]) : f.to # "function" /\ (f.to \in Records => f.to \in visited)
  <2> SUFFICES ASSUME NEW r \in visited, NEW k \in DOMAIN lib.layouts[1][r]
               PROVE  LET f == lib.layouts[1][r][k] IN f.to # "function" /\ (f.to \in Records => f.to \in visited)
    BY DEF Range
  <2>1. lib.layouts[1][r] \in Seq(Field)
    BY <1>1
  <2>2. k < Len(lib.layouts[1][r]) + 1
    BY <2>1
  <2> QED
    BY <2>2 DEF SearchedAll, Searched
<1>3. \A r \in Records : FieldsAnywhere(lib, r) = Range(lib.layouts[1][r])
  BY <1>1 DEF FieldsAnywhere
<1>4. Downward(lib, Records \ visited)
  BY <1>1, <1>2, <1>3 DEF Downward
<1> QED
  BY <1>1, <1>4 DEF LeadsToFunction

FirstUnderWay == /\ Len(lib.layouts) = 1 /\ verdicts = << >> /\ stack # << >>
                 /\ AtMostOneRecord(stack[1].types) /\ FirstSearch

LEMMA FirstEnter == ASSUME Inv, FirstUnderWay, Enter PROVE FirstSearch'
<1> DEFINE e == [of |-> Current.to, header |-> Top.header, next |-> 1, sofar |-> "none"]
           L == Len(stack)
<1>0. /\ stack # << >> /\ ~ Over(Top) /\ NeedsCall(Current.to) /\ stack' = Append(stack, e)
      /\ visited' = VisitedNow \cup {Current.to} /\ UNCHANGED <<lib, todo, records_map, verdicts>>
      /\ Len(lib.layouts) = 1
  BY DEF Enter, FirstUnderWay
<1>1. /\ L \in Nat \ {0} /\ stack \in Seq(Frame)
      /\ Top.next \in DOMAIN FieldsIn(lib, Top) /\ Current = FieldsIn(lib, Top)[Top.next]
      /\ visited \subseteq Records /\ lib.layouts[1] \in [Records -> Seq(Field)]
      /\ Current.to \in Records
  BY <1>0, TopIs, FramesAre DEF Inv, Calls, NeedsCall
<1> DEFINE r == Current.to
<1>2. e.of = r /\ e.next = 1 /\ e.sofar = "none"
  OBVIOUS
<1> HIDE DEF e, r, L
<1>3. Len(stack') = L + 1 /\ stack'[L + 1] = e /\ \A n \in 1 .. L : stack'[n] = stack[n]
  BY <1>0, <1>1 DEF L
<1>4. stack'[1] = stack[1] /\ Len(stack') > 1 /\ Len(stack') # 1
  BY <1>1, <1>3
<1>5. \A k \in DOMAIN stack[1].types : k < stack[1].next /\ Bad(lib, stack[1].types[k]) => Found(stack[1].sofar)
  BY DEF FirstUnderWay, FirstSearch
<1>6. \A x \in Records : Searched(lib, visited', x, 1)
  <2>1. \A x \in Records : \A k \in DOMAIN lib.layouts[1][x] : ~ (k < 1)
    BY <1>1
  <2> QED
    BY <1>0, <2>1 DEF Searched
<1>7. CASE L = 1
  <2>1. visited' = {r} /\ Top = stack[1]
    BY <1>0, <1>7 DEF VisitedNow, InFunction, Top, L, r
  <2>2. DOMAIN records_map = {}
    <3>1. FieldsIn(lib, Top) = stack[1].types /\ stack[1] \in FunctionFrame
      BY <1>0, <2>1, FramesAre
    <3>2. \A k \in DOMAIN stack[1].types : k < stack[1].next => stack[1].types[k].to \notin Records
      <4>1. stack[1].next \in DOMAIN stack[1].types /\ stack[1].types[stack[1].next].to \in Records
        BY <1>1, <2>1, <3>1
      <4>2. \A k \in DOMAIN stack[1].types : k < stack[1].next => k # stack[1].next
        BY <3>1 DEF FunctionFrame
      <4> QED
        BY <4>1, <4>2 DEF FirstUnderWay, AtMostOneRecord
    <3> QED
      BY <1>7, <3>2 DEF FirstUnderWay, FirstSearch, L
  <2>3. stack'[2].of = r /\ Searched(lib, visited', r, stack'[2].next)
    <3>1. r \in Records /\ stack'[2] = e
      BY <1>1, <1>3, <1>7 DEF r
    <3> QED
      BY <1>2, <1>6, <3>1
  <2>4. 2 \in 2 .. Len(stack')
    BY <1>3, <1>7
  <2>5. \A x \in visited' : \E n \in 2 .. Len(stack') : stack'[n].of = x /\ Searched(lib, visited', x, stack'[n].next)
    BY <2>1, <2>3, <2>4
  <2> QED
    BY <1>0, <1>4, <1>5, <2>2, <2>5 DEF FirstSearch
<1>8. CASE L # 1
  <2>0. L > 1
    BY <1>1, <1>8
  <2>1. visited' = visited \cup {r}
    BY <1>0, <1>8 DEF VisitedNow, InFunction, L, r
  <2>2. DOMAIN records_map' \subseteq visited'
    BY <1>0, <2>0, <2>1 DEF FirstUnderWay, FirstSearch, L
  <2>3. \A x : \A upto : Searched(lib, visited, x, upto) => Searched(lib, visited', x, upto)
    BY <1>0, <2>1 DEF Searched
  <2>4. \A x : SearchedAll(lib, visited, x) => SearchedAll(lib, visited', x)
    BY <1>0, <2>3 DEF SearchedAll
  <2>5. ASSUME NothingFound', NEW x \in visited'
        PROVE  SearchedAll(lib, visited', x) \/ \E n \in 2 .. Len(stack') : stack'[n].of = x /\ Searched(lib, visited', x, stack'[n].next)
    <3>1. CASE x = r
      <4>1. L + 1 \in 2 .. Len(stack') /\ stack'[L + 1].of = r /\ r \in Records
        BY <1>1, <1>2, <1>3, <2>1 DEF r
      <4> QED
        BY <1>2, <1>3, <1>6, <3>1, <4>1
    <3>2. CASE x # r
      <4>0. \A n \in 2 .. L : n \in 2 .. Len(stack') /\ stack'[n] = stack[n]
        BY <1>1, <1>3
      <4>1. NothingFound
        BY <2>5, <4>0 DEF NothingFound, L
      <4>2. SearchedAll(lib, visited, x) \/ \E n \in 2 .. L : stack[n].of = x /\ Searched(lib, visited, x, stack[n].next)
        BY <2>0, <2>1, <2>5, <3>2, <4>1 DEF FirstUnderWay, FirstSearch, L
      <4> QED
        BY <2>3, <2>4, <4>0, <4>2
    <3> QED
      BY <3>1, <3>2
  <2> QED
    BY <1>0, <1>4, <1>5, <2>2, <2>5 DEF FirstSearch
<1> QED
  BY <1>7, <1>8

LEMMA FirstLook == ASSUME Inv, FirstUnderWay, Look PROVE FirstSearch'
<1> DEFINE L == Len(stack)
           f == Current
           a == Ready(Current.to)
           e == Answered(Top, a)
<1>0. /\ stack # << >> /\ ~ Over(Top) /\ ~ NeedsCall(Current.to)
      /\ visited' = VisitedNow \cup ({Current.to} \cap Records)
      /\ UNCHANGED <<lib, todo, records_map, verdicts>> /\ Len(lib.layouts) = 1
  BY DEF Look, FirstUnderWay
<1>1. /\ L \in Nat \ {0} /\ Top \in Frame /\ Top = stack[L]
      /\ Top.next \in DOMAIN FieldsIn(lib, Top) /\ f = FieldsIn(lib, Top)[Top.next]
      /\ f.to \in Records \cup {"function", "plain"} /\ visited \subseteq Records
      /\ DOMAIN records_map \subseteq Records
      /\ a \in Answers /\ (Found(a) => f.to = "function" \/ (f.to \in Records /\ LeadsToFunction(lib, f.to)))
  <2>1. Top.next \in DOMAIN FieldsIn(lib, Top) /\ Current = FieldsIn(lib, Top)[Top.next] /\ Current.to \in Records \cup {"function", "plain"}
    BY <1>0, TopIs
  <2>2. Top \in Frame /\ Top = stack[L] /\ L \in Nat \ {0} /\ visited \subseteq Records
    BY <1>0, FramesAre, TopIs
  <2>3. a \in Answers /\ (Found(a) => f.to = "function" \/ (f.to \in Records /\ LeadsToFunction(lib, f.to)))
    BY <1>0, <2>1, ReadyIs
  <2> QED
    BY <2>1, <2>2, <2>3 DEF Inv, TypeOK
<1>2. f.to = "function" => Found(a)
  <2>1. f.to = "function" => a = "simple"
    <3>1. VisitedNow \subseteq Records
      BY <1>1 DEF VisitedNow
    <3> QED
      BY <1>1, <3>1 DEF Ready
  <2> QED
    BY <2>1 DEF Found
<1>3. /\ Len(stack') = L /\ stack'[L] = e /\ \A n \in 1 .. L - 1 : stack'[n] = stack[n]
  BY StackAfter DEF Look
<1>4. /\ e.of = Top.of /\ e.next = Top.next + 1
      /\ Top \in FunctionFrame => e.types = Top.types
      /\ Found(a) => Found(e.sofar)
      /\ ~ Found(a) => e.sofar = Top.sofar
  BY <1>1, AnsweredIs
<1> HIDE DEF e, a, f, L
<1>5. CASE L = 1
  <2>1. /\ Top \in FunctionFrame /\ FieldsIn(lib, Top) = Top.types /\ Top = stack[1] /\ stack'[1] = e /\ Len(stack') = 1
    BY <1>0, <1>1, <1>3, <1>5, FramesAre
  <2>2. Top.next \in Nat /\ Top.next \in DOMAIN Top.types /\ f = Top.types[Top.next] /\ Top.types \in Seq(Field)
    BY <1>1, <2>1 DEF FunctionFrame
  <2>3. \A k \in DOMAIN Top.types : k < Top.next + 1 => k < Top.next \/ k = Top.next
    BY <2>2
  <2>4. ~ Found(a) => ~ Bad(lib, f)
    <3> SUFFICES ASSUME f.to \in Records PROVE Found(a)
      BY <1>1, <1>2, RecordsAssumption DEF Bad
    <3>1. \A k \in DOMAIN Top.types : k < Top.next => Top.types[k].to \notin Records
      <4>1. \A k \in DOMAIN Top.types : k < Top.next => k # Top.next
        BY <2>2
      <4> QED
        BY <2>1, <2>2, <4>1 DEF FirstUnderWay, AtMostOneRecord
    <3>2. DOMAIN records_map = {}
      BY <1>5, <2>1, <3>1 DEF FirstUnderWay, FirstSearch, L
    <3>3. NeedsCall(f.to)
      BY <1>5, <3>2 DEF NeedsCall, VisitedNow, InFunction, L
    <3> QED
      BY <1>0, <3>3 DEF f
  <2>5. \A k \in DOMAIN stack'[1].types : k < stack'[1].next /\ Bad(lib', stack'[1].types[k]) => Found(stack'[1].sofar)
    <3> SUFFICES ASSUME NEW k \in DOMAIN Top.types, k < Top.next + 1, Bad(lib, Top.types[k])
                 PROVE  Found(e.sofar)
      BY <1>0, <1>4, <2>1
    <3>1. CASE k = Top.next
      BY <1>4, <2>2, <2>4, <3>1
    <3>2. CASE k < Top.next
      BY <1>4, <2>1, <3>2 DEF FirstUnderWay, FirstSearch
    <3> QED
      BY <2>3, <3>1, <3>2
  <2>6. (\A k \in DOMAIN stack'[1].types : k < stack'[1].next => stack'[1].types[k].to \notin Records)
          => DOMAIN records_map' = {}
    <3> SUFFICES ASSUME \A k \in DOMAIN Top.types : k < Top.next + 1 => Top.types[k].to \notin Records
                 PROVE  DOMAIN records_map = {}
      BY <1>0, <1>4, <2>1
    <3>1. \A k \in DOMAIN Top.types : k < Top.next => k < Top.next + 1
      BY <2>2
    <3> QED
      BY <1>5, <2>1, <3>1 DEF FirstUnderWay, FirstSearch, L
  <2>7. ~ (Len(stack') > 1)
    BY <2>1
  <2> QED
    BY <2>5, <2>6, <2>7 DEF FirstSearch
<1>6. CASE L # 1
  <2>0. L > 1
    BY <1>1, <1>6
  <2>1. visited' = visited \cup ({f.to} \cap Records) /\ VisitedNow = visited
    BY <1>0, <1>6 DEF VisitedNow, InFunction, L, f
  <2>2. /\ Top \in RecordFrame /\ Top.of \in visited /\ FieldsIn(lib, Top) = lib.layouts[1][Top.of]
    <3>1. L \in 2 .. Len(stack)
      BY <1>1, <2>0 DEF L
    <3> QED
      BY <1>0, <1>1, <3>1, FramesAre
  <2>3. stack'[1] = stack[1] /\ Len(stack') > 1 /\ Len(stack') # 1
    BY <1>1, <1>3, <2>0
  <2>4. DOMAIN records_map' \subseteq visited'
    BY <1>0, <2>0, <2>1 DEF FirstUnderWay, FirstSearch, L
  <2>5. \A x : \A upto : Searched(lib, visited, x, upto) => Searched(lib, visited', x, upto)
    BY <2>1 DEF Searched
  <2>6. \A x : SearchedAll(lib, visited, x) => SearchedAll(lib, visited', x)
    BY <2>5 DEF SearchedAll
  <2>7. ASSUME NothingFound', NEW x \in visited'
        PROVE  SearchedAll(lib, visited', x)
                 \/ \E n \in 2 .. Len(stack') : stack'[n].of = x /\ Searched(lib, visited', x, stack'[n].next)
    <3>0. L \in 2 .. L /\ L \in 2 .. Len(stack') /\ \A n \in 2 .. L : n = L \/ n \in 1 .. L - 1
      BY <1>1, <1>3, <2>0
    <3>1. ~ Found(e.sofar)
      BY <1>3, <2>7, <3>0 DEF NothingFound
    <3>2. ~ Found(a) /\ ~ Found(Top.sofar) /\ f.to # "function"
      BY <1>2, <1>4, <3>1
    <3>3. NothingFound
      <4> SUFFICES ASSUME NEW n \in 2 .. L PROVE ~ Found(stack[n].sofar)
        BY DEF NothingFound, L
      <4>1. CASE n = L
        BY <1>1, <3>2, <4>1
      <4>2. CASE n # L
        <5>1. stack'[n] = stack[n] /\ n \in 2 .. Len(stack')
          BY <1>3, <3>0, <4>2
        <5> QED
          BY <2>7, <5>1 DEF NothingFound
      <4> QED
        BY <4>1, <4>2
    <3>4. f.to \in Records => f.to \in visited
      <4>1. f.to \in DOMAIN records_map => f.to \in visited
        BY <2>0 DEF FirstUnderWay, FirstSearch, L
      <4> QED
        BY <1>0, <2>1, <4>1 DEF NeedsCall, f
    <3>5. x \in visited
      BY <2>1, <2>7, <3>4
    <3>6. SearchedAll(lib, visited, x) \/ \E n \in 2 .. L : stack[n].of = x /\ Searched(lib, visited, x, stack[n].next)
      BY <2>0, <3>3, <3>5 DEF FirstUnderWay, FirstSearch, L
    <3>7. CASE SearchedAll(lib, visited, x)
      BY <2>6, <3>7
    <3>8. ASSUME NEW n \in 2 .. L, stack[n].of = x, Searched(lib, visited, x, stack[n].next)
          PROVE  \E m \in 2 .. Len(stack') : stack'[m].of = x /\ Searched(lib, visited', x, stack'[m].next)
      <4>1. CASE n = L
        <5>1. stack'[L].of = x /\ stack'[L].next = Top.next + 1 /\ Top.of = x
          BY <1>1, <1>3, <1>4, <3>8, <4>1
        <5>2. Top.next \in Nat /\ DOMAIN lib.layouts[1][x] \subseteq Nat
          <6>1. lib.layouts[1][x] \in Seq(Field)
            BY <1>0, <3>5, FramesAre
          <6> QED
            BY <2>2, <6>1 DEF RecordFrame
        <5>3. \A k \in DOMAIN lib.layouts[1][x] : k < Top.next + 1 => k < Top.next \/ k = Top.next
          BY <5>2
        <5>4. f = lib.layouts[1][x][Top.next]
          BY <1>1, <2>2, <5>1
        <5>5. Searched(lib, visited, x, Top.next)
          BY <1>1, <3>8, <4>1
        <5>6. Searched(lib, visited, x, Top.next + 1)
          BY <3>2, <3>4, <5>3, <5>4, <5>5 DEF Searched
        <5> QED
          BY <2>5, <3>0, <5>1, <5>6
      <4>2. CASE n # L
        <5>1. stack'[n] = stack[n] /\ n \in 2 .. Len(stack')
          BY <1>3, <3>0, <4>2
        <5> QED
          BY <2>5, <3>8, <5>1
      <4> QED
        BY <4>1, <4>2
    <3> QED
      BY <3>6, <3>7, <3>8
  <2>8. \A k \in DOMAIN stack'[1].types : k < stack'[1].next /\ Bad(lib', stack'[1].types[k]) => Found(stack'[1].sofar)
    BY <1>0, <2>3 DEF FirstUnderWay, FirstSearch
  <2> QED
    BY <1>0, <2>3, <2>4, <2>7, <2>8 DEF FirstSearch
<1> QED
  BY <1>5, <1>6

LEMMA FirstReturn == ASSUME Inv, FirstUnderWay, Return PROVE FirstSearch'
<1> DEFINE L == Len(stack)
           a == Top.sofar
           r == Top.of
           below == stack[L - 1]
           e == Answered(below, a)
           f == FieldsIn(lib, below)[below.next]
<1>0. /\ stack # << >> /\ L > 1 /\ Over(Top) /\ records_map' = Remembering(r, a)
      /\ UNCHANGED <<lib, todo, visited, verdicts>> /\ Len(lib.layouts) = 1
  BY DEF Return, FirstUnderWay
<1>1. /\ L \in Nat \ {0, 1} /\ Top = stack[L] /\ visited \subseteq Records
      /\ lib.layouts[1] \in [Records -> Seq(Field)]
      /\ Top \in RecordFrame /\ r \in visited /\ FieldsIn(lib, Top) = lib.layouts[1][r]
      /\ below \in Frame /\ L \in 2 .. Len(stack)
  <2>1. L \in 2 .. Len(stack) /\ L - 1 \in 1 .. Len(stack) /\ L \in Nat \ {0, 1}
    BY <1>0, FramesAre
  <2> QED
    BY <1>0, <2>1, FramesAre
<1>2. below.next \in DOMAIN FieldsIn(lib, below) /\ f.to = r
  BY <1>1 DEF Inv, Calls
<1>3. /\ a \in Answers /\ (~ Found(a) => SearchedAll(lib, visited, r) \/ ~ NothingFound)
  <2>1. a \in Answers
    BY <1>1 DEF RecordFrame
  <2>2. ASSUME ~ Found(a), NothingFound PROVE SearchedAll(lib, visited, r)
    <3>1. Top.next > Len(lib.layouts[1][r])
      BY <1>0, <1>1, <2>2, TopIs DEF Over, Found
    <3>2. SearchedAll(lib, visited, r) \/ \E n \in 2 .. L : stack[n].of = r /\ Searched(lib, visited, r, stack[n].next)
      BY <1>0, <1>1, <2>2 DEF FirstUnderWay, FirstSearch
    <3>3. ASSUME NEW n \in 2 .. L, stack[n].of = r PROVE n = L
      <4>1. L \in 2 .. L /\ stack[L].of = r
        BY <1>1
      <4> QED
        BY <3>3, <4>1 DEF Inv, Calls
    <3>4. lib.layouts[1][r] \in Seq(Field) /\ Top.next \in Nat
      BY <1>1 DEF RecordFrame
    <3>5. \A k \in DOMAIN lib.layouts[1][r] : k < Top.next
      BY <3>1, <3>4
    <3> QED
      BY <1>1, <3>2, <3>3, <3>5 DEF SearchedAll, Searched
  <2> QED
    BY <2>1, <2>2
<1>4. /\ Len(stack') = L - 1 /\ stack'[L - 1] = e /\ \A n \in 1 .. L - 2 : stack'[n] = stack[n]
  BY StackAfter DEF Return
<1>5. /\ e.of = below.of /\ e.next = below.next + 1
      /\ below \in FunctionFrame => e.types = below.types
      /\ Found(a) => Found(e.sofar)
      /\ ~ Found(a) => e.sofar = below.sofar
  BY <1>1, <1>3, AnsweredIs
<1>6. DOMAIN records_map' = DOMAIN records_map \cup {r}
  BY <1>0 DEF Remembering
<1> HIDE DEF e, a, f, r, below, L
<1>7. CASE L = 2
  <2>1. /\ below \in FunctionFrame /\ FieldsIn(lib, below) = below.types /\ below = stack[1]
        /\ stack'[1] = e /\ Len(stack') = 1
    <3>1. below = stack[1]
      BY <1>7 DEF below
    <3> QED
      BY <1>0, <1>4, <1>7, <3>1, FramesAre
  <2>2. below.next \in Nat /\ below.next \in DOMAIN below.types /\ f = below.types[below.next] /\ below.types \in Seq(Field)
    BY <1>2, <2>1 DEF FunctionFrame, f
  <2>3. \A k \in DOMAIN below.types : k < below.next + 1 => k < below.next \/ k = below.next
    BY <2>2
  <2>4. ~ Found(a) => ~ Bad(lib, f)
    <3> SUFFICES ASSUME ~ Found(a) PROVE ~ Bad(lib, f)
      OBVIOUS
    <3>1. NothingFound
      <4>1. \A n \in 2 .. L : n = L
        BY <1>7
      <4> QED
        BY <1>1, <4>1 DEF NothingFound, L, a
    <3>2. \A x \in visited : SearchedAll(lib, visited, x)
      <4> SUFFICES ASSUME NEW x \in visited, ~ SearchedAll(lib, visited, x) PROVE FALSE
        OBVIOUS
      <4>1. \E n \in 2 .. L : stack[n].of = x
        BY <1>0, <3>1 DEF FirstUnderWay, FirstSearch, L
      <4>2. x = r
        BY <1>1, <1>7, <4>1 DEF r
      <4> QED
        BY <1>3, <3>1, <4>2
    <3>3. ~ LeadsToFunction(lib, r)
      BY <1>0, <1>1, <3>2, NothingBelow
    <3>4. r \in Records /\ r # "function"
      BY <1>1, RecordsAssumption
    <3> QED
      BY <1>2, <3>3, <3>4 DEF Bad
  <2>5. \A k \in DOMAIN stack'[1].types : k < stack'[1].next /\ Bad(lib', stack'[1].types[k]) => Found(stack'[1].sofar)
    <3> SUFFICES ASSUME NEW k \in DOMAIN below.types, k < below.next + 1, Bad(lib, below.types[k])
                 PROVE  Found(e.sofar)
      BY <1>0, <1>5, <2>1
    <3>1. CASE k = below.next
      BY <1>5, <2>2, <2>4, <3>1
    <3>2. CASE k < below.next
      BY <1>5, <2>1, <3>2 DEF FirstUnderWay, FirstSearch
    <3> QED
      BY <2>3, <3>1, <3>2
  <2>6. ~ (\A k \in DOMAIN stack'[1].types : k < stack'[1].next => stack'[1].types[k].to \notin Records)
    <3>1. below.next \in DOMAIN stack'[1].types /\ below.next < stack'[1].next /\ stack'[1].types[below.next].to = r
      BY <1>2, <1>5, <2>1, <2>2
    <3> QED
      BY <1>1, <3>1
  <2>7. ~ (Len(stack') > 1)
    BY <2>1
  <2> QED
    BY <2>5, <2>6, <2>7 DEF FirstSearch
<1>8. CASE L # 2
  <2>0. L \in Nat /\ L > 2
    BY <1>1, <1>8
  <2>1. below \in RecordFrame /\ below.of \in visited /\ FieldsIn(lib, below) = lib.layouts[1][below.of]
    <3>1. L - 1 \in 2 .. Len(stack)
      BY <2>0 DEF L
    <3> QED
      BY <1>0, <3>1, FramesAre DEF below
  <2>2. stack'[1] = stack[1] /\ Len(stack') > 1 /\ Len(stack') # 1
    <3>1. 1 \in 1 .. L - 2
      BY <2>0
    <3> QED
      BY <1>4, <2>0, <3>1
  <2>3. DOMAIN records_map' \subseteq visited'
    BY <1>0, <1>1, <1>6 DEF FirstUnderWay, FirstSearch, L
  <2>4. ASSUME NothingFound', NEW x \in visited'
        PROVE  SearchedAll(lib, visited', x)
                 \/ \E n \in 2 .. Len(stack') : stack'[n].of = x /\ Searched(lib, visited', x, stack'[n].next)
    <3>0. /\ L - 1 \in 2 .. Len(stack') /\ \A n \in 2 .. L : n = L \/ n = L - 1 \/ n \in 1 .. L - 2
          /\ \A n \in 1 .. L - 2 : n # 1 => n \in 2 .. Len(stack')
      BY <1>4, <2>0
    <3>1. ~ Found(e.sofar)
      BY <1>4, <2>4, <3>0 DEF NothingFound
    <3>2. ~ Found(a) /\ ~ Found(below.sofar)
      BY <1>5, <3>1
    <3>3. NothingFound
      <4> SUFFICES ASSUME NEW n \in 2 .. L PROVE ~ Found(stack[n].sofar)
        BY DEF NothingFound, L
      <4>1. CASE n = L
        BY <1>1, <3>2, <4>1 DEF a
      <4>2. CASE n = L - 1
        BY <3>2, <4>2 DEF below
      <4>3. CASE n \in 1 .. L - 2
        <5>1. stack'[n] = stack[n] /\ n \in 2 .. Len(stack')
          BY <1>4, <3>0, <4>3
        <5> QED
          BY <2>4, <5>1 DEF NothingFound
      <4> QED
        BY <3>0, <4>1, <4>2, <4>3
    <3>4. SearchedAll(lib, visited, x) \/ \E n \in 2 .. L : stack[n].of = x /\ Searched(lib, visited, x, stack[n].next)
      BY <1>0, <2>0, <2>4, <3>3 DEF FirstUnderWay, FirstSearch, L
    <3>5. ASSUME NEW n \in 2 .. L, stack[n].of = x, Searched(lib, visited, x, stack[n].next)
          PROVE  \/ SearchedAll(lib, visited, x)
                 \/ \E m \in 2 .. Len(stack') : stack'[m].of = x /\ Searched(lib, visited, x, stack'[m].next)
      <4>1. CASE n = L
        BY <1>1, <1>3, <3>2, <3>3, <3>5, <4>1 DEF r
      <4>2. CASE n = L - 1
        <5>1. stack'[L - 1].of = x /\ stack'[L - 1].next = below.next + 1 /\ below.of = x
          BY <1>4, <1>5, <3>5, <4>2 DEF below
        <5>2. below.next \in Nat /\ DOMAIN lib.layouts[1][x] \subseteq Nat
          <6>1. lib.layouts[1][x] \in Seq(Field)
            BY <1>1, <2>1, <5>1
          <6> QED
            BY <2>1, <6>1 DEF RecordFrame
        <5>3. \A k \in DOMAIN lib.layouts[1][x] : k < below.next + 1 => k < below.next \/ k = below.next
          BY <5>2
        <5>4. f = lib.layouts[1][x][below.next] /\ f.to = r
          BY <1>2, <2>1, <5>1 DEF f
        <5>5. Searched(lib, visited, x, below.next)
          BY <3>5, <4>2 DEF below
        <5>6. r # "function" /\ r \in visited
          BY <1>1, RecordsAssumption
        <5>7. Searched(lib, visited, x, below.next + 1)
          BY <5>3, <5>4, <5>5, <5>6 DEF Searched
        <5> QED
          BY <3>0, <5>1, <5>7
      <4>3. CASE n \in 1 .. L - 2
        <5>1. stack'[n] = stack[n] /\ n \in 2 .. Len(stack')
          BY <1>4, <3>0, <4>3
        <5> QED
          BY <3>5, <5>1
      <4> QED
        BY <3>0, <4>1, <4>2, <4>3
    <3> QED
      BY <1>0, <3>4, <3>5
  <2>5. \A k \in DOMAIN stack'[1].types : k < stack'[1].next /\ Bad(lib', stack'[1].types[k]) => Found(stack'[1].sofar)
    BY <1>0, <2>2 DEF FirstUnderWay, FirstSearch
  <2> QED
    BY <1>0, <2>2, <2>3, <2>4, <2>5 DEF FirstSearch
<1> QED
  BY <1>7, <1>8

LEMMA FirstTake ==
  ASSUME Inv, Take, DOMAIN records_map = {}, stack' # << >>
  PROVE  FirstSearch'
<1>1. stack'[1].next = 1 /\ Len(stack') = 1 /\ UNCHANGED records_map /\ stack'[1].types \in Seq(Field)
  <2>1. Head(todo) \in Decl
    BY DEF Inv, Shape, Take
  <2> QED
    BY <2>1 DEF Take, Decl
<1>2. \A k \in DOMAIN stack'[1].types : ~ (k < 1)
  BY <1>1
<1>3. ~ (Len(stack') > 1)
  BY <1>1
<1>4. DOMAIN records_map' = {}
  BY <1>1
<1> QED
  BY <1>1, <1>2, <1>3, <1>4 DEF FirstSearch

LEMMA FirstFinish ==
  ASSUME Inv, FirstUnderWay, Finish, Justified(lib, Top.types)
  PROVE  Found(Top.sofar)
<1>1. stack # << >> /\ Len(stack) = 1 /\ Over(Top) /\ Len(lib.layouts) = 1
  BY DEF Finish, InFunction, FirstUnderWay
<1>2. Top = stack[1] /\ Top \in FunctionFrame
  BY <1>1, FramesAre
<1>3. FieldsOf(Top) = Top.types
  BY <1>2 DEF FieldsOf, FunctionFrame
<1>4. CASE Top.sofar = "complex"
  BY <1>4 DEF Found
<1>5. CASE Top.next > Len(Top.types)
  <2>1. \A k \in DOMAIN Top.types : k < Top.next
    BY <1>2, <1>5 DEF FunctionFrame
  <2> QED
    BY <1>2, <2>1 DEF FirstUnderWay, FirstSearch, Justified
<1> QED
  BY <1>1, <1>3, <1>4, <1>5 DEF Over

LEMMA FirstStep == ASSUME Inv, FirstInv, Step PROVE FirstInv'
<1> SUFFICES ASSUME Len(lib.layouts) = 1
             PROVE  /\ verdicts' # << >> /\ AtMostOneRecord(verdicts'[1].types) /\ Justified(lib, verdicts'[1].types)
                         => Found(verdicts'[1].answer)
                    /\ verdicts' = << >> /\ stack' = << >> => DOMAIN records_map' = {}
                    /\ verdicts' = << >> /\ stack' # << >> /\ AtMostOneRecord(stack'[1].types) => FirstSearch'
  <2>1. lib' = lib
    BY DEF Step, Take, Look, Enter, Return, Finish
  <2> QED
    BY <2>1 DEF FirstInv
<1>1. /\ verdicts # << >> /\ AtMostOneRecord(verdicts[1].types) /\ Justified(lib, verdicts[1].types)
           => Found(verdicts[1].answer)
      /\ verdicts = << >> /\ stack = << >> => DOMAIN records_map = {}
      /\ verdicts = << >> /\ stack # << >> /\ AtMostOneRecord(stack[1].types) => FirstUnderWay
  BY DEF FirstInv, FirstUnderWay
<1>2. CASE Take
  <2>1. UNCHANGED <<verdicts, records_map>> /\ stack = << >>
    BY <1>2 DEF Take
  <2> QED
    BY <1>1, <1>2, <2>1, FirstTake
<1>3. CASE Look \/ Enter \/ Return
  <2>1. UNCHANGED verdicts /\ stack # << >> /\ stack' # << >> /\ stack'[1].types = stack[1].types
    BY <1>3, BottomStays DEF Look, Enter, Return
  <2> QED
    BY <1>1, <1>3, <2>1, FirstLook, FirstEnter, FirstReturn
<1>4. CASE Finish
  <2> DEFINE V == [name : STRING, header : Nat, types : Seq(Field), answer : Answers]
             v == [name |-> Top.name, header |-> Top.header, types |-> Top.types, answer |-> Top.sofar]
  <2>1. stack # << >> /\ Len(stack) = 1 /\ verdicts' = Append(verdicts, v) /\ verdicts \in Seq(V)
    BY <1>4 DEF Finish, InFunction, Inv, Shape
  <2>2. Top = stack[1]
    BY <2>1 DEF Top
  <2>3. v.types = Top.types /\ v.answer = Top.sofar
    OBVIOUS
  <2> HIDE DEF v, V
  <2>4. verdicts' # << >> /\ verdicts'[1] = IF verdicts = << >> THEN v ELSE verdicts[1]
    BY <2>1
  <2>5. CASE verdicts = << >>
    BY <1>1, <1>4, <2>1, <2>2, <2>3, <2>4, <2>5, FirstFinish
  <2>6. CASE verdicts # << >>
    BY <1>1, <2>4, <2>6
  <2> QED
    BY <2>5, <2>6
<1> QED
  BY <1>2, <1>3, <1>4 DEF Step

LEMMA FirstUntouched == ASSUME FirstInv, UNCHANGED scanVars PROVE FirstInv'
<1>1. /\ lib' = lib /\ stack' = stack /\ visited' = visited /\ records_map' = records_map /\ verdicts' = verdicts
  BY DEF scanVars
<1>2. FirstSearch' <=> FirstSearch
  BY <1>1 DEF FirstSearch, NothingFound
<1> QED
  BY <1>1, <1>2 DEF FirstInv

LEMMA FirstStarted == ASSUME NEW l, Start(l) PROVE FirstInv'
<1>1. stack' = << >> /\ verdicts' = << >> /\ DOMAIN records_map' = {}
  BY DEF Start
<1> QED
  BY <1>1 DEF FirstInv

LEMMA FirstInit == AtStart => FirstInv
<1> SUFFICES ASSUME AtStart PROVE FirstInv
  OBVIOUS
<1>1. stack = << >> /\ verdicts = << >> /\ DOMAIN records_map = {}
  BY DEF AtStart, Fresh
<1> QED
  BY <1>1 DEF FirstInv

LEMMA FirstNext == Inv /\ FirstInv /\ [Next]_vars => FirstInv'
<1> SUFFICES ASSUME Inv, FirstInv, [Next]_vars PROVE FirstInv'
  OBVIOUS
<1>1. CASE Begin \/ Crash
  BY <1>1, FirstStarted DEF Begin, Crash
<1>2. CASE Scan
  BY <1>2, FirstStep DEF Scan
<1>3. CASE Pass \/ Open \/ Write \/ Exit \/ Table \/ Done \/ UNCHANGED vars
  <2>1. UNCHANGED scanVars
    BY <1>3 DEF Pass, Open, Write, Exit, Table, Done, vars
  <2> QED
    BY <2>1, FirstUntouched
<1> QED
  BY <1>1, <1>2, <1>3 DEF Next, Work

LEMMA FirstAlways == Spec => []FirstInv
BY InitAtStart, FirstInit, FirstNext, Always, PTL DEF Spec

LEMMA FirstMissesNothing == Inv /\ FirstInv => FirstSearchComplete
<1> SUFFICES ASSUME Inv, FirstInv PROVE FirstSearchComplete
  OBVIOUS
<1> SUFFICES ASSUME Len(lib.layouts) = 1, verdicts # << >>, Justified(lib, verdicts[1].types),
                    Cardinality({n \in DOMAIN verdicts[1].types : verdicts[1].types[n].to \in Records}) = 1
             PROVE  Found(verdicts[1].answer)
  BY DEF FirstSearchComplete
<1> DEFINE types == verdicts[1].types
           S == {n \in DOMAIN types : types[n].to \in Records}
<1>1. types \in Seq(Field)
  <2> DEFINE V == [name : STRING, header : Nat, types : Seq(Field), answer : Answers]
  <2>1. verdicts \in Seq(V)
    BY DEF Inv, Shape
  <2> HIDE DEF V
  <2>2. verdicts[1] \in V
    BY <2>1
  <2> QED
    BY <2>2 DEF V
<1>2. IsFiniteSet(S)
  <2>1. DOMAIN types = 1 .. Len(types) /\ Len(types) \in Nat /\ 1 \in Int /\ Len(types) \in Int
    BY <1>1
  <2>2. IsFiniteSet(1 .. Len(types)) /\ S \in SUBSET (1 .. Len(types))
    BY <2>1, FS_Interval
  <2> QED
    BY <2>2, FS_Subset
<1>3. PICK k : S = {k}
  BY <1>2, FS_Singleton
<1>4. AtMostOneRecord(types)
  BY <1>3 DEF AtMostOneRecord
<1> QED
  BY <1>4 DEF FirstInv

\* The first function that is judged with one record in its head: whatever
\* cycles and shared records there are, a pointer to a function below the
\* record is not missed.
THEOREM FirstSearchIsComplete == Spec => []FirstSearchComplete
BY FirstMissesNothing, Always, FirstAlways, PTL

-----------------------------------------------------------------------------
(* Libraries whose records are each used in one place, and none below      *)
(* itself: the answers are exact.                                          *)

\* A field that makes the record or function it is in complex.
Twisted(l, f, union) ==
  (Bad(l, f) /\ (f.far \/ union)) \/ (f.to \in Records /\ IsComplex(l, f.to))

\* What a call has found so far is what its fields that it is over with hold.
Judged(l, frame) ==
  LET fields == FieldsIn(l, frame)
  IN /\ frame.sofar = "complex" <=>
          \E k \in DOMAIN fields : k < frame.next /\ Twisted(l, fields[k], frame.of \in Unions)
     /\ Found(frame.sofar) <=> \E k \in DOMAIN fields : k < frame.next /\ Bad(l, fields[k])

\* An answer is right of a record.
Right(l, r, answer) ==
  (answer = "complex" <=> IsComplex(l, r)) /\ (Found(answer) <=> LeadsToFunction(l, r))

\* A record that a search has met is the one it began with or was met in the
\* only place it is used in, and the search is past that place, or in it.
MetInPlace(r) ==
  \/ r = stack[2].of
  \/ \E q \in visited : \E k \in DOMAIN lib.layouts[1][q] :
       /\ lib.layouts[1][q][k].to = r
       /\ \A n \in 2 .. Len(stack) : stack[n].of = q =>
            k < stack[n].next \/ (n < Len(stack) /\ k = stack[n].next)

Forested == lib # Nothing /\ Forest(lib)

ForestInv ==
  Forested =>
    /\ \A r \in DOMAIN records_map : Right(lib, r, records_map[r])
    /\ \A n \in DOMAIN stack : Judged(lib, stack[n]) /\ (n < Len(stack) => stack[n].sofar # "complex")
    /\ \A n \in DOMAIN verdicts : verdicts[n].answer = Truth(lib, verdicts[n].types)
    /\ Len(stack) > 1 => \A r \in visited : MetInPlace(r)

\* Below what a library calls complex there is a pointer to a function.
LEMMA ComplexLeads ==
  ASSUME NEW l, NEW r \in Records, IsComplex(l, r) PROVE LeadsToFunction(l, r)
<1> SUFFICES ASSUME NEW S \in SUBSET Records, Downward(l, S) PROVE r \in S
  BY DEF LeadsToFunction
<1>1. Upward(l, S)
  <2> SUFFICES ASSUME NEW q \in Records, NEW f \in FieldsAnywhere(l, q), Bad(l, f) \/ f.to \in S PROVE q \in S
    BY DEF Upward
  <2>1. f.to = "function" \/ f.to \in S
    BY DEF Bad, LeadsToFunction
  <2> QED
    BY <2>1 DEF Downward
<1> QED
  BY <1>1 DEF IsComplex

\* What leads to a function, and what is complex, is so by one of its fields.
LEMMA LeadsByField ==
  ASSUME NEW l, NEW r \in Records, LeadsToFunction(l, r)
  PROVE  \E f \in FieldsAnywhere(l, r) : Bad(l, f)
<1> DEFINE S == {q \in Records : \E f \in FieldsAnywhere(l, q) : Bad(l, f)}
<1>1. Downward(l, S)
  <2> SUFFICES ASSUME NEW q \in Records, NEW f \in FieldsAnywhere(l, q), f.to = "function" \/ f.to \in S
               PROVE  Bad(l, f)
    BY DEF Downward
  <2>1. ASSUME f.to \in S PROVE f.to \in Records /\ LeadsToFunction(l, f.to)
    <3>1. f.to \in Records /\ \E g \in FieldsAnywhere(l, f.to) : Bad(l, g)
      BY <2>1
    <3> SUFFICES ASSUME NEW T \in SUBSET Records, Downward(l, T) PROVE f.to \in T
      BY <3>1 DEF LeadsToFunction
    <3>2. \A g : Bad(l, g) => g.to = "function" \/ g.to \in T
      BY DEF Bad, LeadsToFunction
    <3> QED
      BY <3>1, <3>2 DEF Downward
  <2> QED
    BY <2>1 DEF Bad
<1>2. r \in S
  BY <1>1 DEF LeadsToFunction
<1> QED
  BY <1>2

LEMMA ComplexByField ==
  ASSUME NEW l, NEW r \in Records
  PROVE  IsComplex(l, r) <=> \E f \in FieldsAnywhere(l, r) : Twisted(l, f, r \in Unions)
<1> DEFINE S == {q \in Records : \E f \in FieldsAnywhere(l, q) : Twisted(l, f, q \in Unions)}
<1>1. \A q \in Records : (\E f \in FieldsAnywhere(l, q) : Twisted(l, f, q \in Unions)) => IsComplex(l, q)
  <2> SUFFICES ASSUME NEW q \in Records, NEW f \in FieldsAnywhere(l, q), Twisted(l, f, q \in Unions),
                      NEW T \in SUBSET Records, Upward(l, T)
               PROVE  q \in T
    BY DEF IsComplex
  <2>1. (Bad(l, f) /\ (f.far \/ q \in Unions)) \/ f.to \in T
    BY DEF Twisted, IsComplex
  <2> QED
    BY <2>1 DEF Upward
<1>2. Upward(l, S)
  <2> SUFFICES ASSUME NEW q \in Records, NEW f \in FieldsAnywhere(l, q),
                      (Bad(l, f) /\ (f.far \/ q \in Unions)) \/ f.to \in S
               PROVE  Twisted(l, f, q \in Unions)
    BY DEF Upward
  <2>1. f.to \in S => f.to \in Records /\ IsComplex(l, f.to)
    BY <1>1
  <2> QED
    BY <2>1 DEF Twisted
<1>3. IsComplex(l, r) => r \in S
  BY <1>2 DEF IsComplex
<1> QED
  BY <1>1, <1>3

\* In a forest the frames all see the one layout of their record.
LEMMA ForestFrames ==
  ASSUME Inv, Forested, stack # << >>
  PROVE  /\ Len(stack) \in Nat \ {0} /\ DOMAIN stack = 1 .. Len(stack) /\ Top = stack[Len(stack)]
         /\ visited \subseteq Records /\ lib.layouts[1] \in [Records -> Seq(Field)]
         /\ \A r \in Records : FieldsAnywhere(lib, r) = {lib.layouts[1][r][k] : k \in DOMAIN lib.layouts[1][r]}
         /\ stack[1] \in FunctionFrame /\ FieldsIn(lib, stack[1]) = stack[1].types
         /\ \A n \in 1 .. Len(stack) : stack[n] \in Frame
         /\ \A n \in 2 .. Len(stack) : /\ stack[n] \in RecordFrame /\ stack[n].of \in visited
                                       /\ FieldsIn(lib, stack[n]) = lib.layouts[1][stack[n].of]
<1>1. stack \in Seq(Frame) /\ Len(stack) \in Nat \ {0} /\ DOMAIN stack = 1 .. Len(stack) /\ Top = stack[Len(stack)]
  BY DEF Inv, Calls, Top
<1>2. \A n \in 1 .. Len(stack) : /\ stack[n] \in Frame /\ stack[n].header \in DOMAIN lib.layouts
                                 /\ (stack[n].of = "function" <=> n = 1)
  BY <1>1 DEF Inv, Calls
<1>3. /\ \A h \in DOMAIN lib.layouts : lib.layouts[h] = lib.layouts[1]
      /\ \E h : h \in DOMAIN lib.layouts
      /\ \A h \in DOMAIN lib.layouts : lib.layouts[h] \in [Records -> Seq(Field)]
  <2>1. 1 \in 1 .. Len(stack)
    BY <1>1
  <2>2. \A h \in DOMAIN lib.layouts : lib.layouts[h] \in [Records -> Seq(Field)]
    BY DEF Inv, Shape, Library
  <2> QED
    BY <1>2, <2>1, <2>2 DEF Forested, Forest
<1>4. lib.layouts[1] \in [Records -> Seq(Field)]
  BY <1>3
<1>5. \A r \in Records : FieldsAnywhere(lib, r) = {lib.layouts[1][r][k] : k \in DOMAIN lib.layouts[1][r]}
  BY <1>3 DEF FieldsAnywhere, Range
<1>6. \A n \in 1 .. Len(stack) : stack[n] \in FunctionFrame <=> n = 1
  BY <1>2 DEF Frame, FunctionFrame, RecordFrame
<1>7. ASSUME NEW n \in 2 .. Len(stack)
      PROVE  /\ stack[n] \in RecordFrame /\ stack[n].of \in visited
             /\ FieldsIn(lib, stack[n]) = lib.layouts[1][stack[n].of]
  <2>1. n \in 1 .. Len(stack) /\ n # 1
    BY <1>1
  <2>2. lib.layouts[stack[n].header] = lib.layouts[1]
    BY <1>2, <1>3, <2>1
  <2> QED
    BY <1>2, <1>6, <2>1, <2>2 DEF Inv, TypeOK, Frame, FieldsIn
<1>8. 1 \in 1 .. Len(stack) /\ visited \subseteq Records
  BY <1>1 DEF Inv, TypeOK
<1> QED
  BY <1>1, <1>2, <1>4, <1>5, <1>6, <1>7, <1>8 DEF FieldsIn, FunctionFrame

\* A call that takes up a right answer to its current field stays exact.
LEMMA AnswerExact ==
  ASSUME lib \in Library, NEW frame \in Frame, frame.header \in DOMAIN lib.layouts,
         Judged(lib, frame), frame.sofar # "complex",
         frame.next \in DOMAIN FieldsIn(lib, frame),
         NEW answer \in Answers,
         LET f == FieldsIn(lib, frame)[frame.next] IN
           /\ Found(answer) <=> Bad(lib, f)
           /\ answer = "complex" <=> f.to \in Records /\ IsComplex(lib, f.to)
  PROVE  Judged(lib, Answered(frame, answer))
<1> DEFINE after == Answered(frame, answer)
           fields == FieldsIn(lib, frame)
           f == fields[frame.next]
           union == frame.of \in Unions
<1>1. after.of = frame.of /\ after.next = frame.next + 1 /\ after.sofar = Combine(frame, answer)
      /\ FieldsIn(lib, after) = fields
  <2>1. frame.of = "function" => frame \in FunctionFrame
    BY DEF Frame, RecordFrame
  <2> QED
    BY <2>1, AnsweredIs DEF FieldsIn
<1>2. fields \in Seq(Field) /\ frame.next \in Nat /\ frame.sofar \in {"none", "simple"}
  BY FieldsType DEF Frame, FunctionFrame, RecordFrame, Answers
<1>3. \A k \in DOMAIN fields : k < frame.next + 1 <=> k < frame.next \/ k = frame.next
  BY <1>2
<1>4. FieldsOf(frame) = fields
  BY DEF FieldsOf, FieldsIn
<1>5. /\ ~ \E k \in DOMAIN fields : k < frame.next /\ Twisted(lib, fields[k], union)
      /\ Found(frame.sofar) <=> \E k \in DOMAIN fields : k < frame.next /\ Bad(lib, fields[k])
  BY DEF Judged
<1>6. Combine(frame, answer) = "complex" <=> Twisted(lib, f, union)
  BY <1>2, <1>4 DEF Combine, Twisted, Found, Answers
<1>7. Found(Combine(frame, answer)) <=> Found(frame.sofar) \/ Bad(lib, f)
  BY <1>2 DEF Combine, Found, Answers
<1> HIDE DEF after, fields, f, union
<1>8. (\E k \in DOMAIN fields : k < frame.next + 1 /\ Twisted(lib, fields[k], union)) <=> Twisted(lib, f, union)
  BY <1>3, <1>5 DEF f, fields
<1>9. (\E k \in DOMAIN fields : k < frame.next + 1 /\ Bad(lib, fields[k])) <=> Found(frame.sofar) \/ Bad(lib, f)
  BY <1>3, <1>5 DEF f, fields
<1>10. Judged(lib, after)
  BY <1>1, <1>6, <1>7, <1>8, <1>9 DEF Judged, union
<1> QED
  BY <1>10 DEF after

\* What is answered of a record that is over is right of it.
LEMMA OverIsRight ==
  ASSUME Inv, Forested, stack # << >>, ~ InFunction, Over(Top), Judged(lib, Top)
  PROVE  Top.of \in Records /\ Right(lib, Top.of, Top.sofar)
<1> DEFINE r == Top.of
           fields == lib.layouts[1][r]
<1>1. /\ r \in Records /\ Top \in RecordFrame /\ FieldsIn(lib, Top) = fields /\ FieldsOf(Top) = fields
      /\ fields \in Seq(Field) /\ FieldsAnywhere(lib, r) = {fields[k] : k \in DOMAIN fields}
  <2>1. Len(stack) \in 2 .. Len(stack)
    BY ForestFrames DEF InFunction
  <2>2. Top \in RecordFrame /\ r \in visited /\ FieldsIn(lib, Top) = fields
    BY <2>1, ForestFrames
  <2> QED
    BY <2>2, ForestFrames, TopIs
<1>2. IsComplex(lib, r) <=> \E k \in DOMAIN fields : Twisted(lib, fields[k], r \in Unions)
  BY <1>1, ComplexByField
<1>3. LeadsToFunction(lib, r) <=> \E k \in DOMAIN fields : Bad(lib, fields[k])
  <2>1. LeadsToFunction(lib, r) => \E k \in DOMAIN fields : Bad(lib, fields[k])
    BY <1>1, LeadsByField
  <2>2. ASSUME NEW k \in DOMAIN fields, Bad(lib, fields[k]) PROVE LeadsToFunction(lib, r)
    <3>1. FieldsIn(lib, Top) = fields /\ Top.of # "function" /\ Top \in Frame /\ Top.header \in DOMAIN lib.layouts
      BY <1>1, TopIs
    <3>2. Justified(lib, FieldsIn(lib, Top)) /\ lib \in Library
      BY <2>2, <3>1 DEF Justified, Inv, Shape
    <3> QED
      BY <3>1, <3>2, FoundBelow
  <2> QED
    BY <2>1, <2>2
<1>4. /\ Top.sofar = "complex" <=> \E k \in DOMAIN fields : k < Top.next /\ Twisted(lib, fields[k], r \in Unions)
      /\ Found(Top.sofar) <=> \E k \in DOMAIN fields : k < Top.next /\ Bad(lib, fields[k])
  BY <1>1 DEF Judged
<1>5. CASE Top.sofar = "complex"
  <2>1. IsComplex(lib, r) /\ LeadsToFunction(lib, r)
    BY <1>1, <1>2, <1>4, <1>5, ComplexLeads
  <2> QED
    BY <1>1, <1>5, <2>1 DEF Right, Found
<1>6. CASE Top.next > Len(fields)
  <2>1. \A k \in DOMAIN fields : k < Top.next
    <3>1. Top.next \in Nat
      BY <1>1 DEF RecordFrame
    <3> QED
      BY <1>1, <1>6, <3>1
  <2> QED
    BY <1>1, <1>2, <1>3, <1>4, <2>1 DEF Right
<1> QED
  BY <1>1, <1>5, <1>6 DEF Over

\* The place a frame is at uses the record it is of.
LEMMA UseIs ==
  ASSUME NEW l, NEW q \in Records, NEW k \in DOMAIN l.layouts[1][q]
  PROVE  <<q, k>> \in UsesOf(l, l.layouts[1][q][k].to)
<1>1. <<q, k>> \in {q} \X DOMAIN l.layouts[1][q]
  OBVIOUS
<1>2. <<q, k>> \in UNION {{x} \X DOMAIN l.layouts[1][x] : x \in Records}
  BY <1>1
<1> QED
  BY <1>2 DEF UsesOf

\* A search does not meet a record twice.
LEMMA NotMetAgain ==
  ASSUME Inv, ForestInv, Forested, Len(stack) > 1, ~ Over(Top), Current.to \in Records
  PROVE  Current.to \notin visited
<1> DEFINE r == Current.to
           L == Len(stack)
           q == Top.of
           k == Top.next
<1> SUFFICES ASSUME r \in visited PROVE FALSE
  OBVIOUS
<1>0. stack # << >>
  OBVIOUS
<1>1. /\ L \in Nat /\ L > 1 /\ Top = stack[L] /\ L \in 2 .. L
      /\ q \in Records /\ FieldsIn(lib, Top) = lib.layouts[1][q] /\ Top \in RecordFrame
  <2>1. L \in Nat \ {0} /\ Top = stack[L]
    BY <1>0, ForestFrames
  <2>2. L \in 2 .. L
    BY <2>1
  <2> QED
    BY <1>0, <2>1, <2>2, ForestFrames
<1>2. k \in DOMAIN lib.layouts[1][q] /\ r = lib.layouts[1][q][k].to /\ <<q, k>> \in UsesOf(lib, r)
  <2>1. k \in DOMAIN FieldsIn(lib, Top) /\ r = FieldsIn(lib, Top)[k].to
    BY <1>0, TopIs
  <2> QED
    BY <1>1, <2>1, UseIs
<1>3. CASE r = stack[2].of
  <2> DEFINE S == {stack[n].of : n \in 2 .. L}
  <2>1. S \in (SUBSET Records) \ {{}} /\ q \in S
    <3>1. q \in S
      BY <1>1
    <3>2. S \subseteq Records
      BY <1>0, ForestFrames
    <3> QED
      BY <3>1, <3>2
  <2>2. PICK s \in S : \A u \in UsesOf(lib, s) : u[1] \notin S
    BY <2>1 DEF Forested, Forest
  <2>3. PICK n \in 2 .. L : s = stack[n].of
    OBVIOUS
  <2>4. CASE n = 2
    BY <1>2, <1>3, <2>1, <2>2, <2>3, <2>4
  <2>5. CASE n # 2
    <3> DEFINE p == stack[n - 1].of
               j == stack[n - 1].next
    <3>1. n - 1 \in 2 .. L
      BY <1>1, <2>5
    <3>2. FieldsIn(lib, stack[n - 1]) = lib.layouts[1][p] /\ p \in S /\ p \in Records
      BY <1>0, <3>1, ForestFrames
    <3>3. j \in DOMAIN lib.layouts[1][p] /\ lib.layouts[1][p][j].to = s
      BY <2>3, <3>2 DEF Inv, Calls
    <3>4. <<p, j>> \in UsesOf(lib, s)
      BY <3>2, <3>3, UseIs
    <3> QED
      BY <2>2, <3>2, <3>4
  <2> QED
    BY <2>4, <2>5
<1>4. CASE r # stack[2].of
  <2>0. PICK p \in visited :
          \E j \in DOMAIN lib.layouts[1][p] :
            /\ lib.layouts[1][p][j].to = r
            /\ \A n \in 2 .. L : stack[n].of = p => j < stack[n].next \/ (n < L /\ j = stack[n].next)
    BY <1>1, <1>4 DEF ForestInv, MetInPlace
  <2>1. PICK j \in DOMAIN lib.layouts[1][p] :
          /\ lib.layouts[1][p][j].to = r
          /\ \A n \in 2 .. L : stack[n].of = p => j < stack[n].next \/ (n < L /\ j = stack[n].next)
    BY <2>0
  <2>2. p \in Records
    BY DEF Inv, TypeOK
  <2>3. <<p, j>> \in UsesOf(lib, r)
    BY <2>1, <2>2, UseIs
  <2>4. p = q /\ j = k
    <3>1. <<p, j>> = <<q, k>>
      BY <1>2, <2>3 DEF Forested, Forest
    <3> QED
      BY <3>1
  <2>5. k < k \/ L < L
    BY <1>1, <2>1, <2>4
  <2>6. k \in Nat
    BY <1>1 DEF RecordFrame
  <2> QED
    BY <1>1, <2>5, <2>6
<1> QED
  BY <1>3, <1>4

LEMMA ForestNext ==
  ASSUME Inv, ForestInv, Forested, stack # << >>,
         stack' # << >> /\ Len(stack') > 1 => \A r \in visited' : MetInPlace(r)',
         Len(stack') \in Nat, DOMAIN stack' = 1 .. Len(stack'),
         \A n \in DOMAIN stack' : Judged(lib, stack'[n]) /\ (n < Len(stack') => stack'[n].sofar # "complex"),
         \A r \in DOMAIN records_map' : Right(lib, r, records_map'[r]),
         UNCHANGED <<lib, verdicts>>
  PROVE  ForestInv'
<1>1. ~ (stack' = << >> /\ Len(stack') > 1)
  OBVIOUS
<1>2. \A n \in DOMAIN verdicts' : verdicts'[n].answer = Truth(lib', verdicts'[n].types)
  BY DEF ForestInv
<1> QED
  BY <1>1, <1>2 DEF ForestInv

\* A search that begins is exact: it has found nothing in no fields.
LEMMA NewIsJudged ==
  ASSUME NEW l \in Library, NEW frame \in Frame, frame.header \in DOMAIN l.layouts,
         frame.next = 1, frame.sofar = "none"
  PROVE  Judged(l, frame)
<1>1. FieldsIn(l, frame) \in Seq(Field)
  BY FieldsType
<1>2. \A k \in DOMAIN FieldsIn(l, frame) : ~ (k < 1)
  BY <1>1
<1> QED
  BY <1>2 DEF Judged, Found

\* What is answered without a search is right.
LEMMA ReadyIsRight ==
  ASSUME Inv, ForestInv, Forested, stack # << >>, ~ Over(Top), ~ NeedsCall(Current.to)
  PROVE  LET to == Current.to IN
         /\ Ready(to) \in Answers
         /\ Found(Ready(to)) <=> Bad(lib, Current)
         /\ Ready(to) = "complex" <=> to \in Records /\ IsComplex(lib, to)
<1> DEFINE to == Current.to
<1>1. to \in Records \cup {"function", "plain"} /\ Ready(to) \in Answers
  BY TopIs, ReadyIs
<1>2. VisitedNow \subseteq Records /\ DOMAIN records_map \subseteq Records
  BY DEF Inv, TypeOK, VisitedNow
<1>3. CASE to \notin Records
  <2>1. Ready(to) = IF to = "plain" THEN "none" ELSE "simple"
    BY <1>1, <1>2, <1>3 DEF Ready
  <2> QED
    BY <1>1, <1>3, <2>1 DEF Found, Bad, Answers
<1>4. CASE to \in Records
  <2>1. to \notin VisitedNow
    <3>1. InFunction \/ Len(stack) > 1
      BY ForestFrames DEF InFunction
    <3> QED
      BY <1>4, <3>1, NotMetAgain DEF VisitedNow
  <2>2. to \in DOMAIN records_map
    BY <1>4, <2>1 DEF NeedsCall
  <2>3. to # "plain" /\ to # "function"
    BY <1>4
  <2>4. Ready(to) = records_map[to]
    BY <2>1, <2>2, <2>3 DEF Ready
  <2>5. Right(lib, to, Ready(to))
    BY <2>2, <2>4 DEF ForestInv
  <2> QED
    BY <1>1, <1>4, <2>3, <2>5 DEF Right, Bad
<1> QED
  BY <1>3, <1>4

LEMMA ForestLook == ASSUME Inv, ForestInv, Forested, Look PROVE ForestInv'
<1> DEFINE L == Len(stack)
           a == Ready(Current.to)
           e == Answered(Top, a)
<1>0. /\ stack # << >> /\ ~ Over(Top) /\ ~ NeedsCall(Current.to)
      /\ visited' = VisitedNow \cup ({Current.to} \cap Records)
      /\ UNCHANGED <<lib, todo, records_map, verdicts>>
  BY DEF Look
<1>1. /\ L \in Nat \ {0} /\ DOMAIN stack = 1 .. L /\ Top = stack[L] /\ Top \in Frame /\ Top.header \in DOMAIN lib.layouts
      /\ Top.next \in DOMAIN FieldsIn(lib, Top) /\ Current = FieldsIn(lib, Top)[Top.next]
  BY <1>0, TopIs, ForestFrames
<1>2. Top.sofar # "complex" /\ Judged(lib, Top) /\ lib \in Library
  BY <1>0, <1>1 DEF Over, ForestInv, Inv, Shape
<1>3. a \in Answers /\ (Found(a) <=> Bad(lib, Current))
      /\ (a = "complex" <=> Current.to \in Records /\ IsComplex(lib, Current.to))
  BY <1>0, ReadyIsRight
<1>4. Judged(lib, e)
  BY <1>1, <1>2, <1>3, AnswerExact
<1>5. e.of = Top.of /\ e.next = Top.next + 1
  BY <1>1, <1>3, AnsweredIs
<1>6. /\ stack' # << >> /\ Len(stack') = L /\ stack'[L] = e /\ \A n \in 1 .. L - 1 : stack'[n] = stack[n]
  BY StackAfter DEF Look
<1>7. DOMAIN stack' = 1 .. Len(stack')
  <2>1. Front(stack) \in Seq(Frame) /\ stack \in Seq(Frame) /\ e \in Frame /\ stack' = Append(Front(stack), e)
    <3>1. e \in Frame
      BY <1>0, <1>1, <1>3, TopIs, AnswerTaken DEF Inv, Shape, Justified
    <3>2. stack \in Seq(Frame)
      BY DEF Inv, Calls
    <3> QED
      BY <1>0, <3>1, <3>2, FrontIs DEF Look
  <2> HIDE DEF e
  <2> QED
    BY <2>1
<1> HIDE DEF e, a, L
<1>8. \A n \in DOMAIN stack' : Judged(lib, stack'[n]) /\ (n < Len(stack') => stack'[n].sofar # "complex")
  <2> SUFFICES ASSUME NEW n \in 1 .. L
               PROVE  Judged(lib, stack'[n]) /\ (n < L => stack'[n].sofar # "complex")
    BY <1>6, <1>7
  <2>1. CASE n = L
    BY <1>1, <1>4, <1>6, <2>1
  <2>2. CASE n # L
    <3>1. n \in 1 .. L - 1 /\ n \in DOMAIN stack /\ n < L
      BY <1>1, <2>2
    <3> QED
      BY <1>6, <3>1 DEF ForestInv, L
  <2> QED
    BY <2>1, <2>2
<1>9. ASSUME Len(stack') > 1, NEW r \in visited' PROVE MetInPlace(r)'
  <2>0. L > 1 /\ L \in 2 .. L /\ L \in 2 .. Len(stack)
    BY <1>1, <1>6, <1>9 DEF L
  <2>1. visited' = visited \cup ({Current.to} \cap Records)
    <3>1. L # 1
      BY <1>1, <2>0
    <3> QED
      BY <1>0, <3>1 DEF VisitedNow, InFunction, L
  <2>2. stack'[2].of = stack[2].of
    <3>1. CASE L = 2
      BY <1>1, <1>5, <1>6, <3>1
    <3>2. CASE L # 2
      <4>1. 2 \in 1 .. L - 1
        BY <1>1, <2>0, <3>2
      <4> QED
        BY <1>6, <4>1
    <3> QED
      BY <3>1, <3>2
  <2>3. Top \in RecordFrame /\ Top.of \in visited /\ FieldsIn(lib, Top) = lib.layouts[1][Top.of] /\ Top.next \in Nat
    <3>1. Top \in RecordFrame /\ Top.of \in visited /\ FieldsIn(lib, Top) = lib.layouts[1][Top.of]
      BY <1>0, <1>1, <2>0, ForestFrames
    <3> QED
      BY <3>1 DEF RecordFrame
  <2>4. CASE r \in visited
    <3>1. CASE r = stack[2].of
      BY <2>2, <3>1 DEF MetInPlace
    <3>2. CASE r # stack[2].of
      <4>1. PICK q \in visited :
              \E k \in DOMAIN lib.layouts[1][q] :
                /\ lib.layouts[1][q][k].to = r
                /\ \A n \in 2 .. L : stack[n].of = q => k < stack[n].next \/ (n < L /\ k = stack[n].next)
        BY <2>0, <2>4, <3>2 DEF ForestInv, MetInPlace, L
      <4>2. PICK k \in DOMAIN lib.layouts[1][q] :
              /\ lib.layouts[1][q][k].to = r
              /\ \A n \in 2 .. L : stack[n].of = q => k < stack[n].next \/ (n < L /\ k = stack[n].next)
        BY <4>1
      <4>3. k \in Nat
        <5>1. lib.layouts[1][q] \in Seq(Field)
          BY <1>0, ForestFrames
        <5> QED
          BY <4>2, <5>1
      <4>4. ASSUME NEW n \in 2 .. L, stack'[n].of = q
            PROVE  k < stack'[n].next \/ (n < L /\ k = stack'[n].next)
        <5>1. CASE n = L
          <6>1. k < Top.next
            BY <1>1, <1>5, <1>6, <4>2, <4>4, <5>1
          <6> QED
            BY <1>1, <1>5, <1>6, <2>3, <4>3, <5>1, <6>1
        <5>2. CASE n # L
          <6>1. n \in 1 .. L - 1
            BY <1>1, <5>2
          <6> QED
            BY <1>6, <4>2, <4>4, <6>1
        <5> QED
          BY <5>1, <5>2
      <4> QED
        BY <1>0, <1>6, <2>1, <4>2, <4>4 DEF MetInPlace
    <3> QED
      BY <3>1, <3>2
  <2>5. CASE r = Current.to
    <3> DEFINE q == Top.of
               k == Top.next
    <3>1. q \in visited' /\ k \in DOMAIN lib'.layouts[1][q] /\ lib'.layouts[1][q][k].to = r
      BY <1>0, <1>1, <2>1, <2>3, <2>5
    <3>2. ASSUME NEW n \in 2 .. L, stack'[n].of = q PROVE k < stack'[n].next
      <4>1. n = L
        <5>1. stack[n].of = stack[L].of
          <6>1. CASE n # L
            <7>1. n \in 1 .. L - 1
              BY <1>1, <6>1
            <7> QED
              BY <1>1, <1>6, <3>2, <7>1
          <6> QED
            BY <6>1
        <5> QED
          BY <2>0, <5>1 DEF Inv, Calls, L
      <4> QED
        BY <1>5, <1>6, <2>3, <4>1
    <3> HIDE DEF q, k
    <3> QED
      BY <1>6, <3>1, <3>2 DEF MetInPlace
  <2> QED
    BY <2>1, <2>4, <2>5
<1>10. \A r \in DOMAIN records_map' : Right(lib, r, records_map'[r])
  BY <1>0 DEF ForestInv
<1> QED
  BY <1>0, <1>1, <1>6, <1>7, <1>8, <1>9, <1>10, ForestNext

LEMMA ForestEnter == ASSUME Inv, ForestInv, Forested, Enter PROVE ForestInv'
<1> DEFINE L == Len(stack)
           to == Current.to
           e == [of |-> to, header |-> Top.header, next |-> 1, sofar |-> "none"]
<1>0. /\ stack # << >> /\ ~ Over(Top) /\ NeedsCall(to) /\ stack' = Append(stack, e)
      /\ visited' = VisitedNow \cup {to} /\ UNCHANGED <<lib, todo, records_map, verdicts>>
  BY DEF Enter
<1>1. /\ L \in Nat \ {0} /\ DOMAIN stack = 1 .. L /\ Top = stack[L] /\ Top \in Frame /\ Top.header \in DOMAIN lib.layouts
      /\ Top.next \in DOMAIN FieldsIn(lib, Top) /\ Current = FieldsIn(lib, Top)[Top.next]
      /\ stack \in Seq(Frame) /\ lib \in Library
  BY <1>0, TopIs, ForestFrames DEF Inv, Calls, Shape
<1>2. to \in Records /\ to \notin VisitedNow
  BY <1>0 DEF NeedsCall
<1>3. e \in Frame /\ e.of = to /\ e.next = 1 /\ e.sofar = "none" /\ e.header = Top.header
  <2>1. Top.header \in Nat
    BY <1>1 DEF Frame, FunctionFrame, RecordFrame
  <2> QED
    BY <1>2, <2>1 DEF Frame, RecordFrame, Answers
<1>4. Judged(lib, e)
  BY <1>1, <1>3, NewIsJudged
<1>5. Top.sofar # "complex"
  BY <1>0 DEF Over
<1> HIDE DEF e, L, to
<1>6. /\ Len(stack') = L + 1 /\ stack'[L + 1] = e /\ DOMAIN stack' = 1 .. L + 1 /\ stack' # << >>
      /\ \A n \in 1 .. L : stack'[n] = stack[n]
  BY <1>0, <1>1, <1>3 DEF L
<1>7. \A n \in DOMAIN stack' : Judged(lib, stack'[n]) /\ (n < Len(stack') => stack'[n].sofar # "complex")
  <2> SUFFICES ASSUME NEW n \in 1 .. L + 1
               PROVE  Judged(lib, stack'[n]) /\ (n < L + 1 => stack'[n].sofar # "complex")
    BY <1>6
  <2>1. CASE n = L + 1
    BY <1>1, <1>4, <1>6, <2>1
  <2>2. CASE n = L
    BY <1>1, <1>5, <1>6, <2>2 DEF ForestInv
  <2>3. CASE n # L + 1 /\ n # L
    <3>1. n \in DOMAIN stack /\ n \in 1 .. L /\ n < L
      BY <1>1, <2>3
    <3> QED
      BY <1>6, <3>1 DEF ForestInv, L
  <2> QED
    BY <2>1, <2>2, <2>3
<1>8. ASSUME NEW r \in visited' PROVE MetInPlace(r)'
  <2>1. CASE L = 1
    <3>1. visited' = {to} /\ stack'[2] = e
      BY <1>0, <1>6, <2>1 DEF VisitedNow, InFunction, L
    <3> QED
      BY <1>3, <1>8, <3>1 DEF MetInPlace
  <2>2. CASE L # 1
    <3>0. L > 1 /\ L \in 2 .. L /\ 2 \in 1 .. L /\ L \in 2 .. Len(stack)
      BY <1>1, <2>2 DEF L
    <3>1. visited' = visited \cup {to} /\ to \notin visited
      BY <1>0, <1>2, <2>2 DEF VisitedNow, InFunction, L
    <3>2. Top \in RecordFrame /\ Top.of \in visited /\ FieldsIn(lib, Top) = lib.layouts[1][Top.of] /\ Top.next \in Nat
      <4>1. Top \in RecordFrame /\ Top.of \in visited /\ FieldsIn(lib, Top) = lib.layouts[1][Top.of]
        BY <1>0, <1>1, <3>0, ForestFrames
      <4> QED
        BY <4>1 DEF RecordFrame
    <3>3. \A q \in visited : \A n \in 2 .. L + 1 : stack'[n].of = q => n \in 2 .. L /\ stack[n].of = q /\ stack'[n] = stack[n]
      <4> SUFFICES ASSUME NEW q \in visited, NEW n \in 2 .. L + 1, stack'[n].of = q
                   PROVE  n \in 2 .. L /\ stack[n].of = q /\ stack'[n] = stack[n]
        OBVIOUS
      <4>1. n # L + 1
        BY <1>3, <1>6, <3>1
      <4>2. n \in 2 .. L /\ n \in 1 .. L
        BY <1>1, <4>1
      <4> QED
        BY <1>6, <4>2
    <3>4. CASE r \in visited
      <4>1. CASE r = stack[2].of
        BY <1>6, <3>0, <4>1 DEF MetInPlace
      <4>2. CASE r # stack[2].of
        <5>1. PICK q \in visited :
                \E k \in DOMAIN lib.layouts[1][q] :
                  /\ lib.layouts[1][q][k].to = r
                  /\ \A n \in 2 .. L : stack[n].of = q => k < stack[n].next \/ (n < L /\ k = stack[n].next)
          BY <3>0, <3>4, <4>2 DEF ForestInv, MetInPlace, L
        <5>2. PICK k \in DOMAIN lib.layouts[1][q] :
                /\ lib.layouts[1][q][k].to = r
                /\ \A n \in 2 .. L : stack[n].of = q => k < stack[n].next \/ (n < L /\ k = stack[n].next)
          BY <5>1
        <5>3. \A n \in 2 .. L : n < L + 1
          BY <1>1
        <5>4. \A n \in 2 .. L + 1 : stack'[n].of = q => k < stack'[n].next \/ (n < L + 1 /\ k = stack'[n].next)
          BY <3>3, <5>2, <5>3
        <5> QED
          BY <1>0, <1>6, <3>1, <5>2, <5>4 DEF MetInPlace
      <4> QED
        BY <4>1, <4>2
    <3>5. CASE r = to
      <4> DEFINE q == Top.of
                 k == Top.next
      <4>1. q \in visited' /\ q \in visited /\ k \in DOMAIN lib'.layouts[1][q] /\ lib'.layouts[1][q][k].to = r
        BY <1>0, <1>1, <3>1, <3>2, <3>5 DEF to
      <4>2. ASSUME NEW n \in 2 .. L + 1, stack'[n].of = q PROVE n < L + 1 /\ k = stack'[n].next
        <5>1. n \in 2 .. L /\ stack[n].of = stack[L].of /\ stack'[n] = stack[n]
          BY <1>1, <3>3, <4>1, <4>2
        <5>2. n = L
          BY <3>0, <5>1 DEF Inv, Calls, L
        <5> QED
          BY <1>1, <5>1, <5>2
      <4> HIDE DEF q, k
      <4> QED
        BY <1>6, <4>1, <4>2 DEF MetInPlace
    <3> QED
      BY <1>8, <3>1, <3>4, <3>5
  <2> QED
    BY <2>1, <2>2
<1>9. \A r \in DOMAIN records_map' : Right(lib, r, records_map'[r])
  BY <1>0 DEF ForestInv
<1>10. Len(stack') \in Nat /\ DOMAIN stack' = 1 .. Len(stack')
  BY <1>1, <1>6
<1> QED
  BY <1>0, <1>7, <1>8, <1>9, <1>10, ForestNext

LEMMA ForestReturn == ASSUME Inv, ForestInv, Forested, Return PROVE ForestInv'
<1> DEFINE L == Len(stack)
           a == Top.sofar
           r == Top.of
           below == stack[L - 1]
           e == Answered(below, a)
<1>0. /\ stack # << >> /\ L > 1 /\ Over(Top) /\ records_map' = Remembering(r, a)
      /\ UNCHANGED <<lib, todo, visited, verdicts>>
  BY DEF Return
<1>1. /\ L \in Nat \ {0, 1} /\ DOMAIN stack = 1 .. L /\ Top = stack[L] /\ L \in 2 .. Len(stack)
      /\ L - 1 \in DOMAIN stack /\ below \in Frame /\ below.header \in DOMAIN lib.layouts
      /\ stack \in Seq(Frame) /\ lib \in Library /\ a \in Answers
  <2>1. L \in Nat \ {0, 1} /\ DOMAIN stack = 1 .. L /\ Top = stack[L] /\ stack \in Seq(Frame)
    <3>1. L \in Nat \ {0} /\ DOMAIN stack = 1 .. L /\ Top = stack[L]
      BY <1>0, ForestFrames
    <3>2. stack \in Seq(Frame)
      BY DEF Inv, Calls
    <3> QED
      BY <1>0, <3>1, <3>2
  <2>2. L - 1 \in DOMAIN stack /\ L \in DOMAIN stack /\ L \in 2 .. Len(stack)
    BY <2>1
  <2>3. below \in Frame /\ below.header \in DOMAIN lib.layouts
    <3>1. L - 1 \in 1 .. Len(stack)
      BY <2>1
    <3>2. \A n \in DOMAIN stack : stack[n].header \in DOMAIN lib.layouts
      BY DEF Inv, Calls
    <3> QED
      BY <1>0, <2>2, <3>1, <3>2, ForestFrames
  <2>4. lib \in Library /\ a \in Answers
    BY <2>1, <2>2 DEF Inv, TypeOK, Shape
  <2> QED
    BY <2>1, <2>2, <2>3, <2>4
<1>2. Right(lib, r, a) /\ r \in Records
  <2>1. ~ InFunction
    BY <1>1 DEF InFunction
  <2>2. Judged(lib, Top)
    BY <1>1 DEF ForestInv
  <2> QED
    BY <1>0, <2>1, <2>2, OverIsRight
<1>3. below.next \in DOMAIN FieldsIn(lib, below) /\ FieldsIn(lib, below)[below.next].to = r
  BY <1>1 DEF Inv, Calls
<1>4. Judged(lib, below) /\ below.sofar # "complex"
  <2>1. L - 1 < Len(stack)
    BY <1>1
  <2> QED
    BY <1>1, <2>1 DEF ForestInv
<1>5. Judged(lib, e)
  <2>1. LET f == FieldsIn(lib, below)[below.next] IN
          (Found(a) <=> Bad(lib, f)) /\ (a = "complex" <=> f.to \in Records /\ IsComplex(lib, f.to))
    BY <1>2, <1>3 DEF Right, Bad
  <2> QED
    BY <1>1, <1>3, <1>4, <2>1, AnswerExact
<1>6. e.of = below.of /\ e.next = below.next + 1
  BY <1>1, AnsweredIs
<1>7. /\ Len(stack') = L - 1 /\ stack'[L - 1] = e /\ stack' # << >>
      /\ \A n \in 1 .. L - 2 : stack'[n] = stack[n]
  BY StackAfter DEF Return
<1>8. DOMAIN stack' = 1 .. Len(stack') /\ Len(stack') \in Nat
  <2>1. stack' \in Seq(Frame)
    <3> DEFINE f == Front(stack)
    <3>1. f \in Seq(Frame) /\ f # << >>
      <4>1. f \in Seq(Frame) /\ Len(f) = L - 1
        BY <1>0, <1>1, FrontIs
      <4> QED
        BY <1>1, <4>1
    <3>2. Front(f) \in Seq(Frame) /\ stack' = Append(Front(f), e)
      BY <3>1, FrontIs DEF Return
    <3>3. e \in Frame
      <4>1. Found(a) => Bad(lib, FieldsIn(lib, below)[below.next])
        BY <1>2, <1>3 DEF Right, Bad
      <4>2. Found(below.sofar) => Justified(lib, FieldsIn(lib, below))
        BY <1>1 DEF Inv, Calls
      <4> QED
        BY <1>1, <1>3, <4>1, <4>2, AnswerTaken
    <3> HIDE DEF f, e
    <3> QED
      BY <3>2, <3>3
  <2> QED
    BY <2>1
<1> HIDE DEF e, a, r, below, L
<1>9. \A n \in DOMAIN stack' : Judged(lib, stack'[n]) /\ (n < Len(stack') => stack'[n].sofar # "complex")
  <2> SUFFICES ASSUME NEW n \in 1 .. L - 1
               PROVE  Judged(lib, stack'[n]) /\ (n < L - 1 => stack'[n].sofar # "complex")
    BY <1>7, <1>8
  <2>1. CASE n = L - 1
    BY <1>1, <1>5, <1>7, <2>1
  <2>2. CASE n # L - 1
    <3>1. n \in 1 .. L - 2 /\ n \in DOMAIN stack /\ n < L
      BY <1>1, <2>2
    <3> QED
      BY <1>7, <3>1 DEF ForestInv, L
  <2> QED
    BY <2>1, <2>2
<1>10. \A x \in DOMAIN records_map' : Right(lib, x, records_map'[x])
  BY <1>0, <1>2 DEF ForestInv, Remembering
<1>11. ASSUME Len(stack') > 1, NEW x \in visited' PROVE MetInPlace(x)'
  <2>0. L > 2 /\ L - 1 \in 2 .. L - 1 /\ L - 1 \in 2 .. Len(stack) /\ L - 1 < L
    BY <1>1, <1>7, <1>11 DEF L
  <2>1. stack'[2].of = stack[2].of
    <3>1. CASE L = 3
      BY <1>6, <1>7, <3>1 DEF below
    <3>2. CASE L # 3
      <4>1. 2 \in 1 .. L - 2
        BY <1>1, <2>0, <3>2
      <4> QED
        BY <1>7, <4>1
    <3> QED
      BY <3>1, <3>2
  <2>2. below \in RecordFrame /\ below.next \in Nat
    <3>1. below \in RecordFrame
      BY <1>0, <2>0, ForestFrames DEF below
    <3> QED
      BY <3>1 DEF RecordFrame
  <2>3. CASE x = stack[2].of
    BY <2>1, <2>3 DEF MetInPlace
  <2>4. CASE x # stack[2].of
    <3>1. PICK q \in visited :
            \E k \in DOMAIN lib.layouts[1][q] :
              /\ lib.layouts[1][q][k].to = x
              /\ \A n \in 2 .. L : stack[n].of = q => k < stack[n].next \/ (n < L /\ k = stack[n].next)
      BY <1>0, <1>11, <2>4 DEF ForestInv, MetInPlace, L
    <3>2. PICK k \in DOMAIN lib.layouts[1][q] :
            /\ lib.layouts[1][q][k].to = x
            /\ \A n \in 2 .. L : stack[n].of = q => k < stack[n].next \/ (n < L /\ k = stack[n].next)
      BY <3>1
    <3>3. k \in Nat
      <4>1. lib.layouts[1][q] \in Seq(Field)
        BY <1>0, ForestFrames
      <4> QED
        BY <3>2, <4>1
    <3>4. ASSUME NEW n \in 2 .. L - 1, stack'[n].of = q
          PROVE  k < stack'[n].next \/ (n < L - 1 /\ k = stack'[n].next)
      <4>0. n \in 2 .. L
        BY <1>1
      <4>1. CASE n = L - 1
        <5>1. stack[n].of = q /\ stack[n] = below
          BY <1>6, <1>7, <3>4, <4>1 DEF below
        <5>2. k < below.next \/ k = below.next
          BY <3>2, <4>0, <5>1
        <5>3. k < below.next + 1
          BY <2>2, <3>3, <5>2
        <5> QED
          BY <1>6, <1>7, <4>1, <5>3
      <4>2. CASE n # L - 1
        <5>1. n \in 1 .. L - 2 /\ n < L - 1
          BY <1>1, <4>2
        <5> QED
          BY <1>7, <3>2, <3>4, <4>0, <5>1
      <4> QED
        BY <4>1, <4>2
    <3> QED
      BY <1>0, <1>7, <3>2, <3>4 DEF MetInPlace
  <2> QED
    BY <2>3, <2>4
<1> QED
  BY <1>0, <1>8, <1>9, <1>10, <1>11, ForestNext

LEMMA ForestTake == ASSUME Inv, ForestInv, Forested, Take PROVE ForestInv'
<1> DEFINE e == [of |-> "function", name |-> Head(todo).name, types |-> Head(todo).types,
                 header |-> Head(todo).header, next |-> 1, sofar |-> "none"]
<1>1. /\ UNCHANGED <<lib, visited, records_map, verdicts>> /\ (stack' = << >> \/ stack' = <<e>>)
      /\ lib \in Library
  BY DEF Take, Inv, Shape
<1>2. e \in Frame /\ e.header \in DOMAIN lib.layouts /\ e.next = 1 /\ e.sofar = "none"
  <2>1. Head(todo) \in Decl /\ Head(todo).header \in DOMAIN lib.layouts
    BY DEF Take, Inv, Shape
  <2> QED
    BY <2>1 DEF Decl, Frame, FunctionFrame, Answers
<1>3. Judged(lib, e)
  BY <1>1, <1>2, NewIsJudged
<1> HIDE DEF e
<1>4. /\ ~ (Len(stack') > 1)
      /\ \A n \in DOMAIN stack' : stack'[n] = e /\ ~ (n < Len(stack'))
  <2>1. CASE stack' = << >>
    BY <2>1
  <2>2. CASE stack' = <<e>>
    <3>1. DOMAIN stack' = {1} /\ Len(stack') = 1 /\ stack'[1] = e
      BY <2>2
    <3> QED
      BY <3>1
  <2> QED
    BY <1>1, <2>1, <2>2
<1>5. \A n \in DOMAIN stack' : Judged(lib', stack'[n]) /\ (n < Len(stack') => stack'[n].sofar # "complex")
  BY <1>1, <1>3, <1>4
<1> QED
  BY <1>1, <1>4, <1>5 DEF ForestInv

LEMMA ForestFinish == ASSUME Inv, ForestInv, Forested, Finish PROVE ForestInv'
<1> DEFINE v == [name |-> Top.name, header |-> Top.header, types |-> Top.types, answer |-> Top.sofar]
           V == [name : STRING, header : Nat, types : Seq(Field), answer : Answers]
           types == Top.types
<1>1. /\ stack # << >> /\ Len(stack) = 1 /\ Over(Top) /\ stack' = << >> /\ verdicts' = Append(verdicts, v)
      /\ UNCHANGED <<lib, todo, visited, records_map>> /\ verdicts \in Seq(V)
  BY DEF Finish, InFunction, Inv, Shape
<1>2. /\ Top = stack[1] /\ Top \in FunctionFrame /\ FieldsIn(lib, Top) = types /\ FieldsOf(Top) = types
      /\ 1 \in DOMAIN stack /\ types \in Seq(Field) /\ Top.next \in Nat /\ Top.sofar \in Answers
      /\ Top.of = "function"
  <2>1. Top = stack[1] /\ Top \in FunctionFrame /\ FieldsIn(lib, Top) = types /\ 1 \in DOMAIN stack
    BY <1>1, ForestFrames
  <2> QED
    BY <2>1 DEF FunctionFrame, FieldsIn, FieldsOf
<1>3. v \in V /\ v.types = types /\ v.answer = Top.sofar
  <2>1. Top \in [of : {"function"}, name : STRING, types : Seq(Field),
                 header : Nat, next : Nat \ {0}, sofar : Answers]
    BY <1>2 DEF FunctionFrame
  <2> QED
    BY <2>1
<1> HIDE DEF v, V, types
<1>4. ~ (Top.of \in Unions)
  BY <1>2
<1>5. /\ Top.sofar = "complex" <=> \E k \in DOMAIN types : k < Top.next /\ Twisted(lib, types[k], FALSE)
      /\ Found(Top.sofar) <=> \E k \in DOMAIN types : k < Top.next /\ Bad(lib, types[k])
  <2>1. Judged(lib, Top)
    BY <1>2 DEF ForestInv
  <2>2. \A f : Twisted(lib, f, Top.of \in Unions) <=> Twisted(lib, f, FALSE)
    BY <1>4 DEF Twisted
  <2> QED
    BY <1>2, <2>1, <2>2 DEF Judged
<1>6. Truth(lib, types) = IF \E k \in DOMAIN types : Twisted(lib, types[k], FALSE) THEN "complex"
                          ELSE IF \E k \in DOMAIN types : Bad(lib, types[k]) THEN "simple" ELSE "none"
  BY DEF Truth, Twisted
<1>7. v.answer = Truth(lib, v.types)
  <2>1. CASE Top.sofar = "complex"
    BY <1>3, <1>5, <1>6, <2>1
  <2>2. CASE Top.sofar # "complex"
    <3>1. \A k \in DOMAIN types : k < Top.next
      <4>1. Top.next > Len(types)
        BY <1>1, <1>2, <2>2 DEF Over
      <4> QED
        BY <1>2, <4>1
    <3>2. Truth(lib, types) = IF Found(Top.sofar) THEN "simple" ELSE "none"
      BY <1>5, <1>6, <2>2, <3>1
    <3> QED
      BY <1>2, <1>3, <2>2, <3>2 DEF Found, Answers
  <2> QED
    BY <2>1, <2>2
<1>8. \A n \in DOMAIN verdicts' : verdicts'[n] = v \/ (n \in DOMAIN verdicts /\ verdicts'[n] = verdicts[n])
  BY <1>1, <1>3
<1>9. \A n \in DOMAIN verdicts' : verdicts'[n].answer = Truth(lib', verdicts'[n].types)
  BY <1>1, <1>7, <1>8 DEF ForestInv
<1>10. DOMAIN stack' = {} /\ ~ (Len(stack') > 1)
  BY <1>1
<1> QED
  BY <1>1, <1>9, <1>10 DEF ForestInv

LEMMA ForestStep == ASSUME Inv, ForestInv, Step PROVE ForestInv'
<1>1. lib' = lib
  BY DEF Step, Take, Look, Enter, Return, Finish
<1>2. CASE Forested
  BY <1>2, ForestTake, ForestLook, ForestEnter, ForestReturn, ForestFinish DEF Step
<1>3. CASE ~ Forested
  <2>1. ~ Forested'
    BY <1>1, <1>3 DEF Forested
  <2> QED
    BY <2>1 DEF ForestInv
<1> QED
  BY <1>2, <1>3

LEMMA ForestStarted == ASSUME NEW l, Start(l) PROVE ForestInv'
<1>1. DOMAIN stack' = {} /\ ~ (Len(stack') > 1) /\ DOMAIN verdicts' = {} /\ DOMAIN records_map' = {}
  BY DEF Start
<1> QED
  BY <1>1 DEF ForestInv

LEMMA ForestUntouched == ASSUME ForestInv, UNCHANGED scanVars PROVE ForestInv'
<1>1. /\ lib' = lib /\ stack' = stack /\ visited' = visited /\ records_map' = records_map /\ verdicts' = verdicts
  BY DEF scanVars
<1>2. Forested' <=> Forested
  BY <1>1 DEF Forested
<1>3. \A r : MetInPlace(r)' <=> MetInPlace(r)
  BY <1>1 DEF MetInPlace
<1> QED
  BY <1>1, <1>2, <1>3 DEF ForestInv

LEMMA ForestInit == AtStart => ForestInv
<1> SUFFICES ASSUME AtStart PROVE ForestInv
  OBVIOUS
<1>1. ~ Forested
  BY DEF AtStart, Fresh, Forested
<1> QED
  BY <1>1 DEF ForestInv

LEMMA ForestsNext == Inv /\ ForestInv /\ [Next]_vars => ForestInv'
<1> SUFFICES ASSUME Inv, ForestInv, [Next]_vars PROVE ForestInv'
  OBVIOUS
<1>1. CASE Begin \/ Crash
  BY <1>1, ForestStarted DEF Begin, Crash
<1>2. CASE Scan
  BY <1>2, ForestStep DEF Scan
<1>3. CASE Pass \/ Open \/ Write \/ Exit \/ Table \/ Done \/ UNCHANGED vars
  <2>1. UNCHANGED scanVars
    BY <1>3 DEF Pass, Open, Write, Exit, Table, Done, vars
  <2> QED
    BY <2>1, ForestUntouched
<1> QED
  BY <1>1, <1>2, <1>3 DEF Next, Work

LEMMA ForestAlways == Spec => []ForestInv
BY InitAtStart, ForestInit, ForestsNext, Always, PTL DEF Spec

\* Where each record is used in one place, none is below itself, and the headers
\* agree, no verdict is too mild or too harsh: what visited_spellings cuts short
\* and what records_map answers is never anything else than a search would.
THEOREM ExactAnswers == Spec => []ExactOnForests
<1>1. ForestInv => ExactOnForests
  BY DEF ForestInv, Forested, ExactOnForests
<1> QED
  BY <1>1, ForestAlways, PTL

-----------------------------------------------------------------------------
(* What the filter hands on of a package.                                  *)

LEMMA PickedAre ==
  ASSUME NEW S, NEW s \in Seq(S), NEW places
  PROVE  /\ Picked(s, places) \in Seq(S)
         /\ Range(Picked(s, places)) = {s[n] : n \in DOMAIN s \cap places}
<1> DEFINE ss == [n \in DOMAIN s |-> IF n \in places THEN <<s[n]>> ELSE << >>]
<1>1. Len(s) \in Nat /\ DOMAIN s = 1 .. Len(s) /\ \A n \in DOMAIN s : s[n] \in S
  OBVIOUS
<1>2. \A n \in DOMAIN s : /\ ss[n] \in Seq(S)
                          /\ n \in places => Range(ss[n]) = {s[n]}
                          /\ n \notin places => Range(ss[n]) = {}
  <2> SUFFICES ASSUME NEW n \in DOMAIN s
               PROVE  /\ ss[n] \in Seq(S)
                      /\ n \in places => Range(ss[n]) = {s[n]}
                      /\ n \notin places => Range(ss[n]) = {}
    OBVIOUS
  <2>1. CASE n \in places
    BY <1>1, <2>1 DEF Range
  <2>2. CASE n \notin places
    BY <2>2 DEF Range
  <2> QED
    BY <2>1, <2>2
<1>3. DOMAIN ss = 1 .. Len(s) /\ ss \in [1 .. Len(s) -> Seq(S)]
  BY <1>1, <1>2
<1>4. Picked(s, places) = FlattenSeq(ss)
  BY DEF Picked
<1> HIDE DEF ss
<1>5. ss \in Seq(Seq(S))
  BY <1>1, <1>3, IsSeq
<1>6. /\ FlattenSeq(ss) \in Seq(S)
      /\ Range(FlattenSeq(ss)) = UNION {Range(ss[k]) : k \in DOMAIN ss}
  BY <1>5, FlattenElements
<1>7. UNION {Range(ss[k]) : k \in DOMAIN ss} = {s[n] : n \in DOMAIN s \cap places}
  <2>1. \A k \in DOMAIN ss : Range(ss[k]) = IF k \in places THEN {s[k]} ELSE {}
    BY <1>1, <1>2, <1>3
  <2>2. DOMAIN ss = DOMAIN s
    BY <1>1, <1>3
  <2>3. \A x \in UNION {Range(ss[k]) : k \in DOMAIN ss} : x \in {s[n] : n \in DOMAIN s \cap places}
    BY <2>1, <2>2
  <2>4. \A n \in DOMAIN s \cap places : s[n] \in Range(ss[n]) /\ n \in DOMAIN ss
    BY <2>1, <2>2
  <2> QED
    BY <2>3, <2>4
<1> QED
  BY <1>4, <1>6, <1>7

\* The headers that are compiled with success are those that ought to be
\* counted, in whatever order dpkg lists the files, each of them at least once.
LEMMA HeadersAre ==
  ASSUME NEW p \in Package
  PROVE  ValidHeaders(p) \in Seq(File) /\ Range(ValidHeaders(p)) = Counted(p)
<1> DEFINE s == p.files
           given == FlagsOf(p, OfExt(p, "pc"))
           places == {n \in Distinct(p, OfExt(p, "h")) : s[n].flags \subseteq given}
           there == {f \in Range(s) : f.exists /\ ~ f.dotted}
<1>1. s \in Seq(File) /\ DOMAIN s \subseteq Nat
  BY DEF Package
<1>2. \A n \in DOMAIN s : s[n] \in File
  BY <1>1
<1>3. \A n \in DOMAIN s : /\ s[n].dotted \in BOOLEAN /\ s[n].exists \in BOOLEAN /\ s[n].works \in BOOLEAN
                          /\ n \in OfExt(p, "pc") <=> s[n].exists /\ ~ s[n].dotted /\ s[n].suffix = "pc"
                          /\ n \in OfExt(p, "h") <=> s[n].exists /\ ~ s[n].dotted /\ s[n].suffix = "h"
  BY <1>2 DEF OfExt, Ext, File
<1>4. OfExt(p, "h") \subseteq DOMAIN s /\ OfExt(p, "pc") \subseteq DOMAIN s
  BY DEF OfExt
<1>5. given = UNION {f.flags : f \in {f \in there : f.suffix = "pc" /\ f.works}}
  BY <1>3, <1>4 DEF FlagsOf, Range
<1> DEFINE counted == {f \in there : f.suffix = "h" /\ f.flags \subseteq given}
<1>6. Counted(p) = counted
  BY <1>5 DEF Counted
<1>7. ValidHeaders(p) = Picked(s, places)
  BY DEF ValidHeaders
<1>8. ValidHeaders(p) \in Seq(File) /\ Range(ValidHeaders(p)) = {s[n] : n \in DOMAIN s \cap places}
  BY <1>1, <1>7, PickedAre
<1> HIDE DEF given
<1>9. {s[n] : n \in DOMAIN s \cap places} \subseteq counted
  BY <1>3 DEF Distinct, Range
<1>10. ASSUME NEW f \in counted PROVE f \in {s[n] : n \in DOMAIN s \cap places}
  <2> DEFINE T == {n \in OfExt(p, "h") : s[n] = f}
  <2>1. T # {} /\ T \subseteq Nat
    BY <1>1, <1>3, <1>4 DEF Range
  <2> HIDE DEF T
  <2>2. PICK m \in T : \A k \in T : m <= k
    BY <2>1, LeastNatural
  <2>3. \A k \in OfExt(p, "h") : k < m => s[k] # s[m]
    BY <1>1, <1>4, <2>1, <2>2 DEF T
  <2>4. m \in Distinct(p, OfExt(p, "h")) /\ s[m] = f
    BY <2>2, <2>3 DEF Distinct, T
  <2> QED
    BY <1>4, <2>2, <2>4 DEF T
<1> QED
  BY <1>6, <1>8, <1>9, <1>10

LEMMA LoadedAre ==
  ASSUME NEW hs \in Seq(File)
  PROVE  Loaded(hs) \in Seq(File) /\ Range(Loaded(hs)) = {h \in Range(hs) : h.works}
<1> DEFINE places == {n \in DOMAIN hs : hs[n].works}
<1>1. Loaded(hs) = Picked(hs, places)
  BY DEF Loaded
<1>2. {hs[n] : n \in DOMAIN hs \cap places} = {h \in Range(hs) : h.works}
  BY DEF Range
<1> HIDE DEF places
<1> QED
  BY <1>1, <1>2, PickedAre

\* d and e are as the table sees them the same.
Alike(d, e) == d.name = e.name /\ d.args = e.args /\ d.variadic = e.variadic

\* What is found in headers: a library, with what the headers declare.
LEMMA ContentsAre ==
  ASSUME NEW hs \in Seq(File)
  PROVE  /\ Contents(hs) \in Library
         /\ \A d \in Range(Contents(hs).decls) : \E h \in Range(hs) : \E k \in DOMAIN h.decls : Alike(d, h.decls[k])
         /\ \A h \in Range(hs) : \A k \in DOMAIN h.decls : \E d \in Range(Contents(hs).decls) : Alike(d, h.decls[k])
<1> DEFINE Of(n) == [d \in DOMAIN hs[n].decls |->
                       [name  |-> hs[n].decls[d].name,  header   |-> n,
                        types |-> hs[n].decls[d].types, args     |-> hs[n].decls[d].args,
                        variadic |-> hs[n].decls[d].variadic]]
           Bare == [name : STRING, types : Seq(Field), args : Seq({"text", "va_list", "other"}), variadic : BOOLEAN]
           Mine == {d \in Decl : d.header \in DOMAIN hs}
           ss == [n \in DOMAIN hs |-> Of(n)]
           ls == [n \in DOMAIN hs |-> hs[n].layout]
<1>1. Len(hs) \in Nat /\ DOMAIN hs = 1 .. Len(hs) /\ \A n \in DOMAIN hs : hs[n] \in File
  OBVIOUS
<1>2. \A n \in DOMAIN hs : hs[n].layout \in [Records -> Seq(Field)] /\ hs[n].decls \in Seq(Bare)
  BY <1>1 DEF File
<1>3. \A n \in DOMAIN hs : /\ Of(n) \in Seq(Mine) /\ DOMAIN Of(n) = DOMAIN hs[n].decls
                           /\ \A k \in DOMAIN hs[n].decls : Alike(Of(n)[k], hs[n].decls[k])
  <2> SUFFICES ASSUME NEW n \in DOMAIN hs
               PROVE  /\ Of(n) \in Seq(Mine) /\ DOMAIN Of(n) = DOMAIN hs[n].decls
                      /\ \A k \in DOMAIN hs[n].decls : Alike(Of(n)[k], hs[n].decls[k])
    OBVIOUS
  <2> DEFINE ds == hs[n].decls
  <2> HIDE DEF Bare
  <2>1. ds \in Seq(Bare) /\ n \in Nat
    BY <1>1, <1>2
  <2>2. Len(ds) \in Nat /\ DOMAIN ds = 1 .. Len(ds) /\ \A k \in DOMAIN ds : ds[k] \in Bare
    BY <2>1
  <2>3. \A k \in DOMAIN ds : [name |-> ds[k].name, header |-> n, types |-> ds[k].types, args |-> ds[k].args,
                              variadic |-> ds[k].variadic] \in Mine
    BY <2>1, <2>2 DEF Decl, Bare
  <2>4. Of(n) \in [1 .. Len(ds) -> Mine]
    BY <2>2, <2>3
  <2>5. Of(n) \in Seq(Mine)
    <3> HIDE DEF Mine, Of, Bare
    <3> QED
      BY <2>2, <2>4, IsSeq
  <2> QED
    BY <2>5 DEF Alike
<1>4. ss \in [1 .. Len(hs) -> Seq(Mine)] /\ ls \in [1 .. Len(hs) -> [Records -> Seq(Field)]]
  BY <1>1, <1>2, <1>3
<1>5. Contents(hs) = [layouts |-> ls, decls |-> FlattenSeq(ss)]
  BY DEF Contents
<1>6. DOMAIN ss = DOMAIN hs /\ DOMAIN ls = DOMAIN hs /\ \A n \in DOMAIN hs : ss[n] = Of(n)
  OBVIOUS
<1> HIDE DEF ss, ls, Of, Mine, Bare
<1>7. ss \in Seq(Seq(Mine)) /\ ls \in Seq([Records -> Seq(Field)])
  BY <1>1, <1>4, IsSeq
<1>8. FlattenSeq(ss) \in Seq(Mine) /\ Range(FlattenSeq(ss)) = UNION {Range(ss[k]) : k \in DOMAIN ss}
  BY <1>7, FlattenElements
<1>9. Contents(hs) \in Library
  <2>1. FlattenSeq(ss) \in Seq(Decl) /\ \A n \in DOMAIN FlattenSeq(ss) : FlattenSeq(ss)[n].header \in DOMAIN ls
    BY <1>6, <1>8 DEF Mine
  <2> QED
    BY <1>5, <1>7, <2>1 DEF Library
<1>10. Range(Contents(hs).decls) = UNION {Range(Of(n)) : n \in DOMAIN hs}
  BY <1>5, <1>6, <1>8
<1>11. ASSUME NEW d \in Range(Contents(hs).decls)
       PROVE  \E h \in Range(hs) : \E k \in DOMAIN h.decls : Alike(d, h.decls[k])
  <2>1. PICK n \in DOMAIN hs : d \in Range(Of(n))
    BY <1>10
  <2>2. PICK k \in DOMAIN hs[n].decls : d = Of(n)[k]
    BY <1>3, <2>1 DEF Range
  <2> QED
    BY <1>3, <2>2 DEF Range
<1>12. ASSUME NEW h \in Range(hs), NEW k \in DOMAIN h.decls
       PROVE  \E d \in Range(Contents(hs).decls) : Alike(d, h.decls[k])
  <2>1. PICK n \in DOMAIN hs : h = hs[n]
    BY DEF Range
  <2>2. Of(n)[k] \in Range(Of(n)) /\ Alike(Of(n)[k], h.decls[k])
    BY <1>3, <2>1 DEF Range
  <2> QED
    BY <1>10, <2>2
<1> QED
  BY <1>9, <1>11, <1>12

\* An argument list is variable in a way that has a name, or it is not.
LEMMA VaIs ==
  ASSUME NEW d, d.variadic \in BOOLEAN, d.args \in Seq({"text", "va_list", "other"})
  PROVE  IsVa(d) \in {"none", "simple", "complex"} /\ (IsVa(d) = "none" <=> ~ Varies(d))
<1> DEFINE lists == {n \in DOMAIN d.args : d.args[n] = "va_list"}
<1>1. Varies(d) <=> d.variadic \/ lists # {}
  BY DEF Varies
<1>2. lists = {Len(d.args)} => lists # {}
  OBVIOUS
<1> QED
  BY <1>1, <1>2 DEF IsVa

LEMMA NamesFinite ==
  ASSUME NEW S, NEW s \in Seq(S) PROVE IsFiniteSet(Names(s))
<1> DEFINE f == [k \in 1 .. Len(s) |-> s[k].name]
<1>1. DOMAIN s = 1 .. Len(s) /\ Len(s) \in Nat
  OBVIOUS
<1>2. f \in [1 .. Len(s) -> Names(s)] /\ \A y \in Names(s) : \E x \in 1 .. Len(s) : f[x] = y
  BY <1>1 DEF Names
<1> HIDE DEF f
<1>3. f \in Surjection(1 .. Len(s), Names(s))
  BY <1>2 DEF Surjection
<1>4. IsFiniteSet(1 .. Len(s))
  BY <1>1, FS_Interval
<1> QED
  BY <1>3, <1>4, FS_Surjection

LEMMA FirstOfIs ==
  ASSUME NEW S, NEW s \in Seq(S), NEW name \in Names(s)
  PROVE  FirstOf(s, name) \in Range(s) /\ FirstOf(s, name).name = name
<1> DEFINE T == {n \in DOMAIN s : s[n].name = name}
           First(n) == s[n].name = name /\ \A m \in 1 .. n - 1 : s[m].name # name
<1>1. DOMAIN s = 1 .. Len(s) /\ Len(s) \in Nat
  OBVIOUS
<1>2. T # {} /\ T \subseteq Nat
  BY <1>1 DEF Names
<1> HIDE DEF T
<1>3. PICK n \in T : \A k \in T : n <= k
  BY <1>2, LeastNatural
<1>4. n \in DOMAIN s /\ n \in Nat /\ \A k \in DOMAIN s : s[k].name = name => n <= k
  BY <1>2, <1>3 DEF T
<1>5. \A m \in 1 .. n - 1 : m \in DOMAIN s /\ ~ (n <= m)
  BY <1>1, <1>4
<1>6. First(n) /\ n \in DOMAIN s
  BY <1>3, <1>4, <1>5 DEF T
<1>7. FirstOf(s, name) = s[CHOOSE k \in DOMAIN s : First(k)]
  BY DEF FirstOf
<1> DEFINE k == CHOOSE k \in DOMAIN s : First(k)
<1>8. k \in DOMAIN s /\ First(k)
  BY <1>6
<1> QED
  BY <1>7, <1>8 DEF Range

\* How many functions of a file have a variable part of a kind.
Variable(file, kind) == {f \in DOMAIN file.va : file.va[f] = kind}

EntryOf(p) == [name |-> p.stem, lib |-> Contents(Loaded(ValidHeaders(p)))]

\* The figures of a package: every function of its headers once, and among the
\* variable ones none that is so in no header and all that are so in each.
FiguresOf(file, p) ==
  LET all     == Declared(p, LAMBDA d : TRUE)
      varying == Declared(p, Varies)
      steady  == Declared(p, LAMBDA d : ~ Varies(d))
      count   == Cardinality(Variable(file, "simple")) + Cardinality(Variable(file, "complex"))
  IN /\ Len(file.verdicts) = Cardinality(all)
     /\ count <= Cardinality(varying)
     /\ count >= Cardinality(varying \ steady)

LEMMA FiguresRight ==
  ASSUME NEW p \in Package, NEW file, Complete(file, EntryOf(p).lib)
  PROVE  FiguresOf(file, p)
<1> DEFINE hs == Loaded(ValidHeaders(p))
           l == Contents(hs)
           ds == l.decls
           N == Names(ds)
           all     == Declared(p, LAMBDA d : TRUE)
           varying == Declared(p, Varies)
           steady  == Declared(p, LAMBDA d : ~ Varies(d))
           Va(f) == IsVa(FirstOf(ds, f))
           simple == {f \in N : Va(f) = "simple"}
           complex == {f \in N : Va(f) = "complex"}
<1>1. hs \in Seq(File) /\ Range(hs) = {h \in Counted(p) : h.works}
  BY HeadersAre, LoadedAre
<1>2. /\ l \in Library
      /\ \A d \in Range(ds) : \E h \in Range(hs) : \E k \in DOMAIN h.decls : Alike(d, h.decls[k])
      /\ \A h \in Range(hs) : \A k \in DOMAIN h.decls : \E d \in Range(ds) : Alike(d, h.decls[k])
  <2> HIDE DEF hs
  <2> QED
    BY <1>1, ContentsAre
<1>3. EntryOf(p).lib = l
  BY DEF EntryOf
<1>4. /\ Names(file.verdicts) = N /\ Len(file.verdicts) = Cardinality(N)
      /\ file.va = [f \in N |-> Va(f)]
  BY <1>3 DEF Complete
<1> HIDE DEF l, hs
<1>5. Variable(file, "simple") = simple /\ Variable(file, "complex") = complex
  <2> HIDE DEF N, Va
  <2>1. DOMAIN file.va = N /\ \A f \in N : file.va[f] = Va(f)
    BY <1>4
  <2> QED
    BY <2>1 DEF Variable
<1>6. ds \in Seq(Decl)
  BY <1>2 DEF Library
<1> HIDE DEF ds
<1>7. N = {d.name : d \in Range(ds)}
  BY DEF Names, Range
<1>8. all = {d.name : d \in Range(ds)}
  <2>1. all = UNION {{h.decls[n].name : n \in DOMAIN h.decls} : h \in Range(hs)}
    BY <1>1 DEF Declared
  <2> QED
    BY <1>2, <2>1 DEF Alike
<1>9. \A d, e : Alike(d, e) => (Varies(d) <=> Varies(e))
  BY DEF Alike, Varies
<1>10. varying = {d.name : d \in {d \in Range(ds) : Varies(d)}}
  <2>1. varying = UNION {{h.decls[n].name : n \in {n \in DOMAIN h.decls : Varies(h.decls[n])}} : h \in Range(hs)}
    BY <1>1 DEF Declared
  <2> QED
    BY <1>2, <1>9, <2>1 DEF Alike
<1>11. steady = {d.name : d \in {d \in Range(ds) : ~ Varies(d)}}
  <2>1. steady = UNION {{h.decls[n].name : n \in {n \in DOMAIN h.decls : ~ Varies(h.decls[n])}} : h \in Range(hs)}
    BY <1>1 DEF Declared
  <2> HIDE DEF steady
  <2>2. ASSUME NEW x \in steady PROVE x \in {d.name : d \in {d \in Range(ds) : ~ Varies(d)}}
    <3>1. PICK h \in Range(hs) : \E n \in DOMAIN h.decls : ~ Varies(h.decls[n]) /\ x = h.decls[n].name
      BY <2>1
    <3>2. PICK n \in DOMAIN h.decls : ~ Varies(h.decls[n]) /\ x = h.decls[n].name
      BY <3>1
    <3>3. PICK d \in Range(ds) : Alike(d, h.decls[n])
      BY <1>2
    <3> QED
      BY <1>9, <3>2, <3>3 DEF Alike
  <2>3. ASSUME NEW d \in Range(ds), ~ Varies(d) PROVE d.name \in steady
    <3>1. PICK h \in Range(hs) : \E n \in DOMAIN h.decls : Alike(d, h.decls[n])
      BY <1>2
    <3>2. PICK n \in DOMAIN h.decls : Alike(d, h.decls[n])
      BY <3>1
    <3>3. ~ Varies(h.decls[n]) /\ d.name = h.decls[n].name
      BY <1>9, <2>3, <3>2 DEF Alike
    <3>4. h.decls[n].name \in steady
      BY <2>1, <3>3
    <3> QED
      BY <3>3, <3>4
  <2> QED
    BY <2>2, <2>3
<1>12. \A f \in N : FirstOf(ds, f) \in Range(ds) /\ FirstOf(ds, f).name = f
  BY <1>6, FirstOfIs
<1>13. \A d \in Range(ds) : d.variadic \in BOOLEAN /\ d.args \in Seq({"text", "va_list", "other"})
  <2>1. \A d \in Range(ds) : d \in Decl
    BY <1>6 DEF Range
  <2> QED
    BY <2>1 DEF Decl
<1>14. \A f \in N : Va(f) \in {"none", "simple", "complex"} /\ (Va(f) = "none" <=> ~ Varies(FirstOf(ds, f)))
  BY <1>12, <1>13, VaIs
<1>15. simple \cup complex \subseteq varying
  <2> SUFFICES ASSUME NEW f \in N, Va(f) # "none" PROVE f \in varying
    OBVIOUS
  <2> QED
    BY <1>10, <1>12, <1>14
<1>16. varying \ steady \subseteq simple \cup complex
  <2> SUFFICES ASSUME NEW f \in varying, f \notin steady PROVE f \in N /\ Va(f) # "none"
    BY <1>14
  <2>1. f \in N
    BY <1>7, <1>10
  <2> QED
    BY <1>11, <1>12, <1>14, <2>1
<1>17. IsFiniteSet(N)
  BY <1>6, NamesFinite
<1>18. varying \subseteq N
  BY <1>7, <1>10
<1> HIDE DEF N, varying, steady, all
<1>19. IsFiniteSet(varying)
  BY <1>17, <1>18, FS_Subset
<1>20. IsFiniteSet(simple) /\ IsFiniteSet(complex) /\ IsFiniteSet(simple \cup complex) /\ simple \cap complex = {}
  <2>1. simple \subseteq N /\ complex \subseteq N /\ simple \cup complex \subseteq N /\ simple \cap complex = {}
    OBVIOUS
  <2> HIDE DEF simple, complex
  <2> QED
    BY <1>17, <2>1, FS_Subset
<1> HIDE DEF simple, complex
<1>21. Cardinality(simple \cup complex) = Cardinality(simple) + Cardinality(complex)
  <2>1. Cardinality(simple) \in Nat /\ Cardinality(complex) \in Nat /\ Cardinality({}) = 0
    BY <1>20, FS_CardinalityType, FS_EmptySet
  <2>2. Cardinality(simple \cup complex) = Cardinality(simple) + Cardinality(complex) - Cardinality(simple \cap complex)
    BY <1>20, FS_Union
  <2>3. Cardinality(simple \cap complex) = 0
    BY <1>20, <2>1
  <2> QED
    BY <2>1, <2>2, <2>3
<1>22. Cardinality(simple \cup complex) <= Cardinality(varying)
  BY <1>15, <1>19, FS_Subset
<1>23. Cardinality(varying \ steady) <= Cardinality(simple \cup complex)
  BY <1>16, <1>20, FS_Subset
<1>24. Cardinality(varying \ steady) \in Nat /\ Cardinality(simple \cup complex) \in Nat
  <2>1. IsFiniteSet(varying \ steady)
    BY <1>19, FS_Subset
  <2> QED
    BY <1>20, <2>1, FS_CardinalityType
<1>25. Len(file.verdicts) = Cardinality(all)
  BY <1>4, <1>7, <1>8
<1>26. /\ Cardinality(simple) + Cardinality(complex) <= Cardinality(varying)
       /\ Cardinality(simple) + Cardinality(complex) >= Cardinality(varying \ steady)
  BY <1>21, <1>22, <1>23, <1>24
<1> QED
  BY <1>5, <1>25, <1>26 DEF FiguresOf, all, varying, steady

-----------------------------------------------------------------------------
(* The filter and the runs one after the other.                            *)

\* What the list holds of the packages that have been gone through; before it
\* is written nothing is under way.
FilterInv ==
  /\ packages \subseteq Package /\ left \subseteq packages
  /\ doc \in Seq([name : STRING, lib : Library])
  /\ \A n \in DOMAIN doc : \E p \in packages \ left : Usable(p) /\ doc[n] = EntryOf(p)
  /\ \A p \in packages \ left : Usable(p) => \E n \in DOMAIN doc : doc[n] = EntryOf(p)
  /\ listed => left = {} /\ info_doc = doc
  /\ ~ listed => info_doc = << >> /\ Fresh

RowsOfFiles == {RowOf(name) : name \in DOMAIN files}

RunInv == Inv /\ VerdictsInv /\ FiledInv /\ FirstInv /\ ForestInv

\* There are files for libraries of the list only, and the table is that of
\* whole files.
TableInv ==
  /\ \A name \in DOMAIN files : \E n \in DOMAIN info_doc : info_doc[n].name = name
  /\ phase = "tabled" => /\ \A name \in DOMAIN files : files[name].whole
                         /\ rows = RowsOfFiles

LEMMA UsableIs ==
  ASSUME NEW p \in Package
  PROVE  /\ Usable(p) <=> p.dev /\ p.known /\ ValidHeaders(p) # << >>
         /\ EntryOf(p) \in [name : STRING, lib : Library]
<1> DEFINE hs == ValidHeaders(p)
<1>1. hs \in Seq(File) /\ Range(hs) = Counted(p)
  BY HeadersAre
<1>2. Loaded(hs) \in Seq(File)
  BY <1>1, LoadedAre
<1>3. Contents(Loaded(hs)) \in Library
  BY <1>2, ContentsAre
<1> HIDE DEF hs
<1>4. Counted(p) # {} <=> hs # << >>
  <2>1. hs = << >> \/ 1 \in DOMAIN hs
    BY <1>1
  <2>2. hs # << >> => hs[1] \in Range(hs)
    BY <2>1 DEF Range
  <2>3. hs = << >> => Range(hs) = {}
    BY DEF Range
  <2> QED
    BY <1>1, <2>2, <2>3
<1>5. p.stem \in STRING
  BY DEF Package
<1> QED
  BY <1>3, <1>4, <1>5 DEF Usable, EntryOf, hs

LEMMA DocKept == [Next]_vars => info_doc' = info_doc
BY DEF Next, Work, Pass, Begin, Scan, Open, Write, Exit, Table, Crash, Done, vars

LEMMA TableNext == Inv /\ TableInv /\ [Next]_vars => TableInv'
<1> SUFFICES ASSUME Inv, TableInv, [Next]_vars PROVE TableInv'
  OBVIOUS
<1>0. info_doc' = info_doc
  BY DocKept
<1>1. CASE Open
  <2>1. i \in DOMAIN info_doc
    <3>1. i \in 1 .. Len(info_doc) + 1 /\ i <= Len(info_doc) /\ info_doc \in Seq([name : STRING, lib : Library])
      BY <1>1 DEF Open, Inv, Shape, TypeOK
    <3> QED
      BY <3>1
  <2>2. DOMAIN files' = DOMAIN files \cup {info_doc[i].name} /\ phase' = "writing"
    BY <1>1 DEF Open
  <2> QED
    BY <1>0, <2>1, <2>2 DEF TableInv
<1>2. CASE Write
  <2>1. DOMAIN files' = DOMAIN files /\ phase' = "idle"
    BY <1>2 DEF Write
  <2> QED
    BY <1>0, <2>1 DEF TableInv
<1>3. CASE Table
  <2>1. files' = files
    BY <1>3 DEF Table
  <2>2. RowsOfFiles' = RowsOfFiles
    BY <2>1 DEF RowsOfFiles, RowOf
  <2>3. phase' = "tabled" => (\A name \in DOMAIN files : files[name].whole) /\ rows' = RowsOfFiles
    BY <1>3 DEF Table, RowsOfFiles
  <2> QED
    BY <1>0, <2>1, <2>2, <2>3 DEF TableInv
<1>4. CASE Pass \/ Begin \/ Scan \/ Exit \/ Crash
  <2>1. files' = files /\ phase' # "tabled"
    BY <1>4 DEF Pass, Begin, Scan, Exit, Crash
  <2> QED
    BY <1>0, <2>1 DEF TableInv
<1>5. CASE Done \/ UNCHANGED vars
  <2>1. UNCHANGED <<files, phase, rows>>
    BY <1>5 DEF Done, vars
  <2>2. RowsOfFiles' = RowsOfFiles
    BY <2>1 DEF RowsOfFiles, RowOf
  <2> QED
    BY <1>0, <2>1, <2>2 DEF TableInv
<1> QED
  BY <1>1, <1>2, <1>3, <1>4, <1>5 DEF Next, Work

LEMMA RunNext == RunInv /\ TableInv /\ [Next]_vars => (RunInv /\ TableInv)'
BY InvStep, FiledNext, FirstNext, ForestsNext, TableNext DEF RunInv

LEMMA RunStarts == AtStart => RunInv /\ TableInv
<1>1. AtStart => TableInv
  <2> SUFFICES ASSUME AtStart PROVE TableInv
    OBVIOUS
  <2>1. DOMAIN files = {} /\ phase = "idle"
    BY DEF AtStart, Fresh
  <2> QED
    BY <2>1 DEF TableInv
<1> QED
  BY <1>1, InvInit, FiledInit, FirstInit, ForestInit DEF RunInv

LEMMA FilterStarts == FilterInit => FilterInv /\ RunInv /\ TableInv
<1> SUFFICES ASSUME FilterInit PROVE FilterInv /\ RunInv /\ TableInv
  OBVIOUS
<1>1. << >> \in Seq([name : STRING, lib : Library]) /\ DOMAIN << >> = {}
  OBVIOUS
<1>2. packages \in PackageLists /\ left = packages /\ doc = << >> /\ listed = FALSE /\ info_doc = << >> /\ Fresh
  BY DEF FilterInit
<1>3. packages \subseteq Package /\ packages \ left = {}
  BY <1>2, PackagesAssumption
<1>4. FilterInv
  BY <1>1, <1>2, <1>3 DEF FilterInv
<1>5. AtStart
  BY <1>1, <1>2 DEF AtStart
<1> QED
  BY <1>4, <1>5, RunStarts

LEMMA FilterProcess == ASSUME FilterInv, ProcessPackage PROVE FilterInv'
<1> DEFINE E == [name : STRING, lib : Library]
<1>1. PICK p \in left : /\ left' = left \ {p}
                        /\ doc' = IF p.dev /\ p.known /\ ValidHeaders(p) # << >>
                                  THEN Append(doc, EntryOf(p)) ELSE doc
  BY DEF ProcessPackage, EntryOf
<1>2. p \in Package /\ packages' = packages /\ listed' = listed /\ info_doc' = info_doc /\ ~ listed /\ (Fresh <=> Fresh')
  BY <1>1 DEF FilterInv, ProcessPackage, vars, scanVars, Fresh
<1>3. packages' \ left' = (packages \ left) \cup {p} /\ left' \subseteq packages'
  BY <1>1, <1>2 DEF FilterInv
<1>4. EntryOf(p) \in E /\ doc' = IF Usable(p) THEN Append(doc, EntryOf(p)) ELSE doc
  BY <1>1, <1>2, UsableIs
<1>5. doc \in Seq(E)
  BY DEF FilterInv
<1> DEFINE e == EntryOf(p)
<1> HIDE DEF E
<1>6. /\ doc' \in Seq(E) /\ DOMAIN doc \subseteq DOMAIN doc' /\ \A n \in DOMAIN doc : doc'[n] = doc[n]
      /\ \A n \in DOMAIN doc' : n \in DOMAIN doc \/ (doc'[n] = EntryOf(p) /\ Usable(p))
      /\ Usable(p) => \E n \in DOMAIN doc' : doc'[n] = EntryOf(p)
  <2> HIDE DEF e
  <2>1. CASE Usable(p)
    <3>1. e \in E /\ doc' = Append(doc, e)
      BY <1>4, <2>1 DEF e
    <3>2. /\ doc' \in Seq(E) /\ Len(doc) \in Nat /\ DOMAIN doc' = 1 .. Len(doc) + 1 /\ DOMAIN doc = 1 .. Len(doc)
          /\ doc'[Len(doc) + 1] = e /\ \A n \in 1 .. Len(doc) : doc'[n] = doc[n]
      BY <1>5, <3>1
    <3>3. Len(doc) + 1 \in DOMAIN doc' /\ \A n \in DOMAIN doc' : n \in DOMAIN doc \/ n = Len(doc) + 1
      BY <3>2
    <3> QED
      BY <2>1, <3>2, <3>3 DEF e
  <2>2. CASE ~ Usable(p)
    BY <1>4, <1>5, <2>2
  <2> QED
    BY <2>1, <2>2
<1>7. ASSUME NEW n \in DOMAIN doc' PROVE \E q \in packages' \ left' : Usable(q) /\ doc'[n] = EntryOf(q)
  <2>1. CASE n \in DOMAIN doc
    BY <1>3, <1>6, <2>1 DEF FilterInv
  <2>2. CASE n \notin DOMAIN doc
    BY <1>3, <1>6, <2>2
  <2> QED
    BY <2>1, <2>2
<1>8. ASSUME NEW q \in packages' \ left', Usable(q) PROVE \E n \in DOMAIN doc' : doc'[n] = EntryOf(q)
  <2>1. CASE q = p
    BY <1>6, <1>8, <2>1
  <2>2. CASE q # p
    <3>1. PICK n \in DOMAIN doc : doc[n] = EntryOf(q)
      BY <1>3, <1>8, <2>2 DEF FilterInv
    <3> QED
      BY <1>6, <3>1
  <2> QED
    BY <2>1, <2>2
<1>9. packages' \subseteq Package
  BY <1>2 DEF FilterInv
<1>10. info_doc' = << >> /\ Fresh'
  BY <1>2 DEF FilterInv
<1> HIDE DEF e
<1> QED
  BY <1>2, <1>3, <1>6, <1>7, <1>8, <1>9, <1>10 DEF FilterInv, E

LEMMA FilterNext == FilterInv /\ RunInv /\ TableInv /\ [PipelineNext]_allVars => (FilterInv /\ RunInv /\ TableInv)'
<1> SUFFICES ASSUME FilterInv, RunInv, TableInv, [PipelineNext]_allVars PROVE (FilterInv /\ RunInv /\ TableInv)'
  OBVIOUS
<1>1. CASE ProcessPackage
  <2>1. [Next]_vars
    BY <1>1 DEF ProcessPackage
  <2> QED
    BY <1>1, <2>1, FilterProcess, RunNext
<1>2. CASE WriteList
  <2>1. ~ listed /\ Fresh /\ doc \in Seq([name : STRING, lib : Library]) /\ info_doc' = doc /\ listed' = TRUE /\ left = {}
    BY <1>2 DEF WriteList, FilterInv
  <2>2. UNCHANGED <<scanVars, i, files, phase, rows, crashes, packages, left, doc>>
    BY <1>2 DEF WriteList
  <2>3. Fresh' /\ info_doc' \in Seq([name : STRING, lib : Library])
    BY <2>1, <2>2 DEF Fresh, scanVars
  <2>4. AtStart'
    BY <2>3 DEF AtStart
  <2>5. AtStart' => (RunInv /\ TableInv)'
    BY RunStarts, PTL
  <2>6. FilterInv'
    BY <2>1, <2>2, <2>3 DEF FilterInv
  <2> QED
    BY <2>4, <2>5, <2>6
<1>3. CASE listed /\ Next /\ UNCHANGED filterVars
  <2>1. (RunInv /\ TableInv)'
    BY <1>3, RunNext
  <2>2. info_doc' = info_doc /\ UNCHANGED <<packages, left, doc, listed>> /\ listed
    BY <1>3, DocKept DEF filterVars
  <2>3. FilterInv'
    BY <2>2 DEF FilterInv
  <2> QED
    BY <2>1, <2>3
<1>4. CASE UNCHANGED allVars
  <2>1. UNCHANGED vars /\ UNCHANGED <<packages, left, doc, listed>>
    BY <1>4 DEF allVars, filterVars
  <2>2. (RunInv /\ TableInv)'
    BY <2>1, RunNext
  <2>3. FilterInv'
    BY <2>1 DEF FilterInv, Fresh, vars, scanVars
  <2> QED
    BY <2>2, <2>3
<1> QED
  BY <1>1, <1>2, <1>3, <1>4 DEF PipelineNext, PipelineWork, StatisticWork, Next

LEMMA PipelineAlways == PipelineSpec => [](FilterInv /\ RunInv /\ TableInv)
BY FilterStarts, FilterNext, PTL DEF PipelineSpec

\* What is proved of a run over any list holds of the runs over the lists that
\* the filter leaves.
THEOREM PipelineResults ==
  PipelineSpec => [](TypeOK /\ NoFalseAlarm /\ FirstSearchComplete /\ ExactOnForests /\ ResultsFiled)
<1>1. Inv => TypeOK
  BY DEF Inv
<1>2. ForestInv => ExactOnForests
  BY DEF ForestInv, Forested, ExactOnForests
<1>3. RunInv => TypeOK /\ NoFalseAlarm /\ FirstSearchComplete /\ ExactOnForests /\ ResultsFiled
  BY <1>1, <1>2, AlarmsTrue, FirstMissesNothing, FilesAsClaimed DEF RunInv
<1> QED
  BY <1>3, PipelineAlways, PTL

\* Nor is a remembered answer revised in a run over such a list.
THEOREM PipelineAnswersRemain == PipelineSpec => AnswersStand
<1>1. FilterInv /\ RunInv /\ [PipelineNext]_allVars =>
        [phase = "scanning" /\ phase' = "scanning" =>
           \A r \in DOMAIN records_map : r \in DOMAIN records_map' /\ records_map'[r] = records_map[r]]_vars
  <2> SUFFICES ASSUME FilterInv, RunInv, [PipelineNext]_allVars, phase = "scanning", phase' = "scanning"
               PROVE  \/ UNCHANGED vars
                      \/ \A r \in DOMAIN records_map : r \in DOMAIN records_map' /\ records_map'[r] = records_map[r]
    OBVIOUS
  <2>1. listed
    BY DEF FilterInv, Fresh
  <2>2. [Next]_vars
    BY <2>1 DEF PipelineNext, PipelineWork, ProcessPackage, WriteList, StatisticWork, Next, allVars
  <2> QED
    BY <2>2, AnswersStay DEF RunInv
<1> QED
  BY <1>1, PipelineAlways, PTL DEF PipelineSpec, AnswersStand

\* What ncicol.py tabulates: a row for every package with headers that
\* compile, with the figures of one package of that name.
LEMMA TableRight == FilterInv /\ RunInv /\ TableInv => TableOfPackages
<1> SUFFICES ASSUME FilterInv, RunInv, TableInv, phase = "tabled"
             PROVE  /\ {row.name : row \in rows} = {p.stem : p \in {q \in packages : Usable(q)}}
                    /\ \A row \in rows : \E p \in packages :
                         LET all     == Declared(p, LAMBDA d : TRUE)
                             varying == Declared(p, Varies)
                             steady  == Declared(p, LAMBDA d : ~ Varies(d))
                             count   == row.simple_va + row.complex_va
                         IN /\ Usable(p) /\ p.stem = row.name
                            /\ row.function_cnt = Cardinality(all)
                            /\ count <= Cardinality(varying)
                            /\ count >= Cardinality(varying \ steady)
  BY DEF TableOfPackages
<1>1. info_doc = doc /\ left = {} /\ packages \ left = packages
  <2>1. listed
    BY DEF FilterInv, Fresh
  <2> QED
    BY <2>1 DEF FilterInv
<1>2. /\ \A n \in DOMAIN info_doc : \E p \in packages : Usable(p) /\ info_doc[n] = EntryOf(p)
      /\ \A p \in packages : Usable(p) => \E n \in DOMAIN info_doc : info_doc[n] = EntryOf(p)
      /\ packages \subseteq Package
  BY <1>1 DEF FilterInv
<1>3. \A n \in DOMAIN info_doc : info_doc[n].name \in DOMAIN files
  <2>1. i > Len(info_doc) /\ i \in Nat /\ DOMAIN info_doc = 1 .. Len(info_doc) /\ Len(info_doc) \in Nat
    BY DEF RunInv, FiledInv, Inv, Shape, TypeOK
  <2>2. DOMAIN info_doc \subseteq 1 .. i - 1
    BY <2>1
  <2> QED
    BY <2>2 DEF RunInv, FiledInv
<1>4. rows = {RowOf(name) : name \in DOMAIN files} /\ \A name \in DOMAIN files : files[name].whole
  BY DEF TableInv, RowsOfFiles
<1>5. \A p : EntryOf(p).name = p.stem
  BY DEF EntryOf
<1>6. DOMAIN files = {p.stem : p \in {q \in packages : Usable(q)}}
  <2>1. ASSUME NEW name \in DOMAIN files PROVE \E p \in packages : Usable(p) /\ p.stem = name
    <3>1. PICK n \in DOMAIN info_doc : info_doc[n].name = name
      BY DEF TableInv
    <3> QED
      BY <1>2, <1>5, <3>1
  <2>2. ASSUME NEW p \in packages, Usable(p) PROVE p.stem \in DOMAIN files
    BY <1>2, <1>3, <1>5, <2>2
  <2> QED
    BY <2>1, <2>2
<1>7. \A name : /\ RowOf(name).name = name
                /\ RowOf(name).function_cnt = Len(files[name].verdicts)
                /\ RowOf(name).simple_va = Cardinality(Variable(files[name], "simple"))
                /\ RowOf(name).complex_va = Cardinality(Variable(files[name], "complex"))
  BY DEF RowOf, Variable
<1>8. {row.name : row \in rows} = DOMAIN files
  BY <1>4, <1>7
<1>9. ASSUME NEW name \in DOMAIN files
      PROVE  \E p \in packages : Usable(p) /\ p.stem = name /\ FiguresOf(files[name], p)
  <2>1. PICK m \in DOMAIN info_doc : info_doc[m].name = name /\ Complete(files[name], info_doc[m].lib)
    BY <1>4 DEF RunInv, FiledInv
  <2>2. PICK p \in packages : Usable(p) /\ info_doc[m] = EntryOf(p)
    BY <1>2
  <2>3. p \in Package /\ Complete(files[name], EntryOf(p).lib)
    BY <1>2, <2>1, <2>2
  <2>4. FiguresOf(files[name], p)
    BY <2>3, FiguresRight
  <2> QED
    BY <1>5, <2>1, <2>2, <2>4
<1>10. ASSUME NEW row \in rows
       PROVE  \E p \in packages :
                LET all     == Declared(p, LAMBDA d : TRUE)
                    varying == Declared(p, Varies)
                    steady  == Declared(p, LAMBDA d : ~ Varies(d))
                    count   == row.simple_va + row.complex_va
                IN /\ Usable(p) /\ p.stem = row.name
                   /\ row.function_cnt = Cardinality(all)
                   /\ count <= Cardinality(varying)
                   /\ count >= Cardinality(varying \ steady)
  <2>1. PICK name \in DOMAIN files : row = RowOf(name)
    BY <1>4
  <2>2. PICK p \in packages : Usable(p) /\ p.stem = name /\ FiguresOf(files[name], p)
    BY <1>9
  <2> WITNESS p \in packages
  <2>3. /\ row.name = name /\ row.function_cnt = Len(files[name].verdicts)
        /\ row.simple_va = Cardinality(Variable(files[name], "simple"))
        /\ row.complex_va = Cardinality(Variable(files[name], "complex"))
    BY <1>7, <2>1
  <2> QED
    BY <2>2, <2>3 DEF FiguresOf
<1> QED
  BY <1>6, <1>8, <1>10

\* However the files of a package and the packages are ordered, and however
\* often ncistat.py is broken off: if there is a table, it is that of the
\* packages, its figures those of their headers.
THEOREM TablesFigures == PipelineSpec => []TableOfPackages
BY TableRight, PipelineAlways, PTL
=============================================================================
