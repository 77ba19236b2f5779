---------------------------- MODULE FlattenProofs ----------------------------
(***************************************************************************)
(* Lemmas about FlattenSeq, for the models that put texts and lists        *)
(* together with it: the library's modules state none.                     *)
(***************************************************************************)
EXTENDS SequencesExt, WellFoundedInduction, NaturalsInduction, SequenceTheorems, FiniteSetTheorems, TLAPS

-----------------------------------------------------------------------------
(* A set of naturals has a least element: what is proved by induction is   *)
(* proved of the least number it could fail for.                           *)

Less == {r \in Nat \X Nat : r[1] < r[2]}

LEMMA LessWF == IsWellFoundedOn(Less, Nat)
<1>1. Less = OpToRel(<, Nat)
  BY DEF OpToRel, Less
<1> QED
  BY <1>1, NatLessThanWellFounded

LEMMA LeastNatural ==
  ASSUME NEW T, T \subseteq Nat, T # {}
  PROVE  \E m \in T : \A k \in T : m <= k
<1>1. PICK m \in T : \A k \in T : ~ (<<k, m>> \in Less)
  BY LessWF, WFMin
<1>2. ASSUME NEW k \in T PROVE m <= k
  <2>1. <<k, m>> \in Nat \X Nat /\ <<k, m>> \notin Less
    BY <1>1
  <2>2. ~ (<<k, m>>[1] < <<k, m>>[2])
    BY <2>1 DEF Less
  <2> QED
    BY <2>1, <2>2
<1> QED
  BY <1>2

-----------------------------------------------------------------------------
(* FlattenSeq is defined by a recursive function; the equation it obeys.   *)

Joins(ss, f, n) == f = [k \in 1 .. n |-> IF k = 1 THEN ss[k] ELSE f[k - 1] \o ss[k]]

LEMMA JoinsExists ==
  ASSUME NEW ss, NEW n \in Nat
  PROVE  \E f : Joins(ss, f, n)
<1> DEFINE T == {k \in Nat : ~ \E f : Joins(ss, f, k)}
<1> SUFFICES ASSUME T # {} PROVE FALSE
  OBVIOUS
<1>1. PICK m \in T : \A k \in T : m <= k
  <2> T \subseteq Nat
    OBVIOUS
  <2> HIDE DEF T
  <2> QED
    BY LeastNatural
<1>2. m # 0
  <2> SUFFICES \E f : Joins(ss, f, 0)
    OBVIOUS
  <2>1. Joins(ss, [k \in 1 .. 0 |-> k], 0)
    BY DEF Joins
  <2> QED
    BY <2>1
<1>3. m - 1 \in Nat /\ m - 1 \notin T
  BY <1>1, <1>2
<1>4. PICK f : Joins(ss, f, m - 1)
  BY <1>3
<1> DEFINE g == [k \in 1 .. m |-> IF k = m THEN IF m = 1 THEN ss[m] ELSE f[m - 1] \o ss[m] ELSE f[k]]
<1>5. ASSUME NEW k \in 1 .. m PROVE g[k] = IF k = 1 THEN ss[k] ELSE g[k - 1] \o ss[k]
  <2>1. CASE k = m
    <3>1. CASE m = 1
      BY <2>1, <3>1
    <3>2. CASE m # 1
      <4>1. g[m - 1] = f[m - 1]
        BY <3>2, <1>3
      <4> QED
        BY <2>1, <3>2, <4>1
    <3> QED
      BY <3>1, <3>2
  <2>2. CASE k # m
    <3>1. k \in 1 .. m - 1
      BY <2>2, <1>3
    <3>2. f[k] = IF k = 1 THEN ss[k] ELSE f[k - 1] \o ss[k]
      BY <1>4, <3>1 DEF Joins
    <3>3. g[k] = f[k]
      BY <2>2
    <3>4. k # 1 => k - 1 \in 1 .. m /\ k - 1 # m
      BY <3>1, <1>3
    <3>5. k # 1 => g[k - 1] = f[k - 1]
      BY <3>4
    <3> HIDE DEF g
    <3> QED
      BY <3>2, <3>3, <3>5
  <2> QED
    BY <2>1, <2>2
<1>6. Joins(ss, g, m)
  <2>1. DOMAIN g = 1 .. m /\ g = [k \in DOMAIN g |-> g[k]]
    OBVIOUS
  <2> HIDE DEF g
  <2>2. [k \in 1 .. m |-> g[k]] = [k \in 1 .. m |-> IF k = 1 THEN ss[k] ELSE g[k - 1] \o ss[k]]
    BY <1>5
  <2> QED
    BY <2>1, <2>2 DEF Joins
<1> QED
  BY <1>6

LEMMA JoinsUnique ==
  ASSUME NEW ss, NEW n \in Nat, NEW f, NEW g, NEW l \in Nat, l <= n,
         Joins(ss, f, l), Joins(ss, g, n)
  PROVE  \A k \in 1 .. l : f[k] = g[k]
<1> DEFINE T == {k \in 1 .. l : f[k] # g[k]}
<1> SUFFICES ASSUME T # {} PROVE FALSE
  OBVIOUS
<1>1. PICK m \in T : \A k \in T : m <= k
  <2> T \subseteq Nat
    OBVIOUS
  <2> HIDE DEF T
  <2> QED
    BY LeastNatural
<1>2. m = 1 \/ (m - 1 \in 1 .. l /\ f[m - 1] = g[m - 1])
  BY <1>1
<1>3. f[m] = IF m = 1 THEN ss[m] ELSE f[m - 1] \o ss[m]
  BY <1>1 DEF Joins
<1>4. g[m] = IF m = 1 THEN ss[m] ELSE g[m - 1] \o ss[m]
  <2>1. m \in 1 .. n
    BY <1>1
  <2> QED
    BY <2>1 DEF Joins
<1>5. f[m] = g[m]
  BY <1>2, <1>3, <1>4
<1> QED
  BY <1>5

\* What is flattened is what any such function ends in.
LEMMA FlattenIs ==
  ASSUME NEW ss, Len(ss) \in Nat, NEW f, Joins(ss, f, Len(ss)), Len(ss) # 0
  PROVE  FlattenSeq(ss) = f[Len(ss)]
<1> DEFINE g == CHOOSE g : Joins(ss, g, Len(ss))
<1>1. Joins(ss, g, Len(ss))
  OBVIOUS
<1>2. FlattenSeq(ss) = g[Len(ss)]
  BY DEF FlattenSeq, Joins
<1> HIDE DEF g
<1>3. f[Len(ss)] = g[Len(ss)]
  BY <1>1, JoinsUnique
<1> QED
  BY <1>2, <1>3

LEMMA FlattenEmpty == FlattenSeq(<< >>) = << >>
  BY DEF FlattenSeq

\* A sequence more goes to the end.
LEMMA FlattenAppend ==
  ASSUME NEW S, NEW ss \in Seq(Seq(S)), NEW s \in Seq(S)
  PROVE  FlattenSeq(Append(ss, s)) = FlattenSeq(ss) \o s
<1> DEFINE tt == Append(ss, s)
<1>1. /\ Len(ss) \in Nat /\ Len(tt) \in Nat /\ Len(tt) = Len(ss) + 1 /\ tt[Len(tt)] = s
      /\ \A k \in 1 .. Len(ss) : tt[k] = ss[k]
  OBVIOUS
<1> HIDE DEF tt
<1>2. PICK f : Joins(ss, f, Len(ss))
  BY <1>1, JoinsExists
<1>3. PICK g : Joins(tt, g, Len(tt))
  BY <1>1, JoinsExists
<1>4. FlattenSeq(tt) = g[Len(tt)]
  BY <1>1, <1>3, FlattenIs
<1>5. CASE Len(ss) = 0
  <2>1. ss = << >>
    BY <1>5
  <2>2. g[1] = s
    BY <1>1, <1>3, <1>5 DEF Joins
  <2>3. << >> \o s = s
    OBVIOUS
  <2> QED
    BY <1>1, <1>4, <1>5, <2>1, <2>2, <2>3, FlattenEmpty DEF tt
<1>6. CASE Len(ss) # 0
  <2>1. g[Len(tt)] = g[Len(ss)] \o s
    <3>1. Len(tt) \in 1 .. Len(tt) /\ Len(tt) # 1 /\ Len(tt) - 1 = Len(ss)
      BY <1>1, <1>6
    <3>2. g[Len(tt)] = IF Len(tt) = 1 THEN tt[Len(tt)] ELSE g[Len(tt) - 1] \o tt[Len(tt)]
      BY <1>3, <3>1 DEF Joins
    <3> QED
      BY <1>1, <3>1, <3>2
  <2> DEFINE h == [k \in 1 .. Len(ss) |-> g[k]]
  <2>2. ASSUME NEW k \in 1 .. Len(ss) PROVE h[k] = IF k = 1 THEN ss[k] ELSE h[k - 1] \o ss[k]
    <3>1. k \in 1 .. Len(tt) /\ (k # 1 => k - 1 \in 1 .. Len(ss))
      BY <1>1
    <3>2. g[k] = IF k = 1 THEN tt[k] ELSE g[k - 1] \o tt[k]
      BY <1>3, <3>1 DEF Joins
    <3> QED
      BY <1>1, <3>1, <3>2
  <2>3. Joins(ss, h, Len(ss))
    <3>1. h = [k \in 1 .. Len(ss) |-> h[k]]
      OBVIOUS
    <3> HIDE DEF h
    <3>2. [k \in 1 .. Len(ss) |-> h[k]] = [k \in 1 .. Len(ss) |-> IF k = 1 THEN ss[k] ELSE h[k - 1] \o ss[k]]
      BY <2>2
    <3> QED
      BY <3>1, <3>2 DEF Joins
  <2>4. FlattenSeq(ss) = h[Len(ss)] /\ h[Len(ss)] = g[Len(ss)]
    <3>1. h[Len(ss)] = g[Len(ss)]
      BY <1>1, <1>6
    <3> HIDE DEF h
    <3> QED
      BY <1>1, <1>6, <2>3, <3>1, FlattenIs
  <2> QED
    BY <1>4, <2>1, <2>4 DEF tt
<1> QED
  BY <1>5, <1>6

LEMMA RangeConcat ==
  ASSUME NEW S, NEW s \in Seq(S), NEW t \in Seq(S)
  PROVE  Range(s \o t) = Range(s) \cup Range(t)
<1>1. DOMAIN (s \o t) = 1 .. Len(s) + Len(t) /\ DOMAIN s = 1 .. Len(s) /\ DOMAIN t = 1 .. Len(t)
  OBVIOUS
<1>2. \A n \in 1 .. Len(s) : (s \o t)[n] = s[n] /\ n \in DOMAIN (s \o t)
  OBVIOUS
<1>3. \A n \in 1 .. Len(t) : (s \o t)[Len(s) + n] = t[n] /\ Len(s) + n \in DOMAIN (s \o t)
  OBVIOUS
<1>4. \A n \in DOMAIN (s \o t) : n \in 1 .. Len(s) \/ (n - Len(s) \in 1 .. Len(t) /\ n = Len(s) + (n - Len(s)))
  BY <1>1
<1>5. ASSUME NEW x \in Range(s \o t) PROVE x \in Range(s) \cup Range(t)
  <2>1. PICK n \in DOMAIN (s \o t) : x = (s \o t)[n]
    BY DEF Range
  <2>2. CASE n \in 1 .. Len(s)
    BY <1>1, <1>2, <2>1, <2>2 DEF Range
  <2>3. CASE n - Len(s) \in 1 .. Len(t)
    <3>1. x = t[n - Len(s)]
      BY <1>3, <1>4, <2>1, <2>3
    <3> QED
      BY <1>1, <2>3, <3>1 DEF Range
  <2> QED
    BY <1>4, <2>2, <2>3
<1>6. ASSUME NEW x \in Range(s) PROVE x \in Range(s \o t)
  BY <1>1, <1>2 DEF Range
<1>7. ASSUME NEW x \in Range(t) PROVE x \in Range(s \o t)
  <2>1. PICK n \in 1 .. Len(t) : x = t[n]
    BY <1>1 DEF Range
  <2>2. x = (s \o t)[Len(s) + n] /\ Len(s) + n \in DOMAIN (s \o t)
    BY <1>3, <2>1
  <2> QED
    BY <2>2 DEF Range
<1> QED
  BY <1>5, <1>6, <1>7

\* What was joined so far is in one of the sequences so far.
Collects(S, ss, f, n) == f[n] \in Seq(S) /\ Range(f[n]) = UNION {Range(ss[k]) : k \in 1 .. n}

LEMMA JoinsElements ==
  ASSUME NEW S, NEW ss \in Seq(Seq(S)), NEW f, Joins(ss, f, Len(ss))
  PROVE  \A n \in 1 .. Len(ss) : Collects(S, ss, f, n)
<1>1. Len(ss) \in Nat /\ DOMAIN ss = 1 .. Len(ss) /\ \A k \in 1 .. Len(ss) : ss[k] \in Seq(S)
  OBVIOUS
<1> DEFINE Good(n) == f[n] \in Seq(S) /\ Range(f[n]) = UNION {Range(ss[k]) : k \in 1 .. n}
           T == {n \in 1 .. Len(ss) : ~ Good(n)}
<1> SUFFICES ASSUME T # {} PROVE FALSE
  BY DEF Collects
<1>2. PICK m \in T : \A k \in T : m <= k
  <2> T \subseteq Nat
    BY <1>1
  <2> HIDE DEF T
  <2> QED
    BY LeastNatural
<1>3. m \in 1 .. Len(ss) /\ ~ Good(m) /\ (m # 1 => m - 1 \in 1 .. Len(ss) /\ Good(m - 1))
  <2> HIDE DEF Good
  <2>1. m \in 1 .. Len(ss) /\ ~ Good(m)
    BY <1>2
  <2>2. m # 1 => m - 1 \in 1 .. Len(ss) /\ ~ (m <= m - 1)
    BY <2>1, <1>1
  <2>3. m # 1 => m - 1 \notin T
    BY <1>2, <2>2
  <2> QED
    BY <2>1, <2>2, <2>3
<1>4. f[m] = IF m = 1 THEN ss[m] ELSE f[m - 1] \o ss[m]
  BY <1>3 DEF Joins
<1>5. CASE m = 1
  <2>1. f[m] = ss[m] /\ ss[m] \in Seq(S) /\ 1 .. m = {m}
    BY <1>3, <1>4, <1>5, <1>1
  <2>2. UNION {Range(ss[k]) : k \in {m}} = Range(ss[m])
    OBVIOUS
  <2> QED
    BY <1>3, <2>1, <2>2
<1>6. CASE m # 1
  <2>1. f[m] = f[m - 1] \o ss[m] /\ ss[m] \in Seq(S) /\ f[m - 1] \in Seq(S)
    BY <1>3, <1>4, <1>6, <1>1
  <2>2. 1 .. m = (1 .. m - 1) \cup {m}
    BY <1>3, <1>6, <1>1
  <2>3. UNION {Range(ss[k]) : k \in (1 .. m - 1) \cup {m}} = (UNION {Range(ss[k]) : k \in 1 .. m - 1}) \cup Range(ss[m])
    OBVIOUS
  <2>4. f[m] \in Seq(S)
    BY <2>1
  <2>5. Range(f[m]) = Range(f[m - 1]) \cup Range(ss[m])
    BY <2>1, RangeConcat
  <2>6. Range(f[m - 1]) = UNION {Range(ss[k]) : k \in 1 .. m - 1}
    BY <1>3, <1>6
  <2> QED
    BY <1>3, <2>2, <2>3, <2>4, <2>5, <2>6
<1> QED
  BY <1>5, <1>6

\* What is in the flattened sequence is in one of the sequences.
LEMMA FlattenElements ==
  ASSUME NEW S, NEW ss \in Seq(Seq(S))
  PROVE  /\ FlattenSeq(ss) \in Seq(S)
         /\ Range(FlattenSeq(ss)) = UNION {Range(ss[k]) : k \in DOMAIN ss}
<1>1. Len(ss) \in Nat /\ DOMAIN ss = 1 .. Len(ss)
  OBVIOUS
<1>2. CASE Len(ss) = 0
  <2>1. ss = << >> /\ << >> \in Seq(S) /\ Range(<< >>) = {} /\ DOMAIN ss = {}
    BY <1>2 DEF Range
  <2> QED
    BY <2>1, FlattenEmpty
<1>3. CASE Len(ss) # 0
  <2>1. PICK f : Joins(ss, f, Len(ss))
    BY <1>1, JoinsExists
  <2>2. Len(ss) \in 1 .. Len(ss)
    BY <1>1, <1>3
  <2>3. f[Len(ss)] \in Seq(S) /\ Range(f[Len(ss)]) = UNION {Range(ss[k]) : k \in 1 .. Len(ss)}
    <3>1. Collects(S, ss, f, Len(ss))
      BY <2>1, <2>2, JoinsElements
    <3> QED
      BY <3>1 DEF Collects
  <2>4. FlattenSeq(ss) = f[Len(ss)]
    BY <2>1, <1>1, <1>3, FlattenIs
  <2> QED
    BY <1>1, <2>3, <2>4
<1> QED
  BY <1>2, <1>3

\* A function from 1 .. n is a sequence.
LEMMA IsSeq ==
  ASSUME NEW S, NEW n \in Nat, NEW s \in [1 .. n -> S]
  PROVE  s \in Seq(S) /\ Len(s) = n
  OBVIOUS

=============================================================================
