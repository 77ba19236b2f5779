----------------------------- MODULE ScanfProofs -----------------------------
(***************************************************************************)
(* For every text over any characters, any formats and any look-ahead:     *)
(*                                                                         *)
(* - the scanner reads the text as an abstract stream; refills, limits and *)
(*   the closed window cannot be told from outside (module Stream).        *)
(*   FileOK is what makes this inductive: a window ends where the buffer   *)
(*   or the limit does, and a closed one has reached either.               *)
(* - ffintscan reads the longest beginning of a numeral, with its value.   *)
(*   Whole says of every point of the scan how much of the field was read  *)
(*   and what it is: behind digits, that they are digits of the base and   *)
(*   what they come to, in whichever of the two loops; behind a rejected   *)
(*   beginning, that no longer one would have been a numeral.              *)
(* - fffloatscan reads the longest beginning of a number, a word or NaN    *)
(*   with its parentheses, with its value.  FloatOK says of every point of *)
(*   the scan what was met: how much of a word, or of zeros, digits and    *)
(*   point, and what the digits kept, the place of the point and the       *)
(*   exponent then are (Gathered, ExpSoFar); DeadAt, that no longer        *)
(*   beginning is a number.                                                *)
(* - the scan as a whole stores, counts and leaves what the format means:  *)
(*   Meant says that the directives up to the one under way, applied to    *)
(*   the text, give what was stored so far.                                *)
(*                                                                         *)
(* What is defined by FoldLeft (Numeral, Meaning) is reached through its   *)
(* parts, the recursive function behind it, of which lemmas say that it    *)
(* exists and that two of them agree.                                      *)
(***************************************************************************)
EXTENDS ScanfMeaning, FlattenProofs

(* The count has been set: the scanner calls shlim before it reads.        *)
Started == rend # NULL \/ shcnt = Buf

Typed == text \in Seq(Char)

(* ---- the three calls of the reader ------------------------------------ *)

LEMMA LimitSteps ==
  ASSUME Typed, FileOK, NEW n \in Nat, ShLim(n)
  PROVE  FileOK' /\ Typed' /\ Started' /\ Reader!Limit
<1> USE DEF NULL, Buf
<1>1. /\ shlim' = n /\ shcnt' = 1 - rpos /\ c' = None
      /\ text' = text /\ cookie' = cookie /\ rpos' = rpos /\ rend' = rend
      /\ shend' = IF n # 0 /\ rend - rpos > n THEN rpos + n ELSE rend
  BY DEF ShLim, Window
<1>2. Len(text) \in Nat
  BY DEF Typed
<1>3. Count' = 0 /\ Count' \in Int
  BY <1>1 DEF Count, FileOK
<1>4. FileOK'
  <2>1. CASE rend = 0
    <3>1. rpos = 0 /\ shend' = 0 /\ shcnt' = 1
      BY <1>1, <2>1, SMT DEF FileOK
    <3> QED
      BY <1>1, <1>2, <2>1, <3>1, CharAssumption, SMT DEF FileOK
  <2>2. CASE rend # 0
    <3>1. /\ shend' \in rpos .. rend /\ shend' # 0
          /\ n # 0 => shend' - rpos <= n
          /\ shend' = rend \/ (n # 0 /\ shend' - rpos = n)
      BY <1>1, <1>2, <2>2, SMT DEF FileOK
    <3>2. shcnt' \in Int /\ Count' \in 0 .. Consumed'
      BY <1>1, <1>3, <2>2, SMT DEF FileOK, Consumed
    <3> QED
      BY <1>1, <1>2, <1>3, <2>2, <3>1, <3>2, CharAssumption, SMT DEF FileOK
  <2> QED
    BY <2>1, <2>2
<1>5. Reader!Limit
  BY <1>1, <1>2, <1>3, SMT DEF Reader!Limit, Consumed, CountsFrom, Count, FileOK
<1> QED
  BY <1>1, <1>4, <1>5, SMT DEF Typed, Started, FileOK

LEMMA GetSteps ==
  ASSUME Typed, FileOK, Started, ShGetC
  PROVE  FileOK' /\ Typed' /\ Started' /\ Reader!Get
<1> USE DEF NULL, Buf
<1>1. Len(text) \in Nat /\ \A i \in 1 .. Len(text) : text[i] \in Char
  BY DEF Typed
<1>2. text' = text /\ shlim' = shlim
  BY DEF ShGetC, InWindow, AtLimit, Refill
<1>3. CASE InWindow
  <2>1. /\ rpos < shend /\ c' = text[rpos] /\ rpos' = rpos + 1
        /\ cookie' = cookie /\ rend' = rend /\ shend' = shend /\ shcnt' = shcnt
    BY <1>3 DEF InWindow
  <2>2. rend # 0 /\ rpos \in 1 .. Len(text) /\ shend # 0
    BY <2>1, <1>1, SMT DEF FileOK
  <2>3. Count' = Count + 1 /\ Count \in Nat
    BY <2>1, <2>2, SMT DEF Count, FileOK
  <2>4. c' \in Char /\ c' # EOF
    BY <2>1, <2>2, <1>1, CharAssumption
  <2>5. FileOK'
    BY <2>1, <2>2, <2>3, <2>4, <1>1, <1>2, SMTT(40) DEF FileOK, Consumed, Count
  <2>6. Consumed = rpos - 1 /\ Consumed' = rpos /\ CountsFrom' = CountsFrom
    BY <2>1, <2>2, <2>3, SMT DEF Consumed, CountsFrom, FileOK
  <2>7. ~Reader!Exhausted
    BY <2>1, <2>2, <2>3, <2>6, SMT DEF Reader!Exhausted, CountsFrom, FileOK
  <2>8. Reader!Get
    BY <2>1, <2>2, <2>6, <2>7, <1>2, SMT DEF Reader!Get, FileOK
  <2> QED
    BY <2>1, <2>2, <2>5, <2>8, <1>2 DEF Typed, Started
<1>4. CASE AtLimit
  <2>1. /\ shlim # 0 /\ Count >= shlim /\ shcnt' = 1 - rpos + Count
        /\ shend' = 0 /\ c' = EOF /\ rpos' = rpos /\ cookie' = cookie /\ rend' = rend
    BY <1>4 DEF AtLimit
  <2>2. rend # 0
    BY <2>1, SMT DEF FileOK, Count, Started
  <2>3. Count' = Count /\ Count \in Nat
    BY <2>1, <2>2, SMT DEF Count, FileOK
  <2>4. FileOK'
    BY <2>1, <2>2, <2>3, <1>1, <1>2, CharAssumption, SMT DEF FileOK, Consumed, Count
  <2>5. Consumed' = Consumed /\ CountsFrom' = CountsFrom
    BY <2>1, <2>3, SMT DEF Consumed, CountsFrom
  <2>6. Reader!Exhausted
    BY <2>1, <2>2, <2>3, SMT DEF Reader!Exhausted, CountsFrom, Consumed, FileOK
  <2>7. Reader!Get
    BY <2>1, <2>5, <2>6, <1>2 DEF Reader!Get
  <2> QED
    BY <2>1, <2>2, <2>4, <2>7, <1>2 DEF Typed, Started
<1>5. CASE Refill
  <2> DEFINE left == Len(text) + 1 - cookie
             kk == IF left < 1 + Ahead THEN left ELSE 1 + Ahead
  <2>1. /\ rpos >= shend /\ ~(shlim # 0 /\ Count >= shlim)
        /\ rend' = cookie + kk /\ cookie' = cookie + kk
        /\ IF kk = 0
           THEN rpos' = cookie /\ shcnt' = 1 - rpos' + Count /\ shend' = 0 /\ c' = EOF
           ELSE /\ rpos' = cookie + 1 /\ shcnt' = 1 - rpos' + Count + 1
                /\ shend' = (IF shlim # 0 /\ rend' - rpos' > shlim - (Count + 1)
                             THEN rpos' + (shlim - (Count + 1)) ELSE rend')
                /\ c' = text[cookie]
    BY <1>5 DEF Refill, Window
  <2>2. kk \in Nat /\ cookie + kk <= Len(text) + 1 /\ (kk = 0 <=> cookie = Len(text) + 1)
    BY <1>1, AheadAssumption, SMT DEF FileOK
  <2>3. Count \in Nat
    BY SMT DEF Count, FileOK, Started, Consumed
  <2>4. rpos = rend /\ Consumed = cookie - 1 /\ Count <= Consumed
    BY <2>1, <2>3, SMTT(40) DEF FileOK, Count, Consumed, Started
  <2>5. CASE kk = 0
    <3>1. /\ rpos' = cookie /\ shcnt' = 1 - cookie + Count /\ shend' = 0 /\ c' = EOF
          /\ rend' = cookie /\ cookie' = cookie
      BY <2>1, <2>5, SMT DEF FileOK
    <3>2. Count' = Count
      BY <3>1, <2>3, SMT DEF Count, FileOK
    <3>3. FileOK'
      BY <3>1, <3>2, <2>3, <2>4, <1>1, <1>2, CharAssumption, SMT DEF FileOK, Consumed, Count
    <3>4. Consumed' = Consumed /\ Consumed = Len(text)
      BY <3>1, <2>2, <2>4, <2>5, <1>1, SMT DEF Consumed, FileOK
    <3>5. CountsFrom' = CountsFrom
      BY <3>1, <3>2, <3>4, <2>3, <2>4, SMT DEF CountsFrom, FileOK, Consumed
    <3>6. Reader!Get
      BY <3>1, <3>4, <3>5, <1>2 DEF Reader!Get, Reader!Exhausted
    <3> QED
      BY <3>1, <3>3, <3>6, <1>2, SMT DEF Typed, Started, FileOK
  <2>6. CASE kk # 0
    <3>1. /\ rpos' = cookie + 1 /\ shcnt' = Count + 1 - cookie /\ c' = text[cookie]
          /\ rend' = cookie + kk /\ cookie' = cookie + kk
          /\ shend' = (IF shlim # 0 /\ rend' - rpos' > shlim - (Count + 1)
                       THEN rpos' + (shlim - (Count + 1)) ELSE rend')
      BY <2>1, <2>3, <2>6, SMT DEF FileOK
    <3>2. Count' = Count + 1
      BY <3>1, <2>3, SMT DEF Count, FileOK
    <3>3. c' \in Char /\ c' # EOF /\ c' # None
      <4>1. cookie \in 1 .. Len(text)
        BY <2>2, <2>6, <1>1, SMT DEF FileOK
      <4> QED
        BY <4>1, <3>1, <1>1, CharAssumption
    <3>4. FileOK'
      <4>1. /\ rpos' \in 1 .. rend' /\ rend' # 0 /\ cookie' \in 1 .. Len(text) + 1
            /\ shcnt' \in Int /\ Count' \in 0 .. Consumed' /\ Count' > 0
        BY <3>1, <3>2, <2>2, <2>3, <2>4, <2>6, <1>1, SMT DEF FileOK, Consumed
      <4>2. /\ shend' \in rpos' .. rend' /\ shend' # 0
            /\ shlim # 0 => shend' - rpos' <= shlim - Count'
            /\ shend' = rend' \/ (shlim # 0 /\ shend' - rpos' = shlim - Count')
        BY <3>1, <3>2, <2>1, <2>3, <4>1, SMT DEF FileOK
      <4>3. c' = text'[rpos' - 1]
        BY <3>1, <1>2, SMT DEF FileOK
      <4> QED
        BY <3>1, <3>3, <4>1, <4>2, <4>3, <1>2, CharAssumption, SMT DEF FileOK
    <3>5. Consumed' = Consumed + 1 /\ Consumed # Len(text)
      BY <3>1, <2>2, <2>4, <2>6, <1>1, SMT DEF Consumed, FileOK
    <3>6. CountsFrom' = CountsFrom
      BY <3>1, <3>2, <3>5, <2>2, <2>3, <2>4, <2>6, SMT DEF CountsFrom, FileOK, Consumed, Count, Started
    <3>7. ~Reader!Exhausted
      BY <3>5, <2>1, <2>3, <2>4, SMT DEF Reader!Exhausted, CountsFrom, FileOK, Count, Consumed, Started
    <3>8. Reader!Get
      BY <3>1, <3>5, <3>6, <3>7, <2>4, <1>2, SMT DEF Reader!Get, FileOK
    <3> QED
      BY <3>1, <3>4, <3>8, <2>2, <1>2, SMT DEF Typed, Started, FileOK
  <2> QED
    BY <2>5, <2>6
<1> QED
  BY <1>3, <1>4, <1>5 DEF ShGetC

LEMMA UngetSteps ==
  ASSUME Typed, FileOK, Started, ShUnget
  PROVE  FileOK' /\ Typed' /\ Started' /\ Reader!Unget
<1> USE DEF NULL, Buf
<1>1. /\ c # None /\ c' = None /\ rpos' = (IF shend # 0 THEN rpos - 1 ELSE rpos)
      /\ text' = text /\ cookie' = cookie /\ rend' = rend /\ shend' = shend
      /\ shlim' = shlim /\ shcnt' = shcnt
  BY DEF ShUnget
<1>2. Len(text) \in Nat
  BY DEF Typed
<1>3. CASE c = EOF
  <2>1. rpos' = rpos /\ Count' = Count /\ Consumed' = Consumed /\ CountsFrom' = CountsFrom
    BY <1>1, <1>3 DEF FileOK, Count, Consumed, CountsFrom
  <2>2. FileOK'
    BY <1>1, <1>2, <1>3, <2>1, CharAssumption, SMT DEF FileOK
  <2> QED
    BY <1>1, <1>3, <2>1, <2>2 DEF Reader!Unget, Typed, Started
<1>4. CASE c # EOF
  <2>1. c \in Char /\ shend # 0 /\ Count > 0 /\ rend # 0 /\ rpos' = rpos - 1
    BY <1>1, <1>4, SMT DEF FileOK
  <2>2. Count' = Count - 1 /\ Consumed = rpos - 1 /\ rpos' >= 1
    BY <1>1, <2>1, SMT DEF Count, FileOK, Consumed
  <2>3. Consumed' = Consumed - 1 /\ CountsFrom' = CountsFrom
    BY <1>1, <2>1, <2>2, SMT DEF Consumed, CountsFrom, FileOK
  <2>4. FileOK'
    BY <1>1, <1>2, <2>1, <2>2, <2>3, CharAssumption, SMTT(40) DEF FileOK
  <2> QED
    BY <1>1, <1>4, <2>1, <2>3, <2>4 DEF Reader!Unget, Typed, Started
<1> QED
  BY <1>3, <1>4

(* ---- the scanner ------------------------------------------------------ *)

(* The directive under way is one of the format, and the reader is used    *)
(* only when the count has been set.                                       *)
Control ==
    /\ fmt \in Formats
    /\ k \in Nat \ {0}
    /\ pc \notin {"next", "end"} => k <= Len(fmt)

ScanInv ==
    /\ Typed /\ FileOK /\ Control
    /\ pc \notin {"next", "width", "end"} => Started

(* What a step does to the reader: one call, or none.                      *)
Calls ==
    \/ \E n \in Nat : ShLim(n)
    \/ Started /\ ShGetC
    \/ Started /\ ShUnget
    \/ UNCHANGED file /\ (pc' \in {"next", "width", "end"} \/ Started)

LEMMA DirectiveSteps ==
  ASSUME ScanInv,
         Finish \/ Begin \/ NoSkip \/ ReadSoFar \/ BadConversion \/ Skip \/ Skipped
           \/ OneChar \/ Compare \/ Width \/ Peek \/ Convert \/ Chars \/ Taken \/ Unknown
  PROVE  Control' /\ Calls
<1>0. Len(fmt) \in Nat /\ \A i \in 1 .. Len(fmt) : fmt[i].width \in Nat
  BY FormatsAssumption DEF ScanInv, Control
<1> USE DEF ScanInv, Control, Calls, args
<1>1. CASE Finish
  BY <1>1, <1>0, SMT DEF Finish, MatchFail
<1>2. CASE Begin
  BY <1>2, <1>0, SMT DEF Begin
<1>3. CASE NoSkip
  BY <1>3, <1>0, SMT DEF NoSkip
<1>4. CASE ReadSoFar
  BY <1>4, <1>0, SMT DEF ReadSoFar
<1>5. CASE BadConversion
  BY <1>5, <1>0, SMT DEF BadConversion, Fail
<1>6. CASE Skip
  BY <1>6, <1>0, SMT DEF Skip
<1>7. CASE Skipped
  BY <1>7, <1>0, SMT DEF Skipped, Advance
<1>8. CASE OneChar
  BY <1>8, <1>0, SMT DEF OneChar
<1>9. CASE Compare
  BY <1>9, <1>0, SMT DEF Compare, Advance, Fail, MatchFail
<1>10. CASE Width
  BY <1>10, <1>0, SMT DEF Width, D
<1>11. CASE Peek
  BY <1>11, <1>0, SMT DEF Peek, Fail
<1>12. CASE Convert
  BY <1>12, <1>0, SMT DEF Convert, Fail
<1>13. CASE Chars
  BY <1>13, <1>0, SMT DEF Chars
<1>14. CASE Taken
  BY <1>14, <1>0, SMT DEF Taken, MatchFail, Advance
<1>15. CASE Unknown
  BY <1>15, <1>0, SMT DEF Unknown, Advance
<1> QED
  BY <1>1, <1>2, <1>3, <1>4, <1>5, <1>6, <1>7, <1>8, <1>9, <1>10, <1>11, <1>12, <1>13, <1>14, <1>15

LEMMA NumberSteps ==
  ASSUME ScanInv,
         Sign \/ AfterSign \/ LeadingZero \/ AfterX \/ FirstDigit \/ Reject
           \/ Rejected \/ XDigits \/ YDigits \/ Overflow \/ IntDone \/ StoreInt
  PROVE  Control' /\ Calls
<1>0. Len(fmt) \in Nat
  BY FormatsAssumption DEF ScanInv, Control
<1> USE DEF ScanInv, Control, Calls, args
<1>1. CASE Sign
  BY <1>1, <1>0, SMT DEF Sign
<1>2. CASE AfterSign
  BY <1>2, <1>0, SMT DEF AfterSign
<1>3. CASE LeadingZero
  BY <1>3, <1>0, SMT DEF LeadingZero
<1>4. CASE AfterX
  BY <1>4, <1>0, SMT DEF AfterX
<1>5. CASE FirstDigit
  BY <1>5, <1>0, SMT DEF FirstDigit
<1>6. CASE Reject
  BY <1>6, <1>0, SMT DEF Reject
<1>7. CASE Rejected
  BY <1>7, <1>0, SMT DEF Rejected
<1>8. CASE XDigits
  BY <1>8, <1>0, SMT DEF XDigits, Digit
<1>9. CASE YDigits
  BY <1>9, <1>0, SMT DEF YDigits, Digit
<1>10. CASE Overflow
  BY <1>10, <1>0, SMT DEF Overflow
<1>11. CASE IntDone
  BY <1>11, <1>0, SMT DEF IntDone
<1>12. CASE StoreInt
  BY <1>12, <1>0, SMT DEF StoreInt, MatchFail, Advance
<1> QED
  BY <1>1, <1>2, <1>3, <1>4, <1>5, <1>6, <1>7, <1>8, <1>9, <1>10, <1>11, <1>12

(* A floating-point number is read like everything else: by one call or    *)
(* none.                                                                   *)
LEMMA WordSteps ==
  ASSUME ScanInv,
         NoPrecision \/ FloatSign \/ AfterFloatSign \/ WordChar \/ Infinite \/ WordEnds
           \/ Paren \/ NanBack \/ InParens \/ FloatReject \/ FloatRejected \/ Zero \/ ZeroBack
  PROVE  Control' /\ Calls
<1>0. Len(fmt) \in Nat
  BY FormatsAssumption DEF ScanInv, Control
<1> USE DEF ScanInv, Control, Calls, Within, args
<1>1. CASE NoPrecision
  BY <1>1, <1>0, SMT DEF NoPrecision
<1>2. CASE FloatSign
  BY <1>2, <1>0, SMT DEF FloatSign
<1>3. CASE AfterFloatSign
  BY <1>3, <1>0, SMT DEF AfterFloatSign
<1>4. CASE WordChar
  <2>1. pc \in {"infinity", "nan"} /\ pc' = pc /\ UNCHANGED <<fmt, k>> /\ (ShGetC \/ UNCHANGED file)
    BY <1>4 DEF WordChar, InWord, Word
  <2> QED
    BY <2>1, <1>0, SMT
<1>5. CASE Infinite
  BY <1>5, <1>0, SMT DEF Infinite, Gives
<1>6. CASE WordEnds
  BY <1>6, <1>0, SMT DEF WordEnds, Wrong
<1>7. CASE Paren
  BY <1>7, <1>0, SMT DEF Paren
<1>8. CASE NanBack
  BY <1>8, <1>0, SMT DEF NanBack, Gives
<1>9. CASE InParens
  BY <1>9, <1>0, SMT DEF InParens, Gives, Wrong
<1>10. CASE FloatReject
  BY <1>10, <1>0, SMT DEF FloatReject
<1>11. CASE FloatRejected
  BY <1>11, <1>0, SMT DEF FloatRejected
<1>12. CASE Zero
  BY <1>12, <1>0, SMT DEF Zero
<1>13. CASE ZeroBack
  BY <1>13, <1>0, SMT DEF ZeroBack
<1> QED
  BY <1>1, <1>2, <1>3, <1>4, <1>5, <1>6, <1>7, <1>8, <1>9, <1>10, <1>11, <1>12, <1>13

LEMMA FloatSteps ==
  ASSUME ScanInv,
         FirstOfFloat \/ Zeros \/ Fraction \/ Point \/ FloatDigit \/ DigitsEnd
           \/ ExpSign \/ AfterExpSign \/ ExpFirst \/ ExpDigit \/ ExpEnds \/ StoreFloat
  PROVE  Control' /\ Calls
<1>0. Len(fmt) \in Nat
  BY FormatsAssumption DEF ScanInv, Control
<1> USE DEF ScanInv, Control, Calls, Within, args
<1>1. CASE FirstOfFloat
  BY <1>1, <1>0, SMT DEF FirstOfFloat
<1>2. CASE Zeros
  BY <1>2, <1>0, SMT DEF Zeros
<1>3. CASE Fraction
  BY <1>3, <1>0, SMT DEF Fraction
<1>4. CASE Point
  BY <1>4, <1>0, SMT DEF Point
<1>5. CASE FloatDigit
  BY <1>5, <1>0, SMT DEF FloatDigit
<1>6. CASE DigitsEnd
  BY <1>6, <1>0, SMT DEF DigitsEnd, Wrong, Scaled
<1>7. CASE ExpSign
  BY <1>7, <1>0, SMT DEF ExpSign
<1>8. CASE AfterExpSign
  BY <1>8, <1>0, SMT DEF AfterExpSign
<1>9. CASE ExpFirst
  BY <1>9, <1>0, SMT DEF ExpFirst, Wrong
<1>10. CASE ExpDigit
  BY <1>10, <1>0, SMT DEF ExpDigit
<1>11. CASE ExpEnds
  BY <1>11, <1>0, SMT DEF ExpEnds, Scaled
<1>12. CASE StoreFloat
  BY <1>12, <1>0, SMT DEF StoreFloat, MatchFail, Advance
<1> QED
  BY <1>1, <1>2, <1>3, <1>4, <1>5, <1>6, <1>7, <1>8, <1>9, <1>10, <1>11, <1>12

LEMMA CallsKeep ==
  ASSUME ScanInv, Calls, Control'
  PROVE  ScanInv' /\ [Reader!Next]_(Reader!Stream)
<1>1. CASE \E n \in Nat : ShLim(n)
  BY <1>1, LimitSteps DEF ScanInv, Reader!Next
<1>2. CASE Started /\ ShGetC
  BY <1>2, GetSteps DEF ScanInv, Reader!Next
<1>3. CASE Started /\ ShUnget
  BY <1>3, UngetSteps DEF ScanInv, Reader!Next
<1>4. CASE UNCHANGED file /\ (pc' \in {"next", "width", "end"} \/ Started)
  <2>1. /\ text' = text /\ cookie' = cookie /\ rpos' = rpos /\ rend' = rend
        /\ shend' = shend /\ shlim' = shlim /\ shcnt' = shcnt /\ c' = c
    BY <1>4 DEF file
  <2>2. Typed' /\ FileOK' /\ Started' = Started
    BY <2>1 DEF ScanInv, Typed, FileOK, Started, Count, Consumed
  <2>3. UNCHANGED Reader!Stream
    BY <2>1 DEF Reader!Stream, Consumed, CountsFrom, Count
  <2> QED
    BY <1>4, <2>2, <2>3 DEF ScanInv
<1> QED
  BY <1>1, <1>2, <1>3, <1>4 DEF Calls

LEMMA ScanInit == FloatInit => ScanInv /\ Reader!Init
<1> SUFFICES ASSUME FloatInit PROVE ScanInv /\ Reader!Init
  OBVIOUS
<1>1. text \in Seq(Char) /\ fmt \in Formats /\ k = 1 /\ pc = "next"
  BY TextsAssumption DEF FloatInit, Init
<1>2. cookie = 1 /\ rpos = 0 /\ rend = 0 /\ shend = 0 /\ shlim = 0 /\ shcnt = 0 /\ c = None
  BY DEF FloatInit, Init, FileInit, NULL, Buf
<1>3. FileOK
  BY <1>1, <1>2, CharAssumption, SMT DEF FileOK, NULL, Buf
<1> QED
  BY <1>1, <1>2, <1>3 DEF ScanInv, Typed, Control, Reader!Init, Consumed, CountsFrom, NULL

LEMMA StepKeeps == ScanInv /\ [ScanNext]_floatVars => ScanInv' /\ [Reader!Next]_(Reader!Stream)
<1> SUFFICES ASSUME ScanInv, [ScanNext]_floatVars
             PROVE  ScanInv' /\ [Reader!Next]_(Reader!Stream)
  OBVIOUS
<1>1. CASE Step
  BY <1>1, DirectiveSteps, NumberSteps, CallsKeep DEF Step
<1>2. CASE FloatStep
  BY <1>2, WordSteps, FloatSteps, CallsKeep DEF FloatStep
<1>3. CASE UNCHANGED vars
  <2>1. UNCHANGED file /\ fmt' = fmt /\ k' = k /\ pc' = pc
    BY <1>3 DEF vars, file
  <2>2. Calls /\ Control'
    BY <2>1 DEF Calls, Control, ScanInv
  <2> QED
    BY <2>2, CallsKeep
<1> QED
  BY <1>1, <1>2, <1>3 DEF ScanNext, ScanStep, Ended, floatVars

(* What the scanner is given by its reader is a stream: every scan, seen   *)
(* by what was read and from where the limit counts, is one of Stream's.   *)
THEOREM ScansAStream == ScanSpec => ReaderIsStream
BY ScanInit, StepKeeps, PTL DEF ScanSpec, ReaderIsStream, Reader!Spec

(* The pointers of the reader stay in the string it was given.             *)
THEOREM PointersInText == ScanSpec => []FileOK
<1>1. ScanInv => FileOK
  BY DEF ScanInv
<1> QED
  BY <1>1, ScanInit, StepKeeps, PTL DEF ScanSpec

(* ---- greatest elements ------------------------------------------------- *)

LEMMA GreatestOfSet ==
  ASSUME NEW S, S \subseteq Int, NEW m \in S, \A i \in S : i <= m
  PROVE  Max(S) = m
<1> DEFINE P(x) == x \in S /\ \A y \in S : x >= y
<1>1. P(m)
  OBVIOUS
<1>2. ASSUME NEW x, P(x) PROVE x = m
  <2>1. x \in Int /\ m \in Int /\ x <= m /\ x >= m
    BY <1>2
  <2> QED
    BY <2>1
<1>3. Max(S) = CHOOSE x : P(x)
  BY DEF Max
<1> HIDE DEF P
<1> QED
  BY <1>1, <1>2, <1>3

LEMMA LastOfRange ==
  ASSUME NEW n \in Nat \ {0}
  PROVE  Max(1 .. n) = n /\ (1 .. n) \ {n} = 1 .. n - 1 /\ 1 .. n # {}
<1>1. n \in 1 .. n /\ 1 .. n \subseteq Int /\ \A i \in 1 .. n : i <= n
  OBVIOUS
<1>2. Max(1 .. n) = n
  BY <1>1, GreatestOfSet
<1>3. (1 .. n) \ {n} = 1 .. n - 1
  OBVIOUS
<1> QED
  BY <1>1, <1>2, <1>3

(* ---- numerals --------------------------------------------------------- *)
(* FoldLeft is defined by a recursive function on sets of positions.       *)

NumeralParts(ds, radix, f, S) ==
    f = [s \in SUBSET S |-> IF s = {} THEN 0 ELSE f[s \ {Max(s)}] * radix + Val(ds[Max(s)])]

LEMMA NumeralByParts ==
  ASSUME NEW ds, NEW radix
  PROVE  Numeral(ds, radix) = (CHOOSE f : NumeralParts(ds, radix, f, DOMAIN ds))[DOMAIN ds]
BY DEF Numeral, FoldLeft, MapThenFoldSet, NumeralParts

LEMMA NumeralPartsExist ==
  ASSUME NEW ds, NEW radix, NEW n \in Nat
  PROVE  \E f : NumeralParts(ds, radix, f, 1 .. n)
<1> DEFINE T == {i \in Nat : ~ \E f : NumeralParts(ds, radix, f, 1 .. i)}
<1> SUFFICES ASSUME T # {} PROVE FALSE
  OBVIOUS
<1>1. PICK m \in T : \A i \in T : m <= i
  <2> T \subseteq Nat
    OBVIOUS
  <2> HIDE DEF T
  <2> QED
    BY LeastNatural
<1>2. m # 0
  <2> DEFINE g == [s \in SUBSET (1 .. 0) |-> 0]
  <2>1. SUBSET (1 .. 0) = {{}}
    OBVIOUS
  <2>2. NumeralParts(ds, radix, g, 1 .. 0)
    BY <2>1 DEF NumeralParts
  <2> QED
    BY <2>2
<1>3. m - 1 \in Nat /\ m - 1 \notin T
  BY <1>1, <1>2
<1>4. PICK f : NumeralParts(ds, radix, f, 1 .. m - 1)
  BY <1>3
<1> DEFINE g == [s \in SUBSET (1 .. m) |->
                   IF m \in s THEN f[s \ {m}] * radix + Val(ds[m]) ELSE f[s]]
<1>5. ASSUME NEW s \in SUBSET (1 .. m)
      PROVE  g[s] = IF s = {} THEN 0 ELSE g[s \ {Max(s)}] * radix + Val(ds[Max(s)])
  <2>1. CASE m \in s
    <3>1. Max(s) = m
      <4>1. s \subseteq Int /\ m \in s /\ \A i \in s : i <= m
        BY <2>1, <1>1
      <4> HIDE DEF T
      <4> QED
        BY <4>1, GreatestOfSet
    <3>2. s \ {m} \in SUBSET (1 .. m) /\ m \notin s \ {m}
      OBVIOUS
    <3>3. g[s \ {m}] = f[s \ {m}]
      BY <3>2
    <3> QED
      BY <2>1, <3>1, <3>3
  <2>2. CASE m \notin s
    <3>1. s \in SUBSET (1 .. m - 1)
      BY <2>2, <1>3
    <3>2. f[s] = IF s = {} THEN 0 ELSE f[s \ {Max(s)}] * radix + Val(ds[Max(s)])
      BY <1>4, <3>1 DEF NumeralParts
    <3>3. g[s] = f[s] /\ g[s \ {Max(s)}] = f[s \ {Max(s)}]
      BY <2>2
    <3> HIDE DEF g
    <3> QED
      BY <3>2, <3>3
  <2> QED
    BY <2>1, <2>2
<1>6. NumeralParts(ds, radix, g, 1 .. m)
  <2>1. DOMAIN g = SUBSET (1 .. m) /\ g = [s \in DOMAIN g |-> g[s]]
    OBVIOUS
  <2> HIDE DEF g
  <2> QED
    BY <1>5, <2>1, Zenon DEF NumeralParts
<1> QED
  BY <1>6

LEMMA NumeralPartsAgree ==
  ASSUME NEW ds, NEW es, NEW radix, NEW n \in Nat, NEW l \in Nat, l <= n, NEW f, NEW g,
         NumeralParts(ds, radix, f, 1 .. n), NumeralParts(es, radix, g, 1 .. l),
         \A i \in 1 .. l : es[i] = ds[i]
  PROVE  f[1 .. l] = g[1 .. l]
<1> DEFINE T == {i \in 0 .. l : f[1 .. i] # g[1 .. i]}
<1> SUFFICES ASSUME T # {} PROVE FALSE
  OBVIOUS
<1>1. PICK m \in T : \A i \in T : m <= i
  <2> T \subseteq Nat
    OBVIOUS
  <2> HIDE DEF T
  <2> QED
    BY LeastNatural
<1>2. 1 .. m \in SUBSET (1 .. n) /\ 1 .. m \in SUBSET (1 .. l) /\ m \in 0 .. l
  BY <1>1
<1>3. /\ f[1 .. m] = IF 1 .. m = {} THEN 0 ELSE f[(1 .. m) \ {Max(1 .. m)}] * radix + Val(ds[Max(1 .. m)])
      /\ g[1 .. m] = IF 1 .. m = {} THEN 0 ELSE g[(1 .. m) \ {Max(1 .. m)}] * radix + Val(es[Max(1 .. m)])
  BY <1>2, Zenon DEF NumeralParts
<1>4. m # 0
  BY <1>1, <1>3
<1>5. Max(1 .. m) = m /\ (1 .. m) \ {m} = 1 .. m - 1 /\ 1 .. m # {}
  <2>1. m \in Nat \ {0}
    BY <1>2, <1>4
  <2> QED
    BY <2>1, LastOfRange
<1>6. f[1 .. m - 1] = g[1 .. m - 1] /\ es[m] = ds[m]
  BY <1>1, <1>2, <1>4
<1>7. f[1 .. m] = g[1 .. m]
  BY <1>3, <1>5, <1>6
<1> QED
  BY <1>1, <1>7

LEMMA NumeralEmpty == ASSUME NEW radix PROVE Numeral(<<>>, radix) = 0
<1>1. DOMAIN <<>> = 1 .. 0
  OBVIOUS
<1>2. PICK f : NumeralParts(<<>>, radix, f, 1 .. 0)
  BY NumeralPartsExist
<1> DEFINE g == CHOOSE h : NumeralParts(<<>>, radix, h, 1 .. 0)
<1>3. NumeralParts(<<>>, radix, g, 1 .. 0)
  BY <1>2, Zenon
<1>4. Numeral(<<>>, radix) = g[1 .. 0]
  BY <1>1, NumeralByParts
<1> HIDE DEF g
<1>5. 1 .. 0 = {} /\ 1 .. 0 \in SUBSET (1 .. 0)
  OBVIOUS
<1>6. g[1 .. 0] = 0
  BY <1>3, <1>5 DEF NumeralParts
<1> QED
  BY <1>4, <1>6

LEMMA NumeralStep ==
  ASSUME NEW ds, NEW es, NEW radix, NEW n \in Nat \ {0},
         DOMAIN ds = 1 .. n, DOMAIN es = 1 .. n - 1, \A i \in 1 .. n - 1 : es[i] = ds[i]
  PROVE  Numeral(ds, radix) = Numeral(es, radix) * radix + Val(ds[n])
<1> DEFINE f == CHOOSE h : NumeralParts(ds, radix, h, 1 .. n)
           g == CHOOSE h : NumeralParts(es, radix, h, 1 .. n - 1)
<1>1. NumeralParts(ds, radix, f, 1 .. n)
  <2>1. \E h : NumeralParts(ds, radix, h, 1 .. n)
    BY NumeralPartsExist
  <2> QED
    BY <2>1, Zenon
<1>2. NumeralParts(es, radix, g, 1 .. n - 1)
  <2>1. n - 1 \in Nat
    OBVIOUS
  <2>2. \E h : NumeralParts(es, radix, h, 1 .. n - 1)
    BY <2>1, NumeralPartsExist
  <2> QED
    BY <2>2, Zenon
<1>3. Numeral(ds, radix) = f[1 .. n] /\ Numeral(es, radix) = g[1 .. n - 1]
  BY NumeralByParts
<1> HIDE DEF f, g
<1>4. f[1 .. n - 1] = g[1 .. n - 1]
  <2>1. n - 1 \in Nat /\ n - 1 <= n
    OBVIOUS
  <2> QED
    BY <1>1, <1>2, <2>1, NumeralPartsAgree
<1>5. Max(1 .. n) = n /\ (1 .. n) \ {n} = 1 .. n - 1 /\ 1 .. n # {}
  BY LastOfRange
<1>6. f[1 .. n] = IF 1 .. n = {} THEN 0 ELSE f[(1 .. n) \ {Max(1 .. n)}] * radix + Val(ds[Max(1 .. n)])
  BY <1>1, Zenon DEF NumeralParts
<1> QED
  BY <1>3, <1>4, <1>5, <1>6

(* ---- fields ------------------------------------------------------------ *)

LEMMA SmallestOfSet ==
  ASSUME NEW S, S \subseteq Int, NEW m \in S, \A i \in S : m <= i
  PROVE  Min(S) = m
<1> DEFINE P(x) == x \in S /\ \A y \in S : x <= y
<1>1. P(m)
  OBVIOUS
<1>2. ASSUME NEW x, P(x) PROVE x = m
  <2>1. x \in Int /\ m \in Int /\ x <= m /\ x >= m
    BY <1>2
  <2> QED
    BY <2>1
<1>3. Min(S) = CHOOSE x : P(x)
  BY DEF Min
<1> HIDE DEF P
<1> QED
  BY <1>1, <1>2, <1>3

FieldLen(at, width) ==
    IF width = 0 \/ at + width >= Len(text) THEN Len(text) - at ELSE width

LEMMA FieldIs ==
  ASSUME Typed, NEW at \in 0 .. Len(text), NEW width \in Nat
  PROVE  /\ Field(at, width) \in Seq(Char)
         /\ Len(Field(at, width)) = FieldLen(at, width)
         /\ FieldLen(at, width) \in 0 .. Len(text) - at
         /\ \A i \in 1 .. FieldLen(at, width) :
               Field(at, width)[i] = text[at + i] /\ text[at + i] \in Char
<1>1. Len(text) \in Nat /\ text \in Seq(Char)
  BY DEF Typed
<1> DEFINE end == IF width = 0 THEN Len(text) ELSE Min({Len(text), at + width})
<1>2. end = at + FieldLen(at, width)
  <2>1. CASE width # 0 /\ at + width >= Len(text)
    <3> DEFINE S == {Len(text), at + width}
    <3>0. S \subseteq Int /\ Len(text) \in S /\ \A i \in S : Len(text) <= i
      BY <1>1, <2>1
    <3> HIDE DEF S
    <3>1. Min(S) = Len(text)
      BY <3>0, SmallestOfSet
    <3> USE DEF S
    <3> QED
      BY <1>1, <2>1, <3>1 DEF FieldLen
  <2>2. CASE width # 0 /\ at + width < Len(text)
    <3> DEFINE S == {Len(text), at + width}
    <3>0. S \subseteq Int /\ at + width \in S /\ \A i \in S : at + width <= i
      BY <1>1, <2>2
    <3> HIDE DEF S
    <3>1. Min(S) = at + width
      BY <3>0, SmallestOfSet
    <3> USE DEF S
    <3> QED
      BY <1>1, <2>2, <3>1 DEF FieldLen
  <2>3. CASE width = 0
    BY <1>1, <2>3 DEF FieldLen
  <2> QED
    BY <1>1, <2>1, <2>2, <2>3
<1>3. FieldLen(at, width) \in 0 .. Len(text) - at
  BY <1>1 DEF FieldLen
<1>4. Field(at, width) = SubSeq(text, at + 1, end)
  BY DEF Field
<1> HIDE DEF end
<1>5. at + 1 \in 1 .. Len(text) + 1 /\ end \in (at + 1) - 1 .. Len(text)
  BY <1>1, <1>2, <1>3
<1>6. /\ SubSeq(text, at + 1, end) \in Seq(Char)
      /\ Len(SubSeq(text, at + 1, end)) = FieldLen(at, width)
      /\ \A i \in 1 .. FieldLen(at, width) :
            SubSeq(text, at + 1, end)[i] = text[at + i] /\ at + i \in 1 .. Len(text)
  BY <1>1, <1>2, <1>3, <1>5, SubSeqProperties
<1>7. \A i \in 1 .. Len(text) : text[i] \in Char
  BY <1>1
<1> QED
  BY <1>3, <1>4, <1>6, <1>7

(* ---- how much of a field was read -------------------------------------- *)

(* j characters of the field at pos have been asked for, and c is the last *)
(* of them, or the end of the field.                                       *)
Read(width, j) ==
    LET f == Field(pos, width)
    IN /\ j \in 0 .. Len(f) + 1
       /\ CountsFrom = pos /\ shlim = width
       /\ Consumed = pos + IF j <= Len(f) THEN j ELSE Len(f)
       /\ c = IF j = 0 THEN None ELSE IF j <= Len(f) THEN f[j] ELSE EOF

PosOK == pos \in 0 .. Len(text)

LEMMA CountIs ==
  ASSUME FileOK, Started
  PROVE  Count = Consumed - CountsFrom /\ Count \in Nat /\ Consumed \in Nat
<1>1. CASE rend = 0
  BY <1>1, SMT DEF FileOK, Started, CountsFrom, Consumed, Count, NULL, Buf
<1>2. CASE rend # 0
  BY <1>2, SMT DEF FileOK, CountsFrom, Consumed, Count, NULL, Buf
<1> QED
  BY <1>1, <1>2

LEMMA CountIsNext ==
  ASSUME FileOK', Started'
  PROVE  Count' = Consumed' - CountsFrom' /\ Count' \in Nat /\ Consumed' \in Nat
<1>1. CASE rend' = 0
  BY <1>1, SMT DEF FileOK, Started, CountsFrom, Consumed, Count, NULL, Buf
<1>2. CASE rend' # 0
  BY <1>2, SMT DEF FileOK, CountsFrom, Consumed, Count, NULL, Buf
<1> QED
  BY <1>1, <1>2

LEMMA LimitRead ==
  ASSUME Typed, Reader!Limit, PosOK, Consumed = pos, pos' = pos,
         NEW w, shlim' = w, w \in Nat
  PROVE  Read(w, 0)'
<1>1. text' = text /\ Consumed' = pos /\ CountsFrom' = pos /\ c' = None
  BY DEF Reader!Limit
<1>2. Field(pos, w)' = Field(pos, w)
  BY <1>1 DEF Field
<1>3. Len(Field(pos, w)) \in Nat
  BY FieldIs DEF PosOK
<1> QED
  BY <1>1, <1>2, <1>3 DEF Read, PosOK

LEMMA GetRead ==
  ASSUME Typed, Reader!Get, PosOK, pos' = pos, NEW w \in Nat, NEW j, Read(w, j),
         NEW n, n = IF j <= Len(Field(pos, w)) THEN j + 1 ELSE j
  PROVE  Read(w, n)' /\ Field(pos, w)' = Field(pos, w)
<1> DEFINE f == Field(pos, w)
<1>1. text' = text /\ CountsFrom' = CountsFrom /\ shlim' = shlim
  BY DEF Reader!Get
<1>2. Field(pos, w)' = f
  BY <1>1 DEF Field
<1>3. /\ Len(f) = FieldLen(pos, w) /\ FieldLen(pos, w) \in 0 .. Len(text) - pos
      /\ \A i \in 1 .. Len(f) : f[i] = text[pos + i]
  BY FieldIs DEF PosOK
<1>4. Len(text) \in Nat
  BY DEF Typed
<1>5. /\ j \in 0 .. Len(f) + 1 /\ CountsFrom = pos /\ shlim = w
      /\ Consumed = pos + IF j <= Len(f) THEN j ELSE Len(f)
      /\ c = IF j = 0 THEN None ELSE IF j <= Len(f) THEN f[j] ELSE EOF
  BY DEF Read
<1>9. n = IF j <= Len(f) THEN j + 1 ELSE j
  OBVIOUS
<1> HIDE DEF f
<1>6. Reader!Exhausted <=> j >= Len(f)
  BY <1>3, <1>4, <1>5 DEF Reader!Exhausted, PosOK, FieldLen
<1>7. CASE j >= Len(f)
  <2>1. Consumed' = Consumed /\ c' = EOF
    BY <1>6, <1>7 DEF Reader!Get
  <2>2. n = Len(f) + 1
    BY <1>9, <1>3, <1>4, <1>5, <1>7
  <2>3. Consumed' = pos + Len(f) /\ n \in 0 .. Len(f) + 1 /\ n # 0 /\ ~(n <= Len(f))
    BY <1>3, <1>4, <1>5, <1>7, <2>1, <2>2
  <2> QED
    BY <1>1, <1>2, <1>5, <2>1, <2>3 DEF Read, f
<1>8. CASE ~(j >= Len(f))
  <2>1. Consumed' = Consumed + 1 /\ c' = text[Consumed + 1]
    BY <1>6, <1>8 DEF Reader!Get
  <2>2. n = j + 1 /\ n \in 1 .. Len(f) /\ n \in 0 .. Len(f) + 1 /\ n # 0 /\ Consumed = pos + j
    BY <1>9, <1>3, <1>4, <1>5, <1>8
  <2>3. c' = text[pos + n] /\ Consumed' = pos + n
    BY <2>1, <2>2, <1>3, <1>4, <1>5 DEF PosOK
  <2>4. c' = f[n]
    BY <1>3, <2>2, <2>3
  <2> QED
    BY <1>1, <1>2, <1>5, <2>2, <2>3, <2>4 DEF Read, f
<1> QED
  BY <1>7, <1>8, <1>2 DEF f

(* A character is given back, the end is not: what lies before it is read. *)
LEMMA UngetRead ==
  ASSUME Typed, Reader!Unget, PosOK, NEW w \in Nat, NEW j, Read(w, j), j # 0
  PROVE  /\ CountsFrom' = pos /\ Consumed' = pos + j - 1 /\ c' = None /\ shlim' = w
         /\ text' = text /\ j - 1 \in 0 .. Len(Field(pos, w))
<1> DEFINE f == Field(pos, w)
<1>1. text' = text /\ CountsFrom' = CountsFrom /\ shlim' = shlim /\ c' = None
      /\ Consumed' = IF c = EOF THEN Consumed ELSE Consumed - 1
  BY DEF Reader!Unget
<1>2. Len(f) \in Nat /\ \A i \in 1 .. Len(f) : f[i] \in Char
  <2>1. f \in Seq(Char)
    BY FieldIs DEF PosOK
  <2> HIDE DEF f
  <2> QED
    BY <2>1
<1>3. /\ j \in 0 .. Len(f) + 1 /\ CountsFrom = pos /\ shlim = w
      /\ Consumed = pos + IF j <= Len(f) THEN j ELSE Len(f)
      /\ c = IF j = 0 THEN None ELSE IF j <= Len(f) THEN f[j] ELSE EOF
  BY DEF Read
<1> HIDE DEF f
<1>4. CASE j <= Len(f)
  <2>1. c # EOF /\ Consumed = pos + j
    BY <1>2, <1>3, <1>4, CharAssumption
  <2> QED
    BY <1>1, <1>2, <1>3, <1>4, <2>1 DEF PosOK, f, Typed
<1>5. CASE ~(j <= Len(f))
  <2>1. c = EOF /\ j = Len(f) + 1 /\ Consumed = pos + Len(f)
    BY <1>2, <1>3, <1>5
  <2> QED
    BY <1>1, <1>2, <1>3, <1>5, <2>1 DEF PosOK, f, Typed
<1> QED
  BY <1>4, <1>5

(* ---- what is a numeral, by positions ---------------------------------- *)

LEMMA ValIs == /\ \A ch : Val(ch) \in 0 .. 255
               /\ Val("0") = 0 /\ Val("x") = 33 /\ Val("+") = 255 /\ Val("-") = 255
               /\ Val(EOF) = 255
               /\ \A ch : Val(ch) < 16 => ch \notin {"+", "-", "x"} /\ ch # EOF
<1>1. \A ch \in DOMAIN Digits : Digits[ch] \in 0 .. 34
  BY DEF Digits
<1>2. \A ch : Val(ch) \in 0 .. 255
  BY <1>1 DEF Val
<1>3. Val("0") = 0 /\ Val("x") = 33
  BY DEF Val, Digits
<1>4. Val("+") = 255 /\ Val("-") = 255
  BY DEF Val, Digits
<1>5. Val(EOF) = 255
  BY EndAssumption DEF Val
<1> QED
  BY <1>2, <1>3, <1>4, <1>5

LEMMA ValType == ASSUME NEW ch PROVE Val(ch) \in Nat /\ Val(ch) <= 255
BY ValIs

SignLen(f) == IF f # <<>> /\ f[1] \in {"+", "-"} THEN 1 ELSE 0

HexAt(f, b) ==
    LET o == SignLen(f)
    IN b \in {0, 16} /\ Len(f) >= o + 2 /\ f[o + 1] = "0" /\ f[o + 2] = "x"

DigitsFrom(f, b) == SignLen(f) + IF HexAt(f, b) THEN 3 ELSE 1

RadixAt(f, b) ==
    IF b # 0 THEN b
    ELSE IF HexAt(f, b) THEN 16
    ELSE IF f[SignLen(f) + 1] = "0" THEN 8 ELSE 10

NumeralAt(f, b) ==
    Len(f) >= DigitsFrom(f, b) /\ \A i \in DigitsFrom(f, b) .. Len(f) : Val(f[i]) < RadixAt(f, b)

Bases == {0, 8, 10, 16}

LEMMA UnsignedIs ==
  ASSUME NEW S, NEW f \in Seq(S)
  PROVE  /\ Unsigned(f) \in Seq(S)
         /\ Len(Unsigned(f)) = Len(f) - SignLen(f)
         /\ SignLen(f) \in {0, 1} /\ SignLen(f) <= Len(f)
         /\ \A i \in 1 .. Len(f) - SignLen(f) : Unsigned(f)[i] = f[SignLen(f) + i]
<1>1. CASE f # <<>> /\ f[1] \in {"+", "-"}
  <2>1. Unsigned(f) = Tail(f) /\ SignLen(f) = 1
    BY <1>1 DEF Unsigned, SignLen
  <2>2. /\ Tail(f) \in Seq(S) /\ Len(Tail(f)) = Len(f) - 1
        /\ \A i \in 1 .. Len(Tail(f)) : Tail(f)[i] = f[i + 1]
    BY <1>1, HeadTailProperties
  <2>3. Len(f) \in Nat /\ Len(f) # 0
    BY <1>1
  <2> QED
    BY <2>1, <2>2, <2>3
<1>2. CASE ~(f # <<>> /\ f[1] \in {"+", "-"})
  <2>1. Unsigned(f) = f /\ SignLen(f) = 0
    BY <1>2 DEF Unsigned, SignLen
  <2> QED
    BY <2>1
<1> QED
  BY <1>1, <1>2

LEMMA PrefixedIs ==
  ASSUME NEW S, NEW f \in Seq(S), NEW b
  PROVE  Prefixed(Unsigned(f), b) <=> HexAt(f, b)
<1>1. /\ Len(Unsigned(f)) = Len(f) - SignLen(f) /\ SignLen(f) \in {0, 1} /\ SignLen(f) <= Len(f)
      /\ \A i \in 1 .. Len(f) - SignLen(f) : Unsigned(f)[i] = f[SignLen(f) + i]
  BY UnsignedIs
<1>2. Len(f) \in Nat
  OBVIOUS
<1> QED
  BY <1>1, <1>2 DEF Prefixed, HexAt

LEMMA DigitsAre ==
  ASSUME NEW S, NEW f \in Seq(S), NEW b
  PROVE  LET ds == DigitsOf(Unsigned(f), b)
         IN /\ ds \in Seq(S)
            /\ Len(ds) = IF DigitsFrom(f, b) <= Len(f) THEN Len(f) - DigitsFrom(f, b) + 1 ELSE 0
            /\ \A i \in 1 .. Len(ds) : ds[i] = f[DigitsFrom(f, b) + i - 1]
<1> DEFINE u == Unsigned(f)
           o == SignLen(f)
<1>1. /\ u \in Seq(S) /\ Len(u) = Len(f) - o /\ o \in {0, 1} /\ o <= Len(f)
      /\ \A i \in 1 .. Len(f) - o : u[i] = f[o + i]
  BY UnsignedIs
<1>2. Len(f) \in Nat
  OBVIOUS
<1>3. Prefixed(u, b) <=> HexAt(f, b)
  BY PrefixedIs
<1>4. CASE HexAt(f, b)
  <2>1. DigitsOf(u, b) = SubSeq(u, 3, Len(u)) /\ DigitsFrom(f, b) = o + 3
    BY <1>3, <1>4 DEF DigitsOf, DigitsFrom
  <2>2. Len(u) \in Nat /\ Len(u) >= 2
    BY <1>1, <1>2, <1>4 DEF HexAt
  <2> HIDE DEF u
  <2>3. /\ SubSeq(u, 3, Len(u)) \in Seq(S)
        /\ Len(SubSeq(u, 3, Len(u))) = IF 3 <= Len(u) THEN Len(u) - 2 ELSE 0
        /\ \A i \in 1 .. Len(u) - 2 : SubSeq(u, 3, Len(u))[i] = u[i + 2]
    <3>1. \A i \in 3 .. Len(u) : u[i] \in S
      BY <1>1
    <3>2. 3 \in Int /\ Len(u) \in Int
      BY <2>2
    <3>3. /\ SubSeq(u, 3, Len(u)) \in Seq(S)
          /\ Len(SubSeq(u, 3, Len(u))) = IF 3 <= Len(u) THEN Len(u) - 3 + 1 ELSE 0
          /\ \A i \in 1 .. Len(u) - 3 + 1 : SubSeq(u, 3, Len(u))[i] = u[3 + i - 1]
      BY <3>1, <3>2, SubSeqProperties
    <3> QED
      BY <2>2, <3>3
  <2> HIDE DEF o
  <2>4. \A i \in 1 .. Len(u) - 2 : u[i + 2] = f[o + 3 + i - 1]
    BY <1>1, <1>2, <2>2
  <2> QED
    BY <1>1, <1>2, <2>1, <2>2, <2>3, <2>4 DEF u
<1>5. CASE ~HexAt(f, b)
  <2>1. DigitsOf(u, b) = u /\ DigitsFrom(f, b) = o + 1
    BY <1>3, <1>5 DEF DigitsOf, DigitsFrom
  <2> QED
    BY <1>1, <1>2, <2>1
<1> QED
  BY <1>4, <1>5

LEMMA RadixIs ==
  ASSUME NEW S, NEW f \in Seq(S), NEW b, Len(f) > SignLen(f)
  PROVE  Radix(Unsigned(f), b) = RadixAt(f, b)
<1> DEFINE u == Unsigned(f)
<1>1. SignLen(f) \in {0, 1} /\ u[1] = f[SignLen(f) + 1]
  <2>1. SignLen(f) \in {0, 1} /\ \A i \in 1 .. Len(f) - SignLen(f) : u[i] = f[SignLen(f) + i]
    BY UnsignedIs
  <2>2. 1 \in 1 .. Len(f) - SignLen(f)
    BY <2>1
  <2> QED
    BY <2>1, <2>2
<1>2. Prefixed(u, b) <=> HexAt(f, b)
  BY PrefixedIs
<1> HIDE DEF u
<1>3. Radix(u, b) = RadixAt(f, b)
  BY <1>1, <1>2 DEF Radix, RadixAt
<1> QED
  BY <1>3 DEF u

LEMMA NumeralIs ==
  ASSUME NEW S, NEW f \in Seq(S), NEW b
  PROVE  IsNumeral(f, b) <=> NumeralAt(f, b)
<1> DEFINE ds == DigitsOf(Unsigned(f), b)
           d == DigitsFrom(f, b)
<1>1. /\ ds \in Seq(S) /\ Len(ds) = IF d <= Len(f) THEN Len(f) - d + 1 ELSE 0
      /\ \A i \in 1 .. Len(ds) : ds[i] = f[d + i - 1]
  BY DigitsAre
<1>2. SignLen(f) \in {0, 1} /\ d \in SignLen(f) + 1 .. SignLen(f) + 3 /\ Len(f) \in Nat
  BY DEF SignLen, DigitsFrom
<1>3. IsNumeral(f, b) <=> ds # <<>> /\ \A i \in DOMAIN ds : Val(ds[i]) < Radix(Unsigned(f), b)
  BY DEF IsNumeral
<1>4. NumeralAt(f, b) <=> Len(f) >= d /\ \A i \in d .. Len(f) : Val(f[i]) < RadixAt(f, b)
  BY DEF NumeralAt
<1> HIDE DEF ds, d
<1>5. CASE d <= Len(f)
  <2>1. Radix(Unsigned(f), b) = RadixAt(f, b)
    BY <1>2, <1>5, RadixIs
  <2>2. ds # <<>> /\ DOMAIN ds = 1 .. Len(f) - d + 1
    BY <1>1, <1>2, <1>5
  <2>3. ASSUME NEW i \in d .. Len(f), \A m \in DOMAIN ds : Val(ds[m]) < RadixAt(f, b)
        PROVE  Val(f[i]) < RadixAt(f, b)
    <3>1. i - d + 1 \in DOMAIN ds /\ ds[i - d + 1] = f[d + (i - d + 1) - 1]
      BY <1>1, <1>2, <2>2
    <3>2. d + (i - d + 1) - 1 = i
      BY <1>2
    <3> QED
      BY <2>3, <3>1, <3>2
  <2>4. ASSUME NEW i \in DOMAIN ds, \A m \in d .. Len(f) : Val(f[m]) < RadixAt(f, b)
        PROVE  Val(ds[i]) < RadixAt(f, b)
    <3>1. d + i - 1 \in d .. Len(f) /\ ds[i] = f[d + i - 1]
      BY <1>1, <1>2, <2>2, <2>4, SMTT(30)
    <3> QED
      BY <2>4, <3>1
  <2> QED
    BY <1>3, <1>4, <1>5, <2>1, <2>2, <2>3, <2>4
<1>6. CASE ~(d <= Len(f))
  <2>1. ds = <<>>
    BY <1>1, <1>6
  <2> QED
    BY <1>3, <1>4, <1>6, <2>1, <1>2
<1> QED
  BY <1>5, <1>6

LEMMA MagnitudeIs ==
  ASSUME NEW S, NEW f \in Seq(S), NEW b, NEW ds \in Seq(S), DigitsFrom(f, b) <= Len(f),
         Len(ds) = Len(f) - DigitsFrom(f, b) + 1,
         \A i \in 1 .. Len(ds) : ds[i] = f[DigitsFrom(f, b) + i - 1]
  PROVE  Magnitude(f, b) = Numeral(ds, RadixAt(f, b))
<1> DEFINE es == DigitsOf(Unsigned(f), b)
<1>1. SignLen(f) \in {0, 1} /\ DigitsFrom(f, b) \in SignLen(f) + 1 .. SignLen(f) + 3 /\ Len(f) \in Nat
  BY DEF SignLen, DigitsFrom
<1>2. /\ es \in Seq(S) /\ Len(es) = Len(f) - DigitsFrom(f, b) + 1
      /\ \A i \in 1 .. Len(es) : es[i] = f[DigitsFrom(f, b) + i - 1]
  BY DigitsAre
<1>3. Radix(Unsigned(f), b) = RadixAt(f, b)
  BY <1>1, RadixIs
<1>4. Magnitude(f, b) = Numeral(es, Radix(Unsigned(f), b))
  BY DEF Numeral, Magnitude, FoldLeft, MapThenFoldSet
<1> HIDE DEF es
<1>5. ds = es
  <2>1. Len(ds) = Len(es) /\ \A i \in 1 .. Len(ds) : ds[i] = es[i]
    BY <1>2
  <2> QED
    BY <1>2, <2>1, SeqEqual
<1> QED
  BY <1>3, <1>4, <1>5

(* ---- which piece of a field is a numeral ------------------------------ *)

LEMMA PieceIs ==
  ASSUME NEW S, NEW f \in Seq(S), NEW n \in 0 .. Len(f)
  PROVE  /\ SubSeq(f, 1, n) \in Seq(S) /\ Len(SubSeq(f, 1, n)) = n
         /\ \A i \in 1 .. n : SubSeq(f, 1, n)[i] = f[i]
<1>1. n \in Int /\ n \in Nat /\ n <= Len(f) /\ \A i \in 1 .. n : f[i] \in S
  OBVIOUS
<1>2. /\ SubSeq(f, 1, n) \in Seq(S)
      /\ Len(SubSeq(f, 1, n)) = IF 1 <= n THEN n - 1 + 1 ELSE 0
      /\ \A i \in 1 .. n - 1 + 1 : SubSeq(f, 1, n)[i] = f[1 + i - 1]
  <2>1. 1 \in Int
    OBVIOUS
  <2> QED
    BY <1>1, <2>1, SubSeqProperties
<1> QED
  BY <1>1, <1>2

LEMMA GrownIs ==
  ASSUME NEW S, NEW f \in Seq(S), NEW n \in 0 .. Len(f), NEW x
  PROVE  LET g == SubSeq(f, 1, n) \o <<x>>
         IN /\ g \in Seq(S \cup {x}) /\ Len(g) = n + 1 /\ g[n + 1] = x
            /\ \A i \in 1 .. n : g[i] = f[i]
<1> DEFINE q == SubSeq(f, 1, n)
<1>1. q \in Seq(S) /\ Len(q) = n /\ \A i \in 1 .. n : q[i] = f[i]
  BY PieceIs
<1> HIDE DEF q
<1>2. q \in Seq(S \cup {x}) /\ <<x>> \in Seq(S \cup {x})
  BY <1>1
<1>3. q \o <<x>> \in Seq(S \cup {x}) /\ Len(q \o <<x>>) = n + 1
  BY <1>1, <1>2
<1>4. \A i \in 1 .. n + 1 : (q \o <<x>>)[i] = IF i <= n THEN q[i] ELSE x
  BY <1>1, <1>2
<1> QED
  BY <1>1, <1>3, <1>4 DEF q

LEMMA HeadAgrees ==
  ASSUME NEW S, NEW f \in Seq(S), NEW R, NEW g \in Seq(R), NEW b, NEW n \in Nat,
         n <= Len(f), n <= Len(g), \A i \in 1 .. n : g[i] = f[i], n > SignLen(f)
  PROVE  /\ SignLen(g) = SignLen(f) /\ SignLen(f) \in {0, 1}
         /\ n >= SignLen(f) + 2 => (HexAt(g, b) <=> HexAt(f, b))
         /\ (HexAt(g, b) <=> HexAt(f, b)) =>
               RadixAt(g, b) = RadixAt(f, b) /\ DigitsFrom(g, b) = DigitsFrom(f, b)
<1>1. SignLen(f) \in {0, 1} /\ n >= 1
  BY DEF SignLen
<1>2. g # <<>> /\ f # <<>> /\ g[1] = f[1]
  BY <1>1
<1>3. SignLen(g) = SignLen(f)
  BY <1>2 DEF SignLen
<1>4. g[SignLen(f) + 1] = f[SignLen(f) + 1]
  BY <1>1
<1>5. ASSUME n >= SignLen(f) + 2 PROVE HexAt(g, b) <=> HexAt(f, b)
  BY <1>1, <1>3, <1>4, <1>5 DEF HexAt
<1>6. ASSUME HexAt(g, b) <=> HexAt(f, b)
      PROVE  RadixAt(g, b) = RadixAt(f, b) /\ DigitsFrom(g, b) = DigitsFrom(f, b)
  BY <1>3, <1>4, <1>6 DEF RadixAt, DigitsFrom
<1> QED
  BY <1>1, <1>3, <1>5, <1>6

LEMMA MayBecomeIs ==
  ASSUME NEW S, NEW f \in Seq(S), NEW n \in 0 .. Len(f), NEW b
  PROVE  MayBecome(SubSeq(f, 1, n), b)
           <=> NumeralAt(SubSeq(f, 1, n), b) \/ NumeralAt(SubSeq(f, 1, n) \o <<"0">>, b)
<1> DEFINE q == SubSeq(f, 1, n)
<1>1. q \in Seq(S) /\ q \o <<"0">> \in Seq(S \cup {"0"})
  BY PieceIs, GrownIs
<1>2. MayBecome(q, b) <=> IsNumeral(q \o <<>>, b) \/ IsNumeral(q \o <<"0">>, b)
  BY DEF MayBecome
<1> HIDE DEF q
<1>3. q \o <<>> = q
  BY <1>1
<1>4. IsNumeral(q, b) <=> NumeralAt(q, b)
  BY <1>1, NumeralIs
<1>5. IsNumeral(q \o <<"0">>, b) <=> NumeralAt(q \o <<"0">>, b)
  BY <1>1, NumeralIs
<1> QED
  BY <1>2, <1>3, <1>4, <1>5 DEF q

LEMMA ItemIs ==
  ASSUME NEW S, NEW f \in Seq(S), NEW b, NEW m \in 0 .. Len(f), MayBecome(SubSeq(f, 1, m), b),
         \A n \in m + 1 .. Len(f) : ~MayBecome(SubSeq(f, 1, n), b)
  PROVE  Item(f, b) = SubSeq(f, 1, m)
<1> DEFINE T == {n \in 0 .. Len(f) : MayBecome(SubSeq(f, 1, n), b)}
<1>1. Item(f, b) = SubSeq(f, 1, Max(T))
  BY DEF Item, LongestPrefix
<1>2. T \subseteq Int /\ m \in T /\ \A i \in T : i <= m
  OBVIOUS
<1> HIDE DEF T
<1>3. Max(T) = m
  BY <1>2, GreatestOfSet
<1> QED
  BY <1>1, <1>3

(* A character that is no digit among the first ones ends every numeral.   *)
LEMMA NoNumeralWith ==
  ASSUME NEW S, NEW f \in Seq(S), NEW b, NEW j \in 1 .. Len(f), j >= DigitsFrom(f, b),
         ~(Val(f[j]) < RadixAt(f, b)), NEW n \in j .. Len(f),
         HexAt(f, b) \/ j >= SignLen(f) + 2 \/ b \notin {0, 16} \/ f[SignLen(f) + 1] # "0"
  PROVE  ~MayBecome(SubSeq(f, 1, n), b)
<1>0. SignLen(f) \in {0, 1} /\ Len(f) \in Nat
  BY DEF SignLen
<1>1. DigitsFrom(f, b) = IF HexAt(f, b) THEN SignLen(f) + 3 ELSE SignLen(f) + 1
  BY <1>0 DEF DigitsFrom
<1>2. n \in 0 .. Len(f) /\ n \in Nat /\ j <= n /\ j \in Nat
  BY <1>0
<1>3. ASSUME NEW R, NEW g \in Seq(R), Len(g) >= n, \A i \in 1 .. n : g[i] = f[i]
      PROVE  ~NumeralAt(g, b)
  <2>1. n > SignLen(f)
    BY <1>0, <1>1, <1>2
  <2>2. /\ SignLen(g) = SignLen(f)
        /\ n >= SignLen(f) + 2 => (HexAt(g, b) <=> HexAt(f, b))
        /\ (HexAt(g, b) <=> HexAt(f, b)) =>
              RadixAt(g, b) = RadixAt(f, b) /\ DigitsFrom(g, b) = DigitsFrom(f, b)
    BY <1>2, <1>3, <2>1, HeadAgrees
  <2>3. HexAt(g, b) <=> HexAt(f, b)
    <3>1. CASE n >= SignLen(f) + 2
      BY <2>2, <3>1
    <3>2. CASE ~(n >= SignLen(f) + 2)
      <4>1. n = SignLen(f) + 1 /\ ~HexAt(f, b)
        BY <1>0, <1>1, <1>2, <2>1, <3>2
      <4>2. b \notin {0, 16} \/ g[SignLen(f) + 1] # "0"
        BY <1>0, <1>2, <1>3, <4>1
      <4> QED
        BY <2>2, <4>1, <4>2 DEF HexAt
    <3> QED
      BY <3>1, <3>2
  <2>4. g[j] = f[j] /\ j \in DigitsFrom(g, b) .. Len(g)
    BY <1>0, <1>1, <1>2, <1>3, <2>2, <2>3
  <2> QED
    BY <2>2, <2>3, <2>4 DEF NumeralAt
<1>4. ~NumeralAt(SubSeq(f, 1, n), b)
  <2> DEFINE g == SubSeq(f, 1, n)
  <2>1. g \in Seq(S) /\ Len(g) = n /\ \A i \in 1 .. n : g[i] = f[i]
    BY <1>2, PieceIs
  <2> HIDE DEF g
  <2>2. ~NumeralAt(g, b)
    BY <1>2, <1>3, <2>1
  <2> QED
    BY <2>2 DEF g
<1>5. ~NumeralAt(SubSeq(f, 1, n) \o <<"0">>, b)
  <2> DEFINE g == SubSeq(f, 1, n) \o <<"0">>
  <2>1. g \in Seq(S \cup {"0"}) /\ Len(g) = n + 1 /\ \A i \in 1 .. n : g[i] = f[i]
    BY <1>2, GrownIs
  <2> HIDE DEF g
  <2>2. Len(g) >= n
    BY <1>2, <2>1
  <2>3. ~NumeralAt(g, b)
    BY <1>3, <2>1, <2>2
  <2> QED
    BY <2>3 DEF g
<1> QED
  BY <1>2, <1>4, <1>5, MayBecomeIs

(* The digits up to the first character that is none are the item.         *)
LEMMA DigitsTaken ==
  ASSUME NEW S, NEW f \in Seq(S), NEW b \in Bases, NEW j \in Nat,
         DigitsFrom(f, b) < j, j <= Len(f) + 1,
         \A i \in DigitsFrom(f, b) .. j - 1 : Val(f[i]) < RadixAt(f, b),
         j <= Len(f) => ~(Val(f[j]) < RadixAt(f, b))
  PROVE  /\ Item(f, b) = SubSeq(f, 1, j - 1) /\ IsNumeral(Item(f, b), b) /\ Len(Item(f, b)) = j - 1
         /\ Magnitude(Item(f, b), b) = Numeral(SubSeq(f, DigitsFrom(f, b), j - 1), RadixAt(f, b))
         /\ Item(f, b)[1] = f[1]
<1> DEFINE q == SubSeq(f, 1, j - 1)
           d == DigitsFrom(f, b)
           o == SignLen(f)
<1>0. o \in {0, 1} /\ Len(f) \in Nat
  BY DEF SignLen
<1>1. d = IF HexAt(f, b) THEN o + 3 ELSE o + 1
  BY <1>0 DEF DigitsFrom
<1>2. j - 1 \in 0 .. Len(f) /\ j - 1 \in Nat /\ j - 1 > o /\ j - 1 >= d /\ d \in 1 .. j - 1
  BY <1>0, <1>1
<1>3. q \in Seq(S) /\ Len(q) = j - 1 /\ \A i \in 1 .. j - 1 : q[i] = f[i]
  BY <1>2, PieceIs
<1> HIDE DEF q, d, o
<1>4. HexAt(q, b) <=> HexAt(f, b)
  <2>1. SignLen(q) = o /\ (j - 1 >= o + 2 => (HexAt(q, b) <=> HexAt(f, b)))
    BY <1>2, <1>3, HeadAgrees DEF o
  <2>2. CASE j - 1 >= o + 2
    BY <2>1, <2>2
  <2>3. CASE ~(j - 1 >= o + 2)
    BY <1>0, <1>1, <1>2, <1>3, <2>1, <2>3 DEF HexAt
  <2> QED
    BY <2>2, <2>3
<1>5. SignLen(q) = o /\ RadixAt(q, b) = RadixAt(f, b) /\ DigitsFrom(q, b) = d
  BY <1>2, <1>3, <1>4, HeadAgrees DEF o, d
<1>6. NumeralAt(q, b)
  <2>1. \A i \in d .. j - 1 : Val(q[i]) < RadixAt(f, b)
    BY <1>2, <1>3 DEF d
  <2> QED
    BY <1>2, <1>3, <1>5, <2>1 DEF NumeralAt
<1>7. MayBecome(q, b)
  BY <1>2, <1>6, MayBecomeIs DEF q
<1>8. ASSUME NEW n \in (j - 1) + 1 .. Len(f) PROVE ~MayBecome(SubSeq(f, 1, n), b)
  <2>1. j \in 1 .. Len(f) /\ j >= d /\ n \in j .. Len(f) /\ ~(Val(f[j]) < RadixAt(f, b))
    BY <1>0, <1>2
  <2>2. j >= o + 2
    BY <1>0, <1>2
  <2> QED
    BY <2>1, <2>2, NoNumeralWith DEF d, o
<1>9. Item(f, b) = q
  BY <1>2, <1>7, <1>8, ItemIs DEF q
<1>10. IsNumeral(q, b) /\ q[1] = f[1]
  BY <1>0, <1>2, <1>3, <1>6, NumeralIs
<1>11. Magnitude(q, b) = Numeral(SubSeq(f, d, j - 1), RadixAt(f, b))
  <2> DEFINE ds == SubSeq(f, d, j - 1)
  <2>1. /\ ds \in Seq(S) /\ Len(ds) = j - 1 - d + 1
        /\ \A i \in 1 .. j - 1 - d + 1 : ds[i] = f[d + i - 1]
    <3>1. d \in Int /\ j - 1 \in Int /\ d <= j - 1 /\ \A i \in d .. j - 1 : f[i] \in S
      BY <1>0, <1>2
    <3> QED
      BY <3>1, SubSeqProperties
  <2> HIDE DEF ds
  <2>2. \A i \in 1 .. Len(ds) : ds[i] = q[d + i - 1]
    BY <1>2, <1>3, <2>1
  <2>4. /\ DigitsFrom(q, b) <= Len(q) /\ Len(ds) = Len(q) - DigitsFrom(q, b) + 1
        /\ \A i \in 1 .. Len(ds) : ds[i] = q[DigitsFrom(q, b) + i - 1]
    BY <1>2, <1>3, <1>5, <2>1, <2>2
  <2>3. Magnitude(q, b) = Numeral(ds, RadixAt(q, b))
    BY <1>3, <2>1, <2>4, MagnitudeIs
  <2> QED
    BY <1>5, <2>3 DEF ds
<1> QED
  BY <1>3, <1>9, <1>10, <1>11 DEF q, d

(* 0x without a digit is the beginning of a numeral and none.              *)
LEMMA NoHexDigit ==
  ASSUME NEW S, NEW f \in Seq(S), NEW b \in Bases, HexAt(f, b),
         SignLen(f) + 3 <= Len(f) => ~(Val(f[SignLen(f) + 3]) < 16)
  PROVE  ~IsNumeral(Item(f, b), b)
<1> DEFINE o == SignLen(f)
           q == SubSeq(f, 1, o + 2)
           g == q \o <<"0">>
<1>0. o \in {0, 1} /\ Len(f) \in Nat /\ Len(f) >= o + 2 /\ b \in {0, 16}
  BY DEF SignLen, HexAt
<1>1. DigitsFrom(f, b) = o + 3 /\ RadixAt(f, b) = 16
  BY <1>0 DEF DigitsFrom, RadixAt
<1>2. o + 2 \in 0 .. Len(f) /\ o + 2 \in Nat
  BY <1>0
<1>3. q \in Seq(S) /\ Len(q) = o + 2 /\ \A i \in 1 .. o + 2 : q[i] = f[i]
  BY <1>2, PieceIs
<1>4. /\ g \in Seq(S \cup {"0"}) /\ Len(g) = o + 3 /\ g[o + 3] = "0"
      /\ \A i \in 1 .. o + 2 : g[i] = f[i]
  <2>1. /\ g \in Seq(S \cup {"0"}) /\ Len(g) = (o + 2) + 1 /\ g[(o + 2) + 1] = "0"
        /\ \A i \in 1 .. o + 2 : g[i] = f[i]
    BY <1>2, GrownIs
  <2>2. (o + 2) + 1 = o + 3
    BY <1>0
  <2> QED
    BY <2>1, <2>2
<1> HIDE DEF q, g
<1>12. ASSUME NEW R, NEW h \in Seq(R), Len(h) >= o + 2, \A i \in 1 .. o + 2 : h[i] = f[i]
       PROVE  HexAt(h, b) /\ DigitsFrom(h, b) = o + 3 /\ RadixAt(h, b) = 16
  <2> DEFINE n == o + 2
  <2>1. n \in Nat /\ n <= Len(f) /\ n <= Len(h) /\ n > SignLen(f) /\ n >= SignLen(f) + 2
        /\ \A i \in 1 .. n : h[i] = f[i]
    BY <1>0, <1>12
  <2> HIDE DEF n
  <2>2. /\ HexAt(h, b) <=> HexAt(f, b)
        /\ (HexAt(h, b) <=> HexAt(f, b)) =>
              RadixAt(h, b) = RadixAt(f, b) /\ DigitsFrom(h, b) = DigitsFrom(f, b)
    BY <2>1, HeadAgrees
  <2> QED
    BY <1>1, <2>2
<1> HIDE DEF o
<1>5. HexAt(q, b) /\ DigitsFrom(q, b) = o + 3
  BY <1>0, <1>3, <1>12
<1>6. HexAt(g, b) /\ DigitsFrom(g, b) = o + 3 /\ RadixAt(g, b) = 16
  BY <1>0, <1>4, <1>12
<1>7. NumeralAt(g, b)
  BY <1>0, <1>4, <1>6, ValIs DEF NumeralAt
<1>8. MayBecome(q, b)
  BY <1>2, <1>7, MayBecomeIs DEF q, g
<1>9. ASSUME NEW n \in (o + 2) + 1 .. Len(f) PROVE ~MayBecome(SubSeq(f, 1, n), b)
  <2>1. o + 3 \in 1 .. Len(f) /\ n \in o + 3 .. Len(f) /\ o + 3 >= DigitsFrom(f, b)
        /\ ~(Val(f[o + 3]) < RadixAt(f, b))
    BY <1>0, <1>1 DEF o
  <2> QED
    BY <2>1, NoNumeralWith
<1>10. Item(f, b) = q
  BY <1>2, <1>8, <1>9, ItemIs DEF q
<1>11. ~NumeralAt(q, b)
  BY <1>0, <1>3, <1>5 DEF NumeralAt
<1> QED
  BY <1>3, <1>10, <1>11, NumeralIs

(* Without a digit where the first one should be there is none either.     *)
LEMMA NoFirstDigit ==
  ASSUME NEW S, NEW f \in Seq(S), NEW b \in Bases,
         LET o == SignLen(f)
         IN o + 1 <= Len(f) =>
               /\ b \notin {0, 16} \/ f[o + 1] # "0"
               /\ ~(Val(f[o + 1]) < IF b = 0 THEN 10 ELSE b)
  PROVE  ~IsNumeral(Item(f, b), b)
<1> DEFINE o == SignLen(f)
           q == SubSeq(f, 1, o)
           g == q \o <<"0">>
<1>0. o \in {0, 1} /\ Len(f) \in Nat /\ Len(f) >= o
  BY DEF SignLen
<1>1. ~HexAt(f, b) /\ DigitsFrom(f, b) = o + 1
  BY <1>0 DEF HexAt, DigitsFrom
<1>2. o \in 0 .. Len(f) /\ o \in Nat
  BY <1>0
<1>3. q \in Seq(S) /\ Len(q) = o /\ \A i \in 1 .. o : q[i] = f[i]
  BY <1>2, PieceIs
<1>4. /\ g \in Seq(S \cup {"0"}) /\ Len(g) = o + 1 /\ g[o + 1] = "0"
      /\ \A i \in 1 .. o : g[i] = f[i]
  <2> HIDE DEF o
  <2> QED
    BY <1>2, GrownIs
<1>6. o = 1 => f # <<>> /\ f[1] \in {"+", "-"}
  BY DEF SignLen
<1> HIDE DEF q, g, o
<1>7. SignLen(q) = o /\ SignLen(g) = o
  <2>1. CASE o = 0
    <3>1. q = <<>> /\ g[1] = "0"
      BY <1>3, <1>4, <2>1
    <3> QED
      BY <2>1, <3>1 DEF SignLen
  <2>2. CASE o = 1
    <3>1. Len(q) = 1 /\ Len(g) = 2 /\ q[1] = f[1] /\ g[1] = f[1]
      BY <1>3, <1>4, <2>2
    <3>2. q # <<>> /\ g # <<>>
      BY <3>1, <1>3, <1>4
    <3> QED
      BY <1>6, <2>2, <3>1, <3>2 DEF SignLen
  <2> QED
    BY <1>0, <2>1, <2>2
<1>8. DigitsFrom(q, b) = o + 1 /\ DigitsFrom(g, b) = o + 1
  BY <1>0, <1>3, <1>4, <1>7 DEF DigitsFrom, HexAt
<1>9. ~NumeralAt(q, b) /\ NumeralAt(g, b)
  <2>1. RadixAt(g, b) > 0
    BY DEF RadixAt, Bases
  <2> QED
    BY <1>0, <1>3, <1>4, <1>8, <2>1, ValIs DEF NumeralAt
<1>10. MayBecome(q, b)
  BY <1>2, <1>9, MayBecomeIs DEF q, g
<1>11. ASSUME NEW n \in o + 1 .. Len(f) PROVE ~MayBecome(SubSeq(f, 1, n), b)
  <2>1. o + 1 \in 1 .. Len(f) /\ n \in o + 1 .. Len(f) /\ o + 1 >= DigitsFrom(f, b)
    BY <1>0, <1>1
  <2>2. b \notin {0, 16} \/ f[o + 1] # "0"
    BY <1>0, <2>1 DEF o
  <2>3. ~(Val(f[o + 1]) < IF b = 0 THEN 10 ELSE b)
    BY <1>0, <2>1 DEF o
  <2>4. RadixAt(f, b) = IF b = 0 THEN 10 ELSE b
    BY <1>1, <2>2 DEF RadixAt, o
  <2>5. ~(Val(f[o + 1]) < RadixAt(f, b))
    BY <2>3, <2>4
  <2> QED
    BY <2>1, <2>2, <2>5, NoNumeralWith DEF o
<1>12. Item(f, b) = q
  BY <1>2, <1>10, <1>11, ItemIs DEF q
<1> QED
  BY <1>3, <1>9, <1>12, NumeralIs

(* ---- powers of two, as numbers of subsets ----------------------------- *)

LEMMA PowerIsCount ==
  ASSUME NEW n \in Nat
  PROVE  IsFiniteSet(SUBSET (1 .. n)) /\ Cardinality(SUBSET (1 .. n)) = 2 ^ n /\ 2 ^ n \in Nat
<1>1. 1 \in Int /\ n \in Int /\ (IF 1 > n THEN 0 ELSE n - 1 + 1) = n
  OBVIOUS
<1>2. IsFiniteSet(1 .. n) /\ Cardinality(1 .. n) = n
  BY <1>1, FS_Interval
<1>3. IsFiniteSet(SUBSET (1 .. n)) /\ Cardinality(SUBSET (1 .. n)) = 2 ^ n
  BY <1>2, FS_SUBSET
<1> QED
  BY <1>3, FS_CardinalityType

LEMMA PowerDoubles ==
  ASSUME NEW n \in Nat
  PROVE  2 ^ (n + 1) = 2 * 2 ^ n /\ 2 ^ n \in Nat /\ 2 ^ (n + 1) \in Nat
<1> DEFINE A == SUBSET (1 .. n)
           B == {s \in SUBSET (1 .. n + 1) : n + 1 \in s}
<1>1. IsFiniteSet(A) /\ Cardinality(A) = 2 ^ n /\ 2 ^ n \in Nat
  BY PowerIsCount
<1>2. IsFiniteSet(SUBSET (1 .. n + 1)) /\ Cardinality(SUBSET (1 .. n + 1)) = 2 ^ (n + 1) /\ 2 ^ (n + 1) \in Nat
  BY PowerIsCount
<1>3. SUBSET (1 .. n + 1) = A \cup B
  <2>1. ASSUME NEW s \in SUBSET (1 .. n + 1), n + 1 \notin s PROVE s \in A
    <3>1. \A i \in s : i \in 1 .. n
      BY <2>1
    <3> QED
      BY <3>1
  <2>2. A \subseteq SUBSET (1 .. n + 1)
    <3>1. 1 .. n \subseteq 1 .. n + 1
      OBVIOUS
    <3> QED
      BY <3>1
  <2> QED
    BY <2>1, <2>2
<1>4. A \cap B = {}
  <2>1. n + 1 \notin 1 .. n
    OBVIOUS
  <2> QED
    BY <2>1
<1>5. ExistsBijection(A, B)
  <2> DEFINE f == [s \in A |-> s \cup {n + 1}]
  <2>1. n + 1 \notin 1 .. n /\ n + 1 \in 1 .. n + 1 /\ 1 .. n \subseteq 1 .. n + 1
    OBVIOUS
  <2>2. \A s \in A : f[s] \in B
    BY <2>1
  <2>3. ASSUME NEW s \in A, NEW t \in A, f[s] = f[t] PROVE s = t
    <3>1. n + 1 \notin s /\ n + 1 \notin t /\ s \cup {n + 1} = t \cup {n + 1}
      BY <2>1, <2>3
    <3>2. ASSUME NEW y PROVE y \in s <=> y \in t
      <4>1. y \in s \cup {n + 1} <=> y \in t \cup {n + 1}
        BY <3>1
      <4>2. y = n + 1 \/ y # n + 1
        OBVIOUS
      <4> QED
        BY <3>1, <4>1, <4>2, Zenon
    <3>3. \A y : y \in s <=> y \in t
      BY <3>2
    <3> QED
      BY <3>3, Zenon
  <2>4. ASSUME NEW t \in B PROVE \E s \in A : f[s] = t
    <3>1. t \ {n + 1} \in A
      <4>1. \A i \in t \ {n + 1} : i \in 1 .. n
        OBVIOUS
      <4> QED
        BY <4>1
    <3>2. (t \ {n + 1}) \cup {n + 1} = t
      <4>1. n + 1 \in t
        OBVIOUS
      <4> QED
        BY <4>1, Zenon
    <3> QED
      BY <3>1, <3>2
  <2>5. f \in [A -> B]
    BY <2>2
  <2> HIDE DEF A, B
  <2>6. f \in Injection(A, B)
    BY <2>3, <2>5 DEF Injection, IsInjective
  <2>7. f \in Surjection(A, B)
    BY <2>4, <2>5 DEF Surjection
  <2>8. f \in Bijection(A, B)
    BY <2>6, <2>7 DEF Bijection
  <2> QED
    BY <2>8 DEF ExistsBijection
<1> HIDE DEF A, B
<1>6. IsFiniteSet(B) /\ Cardinality(B) = 2 ^ n
  BY <1>1, <1>5, FS_Bijection
<1>7. Cardinality(A \cup B) = Cardinality(A) + Cardinality(B) - Cardinality(A \cap B)
  BY <1>1, <1>6, FS_Union
<1>8. Cardinality(A \cap B) = 0
  BY <1>4, FS_EmptySet
<1>9. 2 ^ (n + 1) = 2 ^ n + 2 ^ n - 0
  BY <1>1, <1>2, <1>3, <1>6, <1>7, <1>8
<1> QED
  BY <1>1, <1>2, <1>9

LEMMA PowersOfBases ==
  ASSUME NEW n \in Nat, n >= 5
  PROVE  \E q \in Nat \ {0} : 2 ^ n = 32 * q
<1> DEFINE m == n - 5
<1>1. m \in Nat /\ m + 1 \in Nat /\ (m + 1) + 1 \in Nat /\ ((m + 1) + 1) + 1 \in Nat
      /\ (((m + 1) + 1) + 1) + 1 \in Nat /\ ((((m + 1) + 1) + 1) + 1) + 1 = n
  OBVIOUS
<1> HIDE DEF m
<1>2. 2 ^ m \in Nat /\ 2 ^ (m + 1) = 2 * 2 ^ m /\ 2 ^ (m + 1) \in Nat
  BY <1>1, PowerDoubles
<1>3. 2 ^ ((m + 1) + 1) = 2 * 2 ^ (m + 1) /\ 2 ^ ((m + 1) + 1) \in Nat
  BY <1>1, PowerDoubles
<1>4. 2 ^ (((m + 1) + 1) + 1) = 2 * 2 ^ ((m + 1) + 1) /\ 2 ^ (((m + 1) + 1) + 1) \in Nat
  BY <1>1, PowerDoubles
<1>5. 2 ^ ((((m + 1) + 1) + 1) + 1) = 2 * 2 ^ (((m + 1) + 1) + 1) /\ 2 ^ ((((m + 1) + 1) + 1) + 1) \in Nat
  BY <1>1, PowerDoubles
<1>6. 2 ^ (((((m + 1) + 1) + 1) + 1) + 1) = 2 * 2 ^ ((((m + 1) + 1) + 1) + 1)
  BY <1>1, PowerDoubles
<1>7. 2 ^ n = 32 * 2 ^ m
  <2> DEFINE p0 == 2 ^ m
             p1 == 2 ^ (m + 1)
             p2 == 2 ^ ((m + 1) + 1)
             p3 == 2 ^ (((m + 1) + 1) + 1)
             p4 == 2 ^ ((((m + 1) + 1) + 1) + 1)
  <2>1. p0 \in Nat /\ p1 = 2 * p0 /\ p2 = 2 * p1 /\ p3 = 2 * p2 /\ p4 = 2 * p3 /\ 2 ^ n = 2 * p4
    BY <1>1, <1>2, <1>3, <1>4, <1>5, <1>6
  <2> HIDE DEF p0, p1, p2, p3, p4
  <2>2. 2 ^ n = 32 * p0
    BY <2>1
  <2> QED
    BY <2>2 DEF p0
<1>8. 2 ^ m # 0
  <2>1. \E s : s \in SUBSET (1 .. m)
    OBVIOUS
  <2>2. IsFiniteSet(SUBSET (1 .. m)) /\ Cardinality(SUBSET (1 .. m)) = 2 ^ m
    BY <1>1, PowerIsCount
  <2> QED
    BY <2>1, <2>2, FS_EmptySet
<1> QED
  BY <1>2, <1>7, <1>8

(* ---- values and widths ------------------------------------------------- *)

LEMMA PowersGrow ==
  ASSUME NEW m \in Nat, NEW n \in Nat, m <= n
  PROVE  2 ^ m <= 2 ^ n /\ 2 ^ m \in Nat /\ 2 ^ n \in Nat
<1> DEFINE T == {i \in Nat : m <= i /\ ~(2 ^ m <= 2 ^ i)}
<1>1. \A i \in Nat : 2 ^ i \in Nat
  BY PowerIsCount
<1> SUFFICES ASSUME T # {} PROVE FALSE
  BY <1>1
<1>2. PICK l \in T : \A i \in T : l <= i
  <2> T \subseteq Nat
    OBVIOUS
  <2> HIDE DEF T
  <2> QED
    BY LeastNatural
<1>3. l # m
  BY <1>1, <1>2
<1>4. l - 1 \in Nat /\ m <= l - 1 /\ l - 1 \notin T /\ (l - 1) + 1 = l
  BY <1>2, <1>3
<1>5. 2 ^ m <= 2 ^ (l - 1)
  BY <1>4
<1>6. 2 ^ ((l - 1) + 1) = 2 * 2 ^ (l - 1) /\ 2 ^ (l - 1) \in Nat
  BY <1>4, PowerDoubles
<1>7. 2 ^ m <= 2 ^ l
  BY <1>1, <1>4, <1>5, <1>6
<1> QED
  BY <1>2, <1>7

LEMMA Widths ==
  /\ ULLMax \in Nat /\ UIntMax \in Nat /\ UIntMax <= ULLMax
  /\ 2 ^ ULLBits = ULLMax + 1 /\ 2 ^ UIntBits = UIntMax + 1
  /\ \A n \in Nat : n <= UIntMax \div 32 => n * 16 + 15 <= UIntMax
  /\ \A n \in Nat : n <= (UIntMax \div 10) - 1 => n * 10 + 9 <= UIntMax
  /\ \A n \in Nat : n <= ULLMax \div 8 => n * 8 + 7 <= ULLMax
  /\ \A n \in Nat : n <= ULLMax \div 16 => n * 16 + 15 <= ULLMax
<1>1. UIntBits \in Nat /\ ULLBits \in Nat /\ UIntBits >= 5 /\ ULLBits >= 5 /\ UIntBits <= ULLBits
  BY WidthAssumption
<1>2. PICK q \in Nat \ {0} : 2 ^ UIntBits = 32 * q
  BY <1>1, PowersOfBases
<1>3. PICK r \in Nat \ {0} : 2 ^ ULLBits = 32 * r
  BY <1>1, PowersOfBases
<1>4. UIntMax = 32 * q - 1 /\ ULLMax = 32 * r - 1
  BY <1>2, <1>3 DEF UIntMax, ULLMax
<1>5. 2 ^ UIntBits <= 2 ^ ULLBits
  BY <1>1, PowersGrow
<1>6. UIntMax \in Nat /\ ULLMax \in Nat /\ UIntMax <= ULLMax
      /\ 2 ^ ULLBits = ULLMax + 1 /\ 2 ^ UIntBits = UIntMax + 1
  BY <1>2, <1>3, <1>4, <1>5
<1>7. \A n \in Nat : n <= UIntMax \div 32 => n * 16 + 15 <= UIntMax
  BY <1>4, <1>6
<1>8. \A n \in Nat : n <= (UIntMax \div 10) - 1 => n * 10 + 9 <= UIntMax
  <2> DEFINE m == UIntMax
  <2> HIDE DEF m
  <2>1. m \in Nat => \A n \in Nat : n <= (m \div 10) - 1 => n * 10 + 9 <= m
    OBVIOUS
  <2> QED
    BY <1>6, <2>1 DEF m
<1>9. \A n \in Nat : n <= ULLMax \div 8 => n * 8 + 7 <= ULLMax
  BY <1>4, <1>6
<1>10. \A n \in Nat : n <= ULLMax \div 16 => n * 16 + 15 <= ULLMax
  BY <1>4, <1>6
<1> QED
  BY <1>6, <1>7, <1>8, <1>9, <1>10

LEMMA Remains == ASSUME NEW m \in Nat \ {0}, NEW n \in 0 .. m - 1 PROVE n % m = n
  OBVIOUS

(* ---- ffintscan -------------------------------------------------------- *)

IntPcs == {"int", "signed", "first", "hex", "digits", "more", "over", "done", "reject", "rejected", "filed"}

Value(f, b, n) == Numeral(SubSeq(f, DigitsFrom(f, b), n), RadixAt(f, b))

(* The digits up to the one before the j-th, all of the base.              *)
SoFar(f, b, j) ==
    /\ base = RadixAt(f, b) /\ j >= DigitsFrom(f, b)
    /\ \A i \in DigitsFrom(f, b) .. j - 1 : Val(f[i]) < base
    /\ j = DigitsFrom(f, b) => j <= Len(f) /\ Val(f[j]) < base
    /\ Value(f, b, j - 1) \in Nat

IntAt(f, b, w) ==
    LET minus == f[1] = "-"
        item == Item(f, b)
    IN /\ pc = "int" => Read(w, 0) /\ base = b /\ num = 0
       /\ pc = "signed" => Read(w, 1) /\ SignLen(f) = 1 /\ base = b /\ num = 0 /\ neg = minus
       /\ pc = "first" => Read(w, SignLen(f) + 1) /\ base = b /\ num = 0 /\ neg = minus
       /\ pc = "hex" => Read(w, SignLen(f) + 2) /\ HexAt(f, b) /\ base = b /\ num = 0 /\ neg = minus
       /\ pc \in {"digits", "more"} =>
             \E j \in Nat : /\ Read(w, j) /\ SoFar(f, b, j) /\ num = Value(f, b, j - 1) /\ neg = minus
                            /\ num <= IF pc = "digits" THEN UIntMax ELSE ULLMax
       /\ pc = "over" =>
             \E j \in Nat : /\ Read(w, j) /\ SoFar(f, b, j)
                            /\ \/ Value(f, b, j - 1) > ULLMax
                               \/ j <= Len(f) /\ Val(f[j]) < base /\ Value(f, b, j) > ULLMax
       /\ pc = "done" =>
             \E j \in Nat : /\ Read(w, j) /\ SoFar(f, b, j) /\ ~(Val(c) < base)
                            /\ IF Value(f, b, j - 1) > ULLMax
                               THEN num = ULLMax /\ ~neg /\ errno = "ERANGE"
                               ELSE num = Value(f, b, j - 1) /\ neg = minus
       /\ pc \in {"reject", "rejected"} => ~IsNumeral(item, b)
       /\ pc = "filed" =>
             IF IsNumeral(item, b)
             THEN /\ Count = Len(item) /\ Count # 0
                  /\ num = IntValue(item, b)
                  /\ Magnitude(item, b) > ULLMax => errno = "ERANGE"
             ELSE Count = 0

IntOK ==
    pc \in IntPcs =>
        LET f == Field(pos, D.width)
        IN D.kind = "int" /\ f # <<>> /\ f[1] \notin Spaces /\ IntAt(f, D.base, D.width)

LEMMA ValueStarts ==
  ASSUME NEW S, NEW f \in Seq(S), NEW b \in Bases
  PROVE  Value(f, b, DigitsFrom(f, b) - 1) = 0 /\ DigitsFrom(f, b) \in 1 .. 4
<1>1. DigitsFrom(f, b) \in 1 .. 4
  BY DEF DigitsFrom, SignLen
<1>2. SubSeq(f, DigitsFrom(f, b), DigitsFrom(f, b) - 1) = <<>>
  BY <1>1, SubSeqEmpty
<1> QED
  BY <1>1, <1>2, NumeralEmpty DEF Value

LEMMA ValueGrows ==
  ASSUME NEW S, NEW f \in Seq(S), NEW b \in Bases, NEW j \in DigitsFrom(f, b) .. Len(f)
  PROVE  Value(f, b, j) = Value(f, b, j - 1) * RadixAt(f, b) + Val(f[j])
<1> DEFINE d == DigitsFrom(f, b)
           ds == SubSeq(f, d, j)
           es == SubSeq(f, d, j - 1)
           n == j - d + 1
<1>1. d \in 1 .. 4
  BY ValueStarts
<1>2. d \in Int /\ j \in Int /\ j - 1 \in Int /\ d <= j /\ \A i \in d .. j : f[i] \in S
  BY <1>1
<1> HIDE DEF d
<1>3. ds \in Seq(S) /\ Len(ds) = n /\ \A i \in 1 .. n : ds[i] = f[d + i - 1]
  BY <1>2, SubSeqProperties
<1>4. es \in Seq(S) /\ Len(es) = n - 1 /\ \A i \in 1 .. n - 1 : es[i] = f[d + i - 1]
  <2>1. \A i \in d .. j - 1 : f[i] \in S
    BY <1>2
  <2>2. /\ es \in Seq(S) /\ Len(es) = IF d <= j - 1 THEN (j - 1) - d + 1 ELSE 0
        /\ \A i \in 1 .. (j - 1) - d + 1 : es[i] = f[d + i - 1]
    BY <1>2, <2>1, SubSeqProperties
  <2> QED
    BY <1>2, <2>2
<1>5. n \in Nat \ {0} /\ d + n - 1 = j
  BY <1>2
<1> HIDE DEF ds, es, n
<1>6. DOMAIN ds = 1 .. n /\ DOMAIN es = 1 .. n - 1 /\ \A i \in 1 .. n - 1 : es[i] = ds[i]
  BY <1>3, <1>4, <1>5
<1>7. Numeral(ds, RadixAt(f, b)) = Numeral(es, RadixAt(f, b)) * RadixAt(f, b) + Val(ds[n])
  BY <1>5, <1>6, NumeralStep
<1>8. ds[n] = f[j]
  BY <1>3, <1>5
<1> QED
  BY <1>7, <1>8 DEF Value, ds, es, d

LEMMA Got ==
  ASSUME ScanInv, Started, ShGetC, PosOK, pos' = pos, NEW w \in Nat, NEW j, Read(w, j),
         NEW n, n = IF j <= Len(Field(pos, w)) THEN j + 1 ELSE j
  PROVE  Read(w, n)' /\ Field(pos, w)' = Field(pos, w)
BY GetSteps, GetRead DEF ScanInv

LEMMA Ungot ==
  ASSUME ScanInv, Started, ShUnget, PosOK, pos' = pos, NEW w \in Nat, NEW j, Read(w, j), j # 0
  PROVE  /\ Count' = j - 1 /\ Consumed' = pos + j - 1 /\ CountsFrom' = pos /\ c' = None
         /\ Field(pos, w)' = Field(pos, w) /\ j - 1 \in 0 .. Len(Field(pos, w))
<1>1. Reader!Unget /\ FileOK' /\ Started'
  BY UngetSteps DEF ScanInv
<1>2. /\ CountsFrom' = pos /\ Consumed' = pos + j - 1 /\ c' = None /\ text' = text
      /\ j - 1 \in 0 .. Len(Field(pos, w))
  BY <1>1, UngetRead DEF ScanInv
<1>3. Count' = Consumed' - CountsFrom'
  BY <1>1, CountIsNext
<1>4. Field(pos, w)' = Field(pos, w)
  BY <1>2 DEF Field
<1> QED
  <2>1. pos \in Int /\ j \in Int
    BY DEF PosOK, Read, ScanInv, Typed
  <2> QED
    BY <1>2, <1>3, <1>4, <2>1

(* What c is, and where it lies.                                           *)
LEMMA Current ==
  ASSUME Typed, PosOK, NEW w \in Nat, NEW j \in Nat, Read(w, j), j # 0
  PROVE  LET f == Field(pos, w)
         IN /\ f \in Seq(Char) /\ Len(f) \in Nat /\ j \in 1 .. Len(f) + 1
            /\ c = IF j <= Len(f) THEN f[j] ELSE EOF
            /\ (c = EOF) <=> (j = Len(f) + 1)
<1>1. Field(pos, w) \in Seq(Char)
  BY FieldIs DEF PosOK
<1>2. \A i \in 1 .. Len(Field(pos, w)) : Field(pos, w)[i] # EOF
  BY <1>1, CharAssumption
<1> QED
  BY <1>1, <1>2 DEF Read

(* ---- ffintscan, step by step ------------------------------------------ *)

(* What every step may take for granted of the field f, the base b and the *)
(* width w of the conversion.                                              *)
IntNow(f, b, w) ==
    /\ ScanInv /\ PosOK /\ f = Field(pos, w) /\ w \in Nat /\ b \in Bases
    /\ f # <<>> /\ f[1] \notin Spaces /\ IntAt(f, b, w) /\ pc \in IntPcs

LEMMA IntFacts ==
  ASSUME NEW f, NEW b, NEW w, IntNow(f, b, w)
  PROVE  /\ Started /\ Typed /\ w \in Nat /\ b \in Bases /\ f \in Seq(Char) /\ Len(f) \in Nat \ {0}
         /\ SignLen(f) = (IF f[1] \in {"+", "-"} THEN 1 ELSE 0) /\ SignLen(f) \in {0, 1}
         /\ f = Field(pos, w) /\ PosOK /\ ScanInv
<1>1. Started /\ Typed
  BY DEF IntNow, ScanInv, IntPcs
<1>2. f \in Seq(Char) /\ f # <<>>
  BY <1>1, FieldIs DEF IntNow, PosOK
<1>3. Len(f) \in Nat \ {0}
  BY <1>2
<1> QED
  BY <1>1, <1>2, <1>3 DEF IntNow, SignLen

LEMMA SignOK ==
  ASSUME NEW f, NEW b, NEW w, IntNow(f, b, w), Sign
  PROVE  IntAt(f, b, w)' /\ Field(pos, w)' = f
<1>0. /\ Started /\ Typed /\ w \in Nat /\ b \in Bases /\ f \in Seq(Char) /\ Len(f) \in Nat \ {0}
      /\ SignLen(f) = (IF f[1] \in {"+", "-"} THEN 1 ELSE 0) /\ SignLen(f) \in {0, 1}
      /\ f = Field(pos, w) /\ PosOK /\ ScanInv
  BY IntFacts
<1>1. Read(w, 0) /\ base = b /\ num = 0 /\ f[1] \notin Spaces
  BY DEF IntNow, IntAt, Sign
<1>2. /\ ShGetC /\ pos' = pos /\ base' = base /\ num' = num /\ neg' = (c' = "-")
      /\ pc' = CASE c' \in Spaces -> "int" [] c' \in {"+", "-"} -> "signed" [] OTHER -> "first"
  BY DEF Sign, args
<1>3. Read(w, 1)' /\ Field(pos, w)' = f
  <2>1. 1 = IF 0 <= Len(Field(pos, w)) THEN 0 + 1 ELSE 0
    BY <1>0
  <2> QED
    BY <1>0, <1>1, <1>2, <2>1, Got
<1>4. c' = f[1]
  BY <1>0, <1>3 DEF Read
<1>5. pc' = IF f[1] \in {"+", "-"} THEN "signed" ELSE "first"
  BY <1>1, <1>2, <1>4
<1>6. CASE f[1] \in {"+", "-"}
  BY <1>0, <1>1, <1>2, <1>3, <1>4, <1>5, <1>6 DEF IntAt
<1>7. CASE f[1] \notin {"+", "-"}
  <2>1. Read(w, SignLen(f) + 1)'
    BY <1>0, <1>3, <1>7
  <2> QED
    BY <1>0, <1>1, <1>2, <1>3, <1>4, <1>5, <1>7, <2>1 DEF IntAt
<1> QED
  BY <1>6, <1>7

LEMMA AfterSignOK ==
  ASSUME NEW f, NEW b, NEW w, IntNow(f, b, w), AfterSign
  PROVE  IntAt(f, b, w)' /\ Field(pos, w)' = f
<1>0. /\ Started /\ Typed /\ w \in Nat /\ b \in Bases /\ f \in Seq(Char) /\ Len(f) \in Nat \ {0}
      /\ f = Field(pos, w) /\ PosOK /\ ScanInv
  BY IntFacts
<1>1. Read(w, 1) /\ SignLen(f) = 1 /\ base = b /\ num = 0 /\ neg = (f[1] = "-")
  BY DEF IntNow, IntAt, AfterSign
<1>2. ShGetC /\ pos' = pos /\ base' = base /\ num' = num /\ neg' = neg /\ pc' = "first"
  BY DEF AfterSign, args, parse
<1>3. Read(w, 2)' /\ Field(pos, w)' = f
  <2>1. 2 = IF 1 <= Len(Field(pos, w)) THEN 1 + 1 ELSE 1
    BY <1>0
  <2> QED
    BY <1>0, <1>1, <1>2, <2>1, Got
<1>4. Read(w, SignLen(f) + 1)'
  BY <1>1, <1>3
<1> QED
  BY <1>1, <1>2, <1>3, <1>4 DEF IntAt

LEMMA LeadingZeroOK ==
  ASSUME NEW f, NEW b, NEW w, IntNow(f, b, w), LeadingZero
  PROVE  IntAt(f, b, w)' /\ Field(pos, w)' = f
<1> DEFINE o == SignLen(f)
<1>0. /\ Started /\ Typed /\ w \in Nat /\ b \in Bases /\ f \in Seq(Char) /\ Len(f) \in Nat \ {0}
      /\ f = Field(pos, w) /\ PosOK /\ ScanInv /\ o \in {0, 1}
  BY IntFacts
<1>1. Read(w, o + 1) /\ base = b /\ num = 0 /\ neg = (f[1] = "-")
  BY DEF IntNow, IntAt, LeadingZero
<1>2. /\ ShGetC /\ pos' = pos /\ num' = num /\ neg' = neg /\ base \in {0, 16} /\ c = "0"
      /\ IF c' = "x" THEN pc' = "hex" /\ base' = base
                     ELSE pc' = "digits" /\ base' = IF base = 0 THEN 8 ELSE base
  BY DEF LeadingZero, args
<1> HIDE DEF o
<1>3. o + 1 <= Len(f) /\ f[o + 1] = "0"
  <2>1. /\ o + 1 \in 1 .. Len(f) + 1
        /\ c = IF o + 1 <= Len(f) THEN f[o + 1] ELSE EOF
    BY <1>0, <1>1, Current
  <2>2. c # EOF
    BY <1>2, EndAssumption DEF Digits
  <2> QED
    BY <1>2, <2>1, <2>2
<1>4. Read(w, o + 2)' /\ Field(pos, w)' = f
  <2>1. o + 2 = IF o + 1 <= Len(Field(pos, w)) THEN (o + 1) + 1 ELSE o + 1
    BY <1>0, <1>3
  <2> QED
    BY <1>0, <1>1, <1>2, <2>1, Got
<1>5. c' = (IF o + 2 <= Len(f) THEN f[o + 2] ELSE EOF) /\ EOF # "x"
  <2>1. o + 2 # 0
    BY <1>0
  <2>2. c' = IF o + 2 <= Len(f) THEN f[o + 2] ELSE EOF
    BY <1>4, <2>1 DEF Read
  <2> QED
    BY <2>2, ValIs
<1>6. HexAt(f, b) <=> c' = "x"
  BY <1>0, <1>1, <1>2, <1>3, <1>5 DEF HexAt, o
<1>7. CASE c' = "x"
  BY <1>1, <1>2, <1>4, <1>6, <1>7 DEF IntAt, o
<1>8. CASE c' # "x"
  <2>1. pc' = "digits" /\ base' = RadixAt(f, b) /\ DigitsFrom(f, b) = o + 1 /\ base' \in {8, 16}
    BY <1>0, <1>1, <1>2, <1>3, <1>6, <1>8 DEF RadixAt, DigitsFrom, o
  <2>2. Value(f, b, o) = 0 /\ Value(f, b, o + 1) = 0
    <3>1. Value(f, b, DigitsFrom(f, b) - 1) = 0
      BY <1>0, ValueStarts
    <3>2. DigitsFrom(f, b) - 1 = o /\ o + 1 \in DigitsFrom(f, b) .. Len(f) /\ (o + 1) - 1 = o
      BY <1>0, <1>3, <2>1
    <3>3. Value(f, b, o + 1) = Value(f, b, (o + 1) - 1) * RadixAt(f, b) + Val(f[o + 1])
      BY <1>0, <3>2, ValueGrows
    <3> QED
      BY <1>3, <2>1, <3>1, <3>2, <3>3, ValIs
  <2>3. SoFar(f, b, o + 2)'
    <3>1. (o + 2) - 1 = o + 1 /\ o + 2 >= DigitsFrom(f, b) /\ o + 2 # DigitsFrom(f, b)
          /\ \A i \in DigitsFrom(f, b) .. (o + 2) - 1 : i = o + 1
      BY <1>0, <2>1
    <3>2. Val(f[o + 1]) < base'
      BY <1>3, <2>1, ValIs
    <3> QED
      BY <2>1, <2>2, <3>1, <3>2 DEF SoFar
  <2>4. o + 2 \in Nat /\ (o + 2) - 1 = o + 1
    BY <1>0
  <2>5. \E j \in Nat : Read(w, j)' /\ SoFar(f, b, j)' /\ num' = Value(f, b, j - 1) /\ num' <= UIntMax
    BY <1>1, <1>2, <1>4, <2>2, <2>3, <2>4, Widths
  <2> QED
    BY <1>1, <1>2, <1>4, <2>1, <2>5 DEF IntAt
<1> QED
  BY <1>4, <1>7, <1>8

LEMMA StillRead ==
  ASSUME UNCHANGED file, pos' = pos, NEW w, NEW j, Read(w, j)
  PROVE  Read(w, j)' /\ Field(pos, w)' = Field(pos, w)
<1>1. /\ text' = text /\ rpos' = rpos /\ rend' = rend /\ shlim' = shlim /\ shcnt' = shcnt /\ c' = c
  BY DEF file
<1>2. Field(pos, w)' = Field(pos, w)
  BY <1>1 DEF Field
<1>3. Consumed' = Consumed /\ CountsFrom' = CountsFrom
  BY <1>1 DEF Consumed, CountsFrom, Count
<1> QED
  BY <1>1, <1>2, <1>3 DEF Read

LEMMA AfterXOK ==
  ASSUME NEW f, NEW b, NEW w, IntNow(f, b, w), AfterX
  PROVE  IntAt(f, b, w)' /\ Field(pos, w)' = f
<1> DEFINE o == SignLen(f)
<1>0. /\ Started /\ Typed /\ w \in Nat /\ b \in Bases /\ f \in Seq(Char) /\ Len(f) \in Nat \ {0}
      /\ f = Field(pos, w) /\ PosOK /\ ScanInv /\ o \in {0, 1}
  BY IntFacts
<1>1. Read(w, o + 2) /\ HexAt(f, b) /\ base = b /\ num = 0 /\ neg = (f[1] = "-")
  BY DEF IntNow, IntAt, AfterX
<1>2. /\ ShGetC /\ pos' = pos /\ num' = num /\ neg' = neg
      /\ IF Val(c') >= 16 THEN pc' = "reject" /\ base' = base ELSE pc' = "digits" /\ base' = 16
  BY DEF AfterX, args
<1>3. Len(f) >= o + 2 /\ b \in {0, 16} /\ DigitsFrom(f, b) = o + 3 /\ RadixAt(f, b) = 16
  BY <1>1 DEF HexAt, o, DigitsFrom, RadixAt
<1> HIDE DEF o
<1>4. Read(w, o + 3)' /\ Field(pos, w)' = f
  <2>1. o + 3 = IF o + 2 <= Len(Field(pos, w)) THEN (o + 2) + 1 ELSE o + 2
    BY <1>0, <1>3
  <2> QED
    BY <1>0, <1>1, <1>2, <2>1, Got
<1>5. c' = IF o + 3 <= Len(f) THEN f[o + 3] ELSE EOF
  <2>1. o + 3 # 0
    BY <1>0
  <2> QED
    BY <1>4, <2>1 DEF Read
<1>6. CASE Val(c') >= 16
  <2>1. o + 3 <= Len(f) => ~(Val(f[o + 3]) < 16)
    <3>1. Val(c') \in Nat
      BY ValType
    <3> QED
      BY <1>5, <1>6, <3>1
  <2>2. ~IsNumeral(Item(f, b), b)
    BY <1>0, <1>1, <2>1, NoHexDigit DEF o
  <2> QED
    BY <1>2, <1>4, <1>6, <2>2 DEF IntAt
<1>7. CASE ~(Val(c') >= 16)
  <2>1. Val(EOF) = 255 /\ Val(c') \in Nat
    BY ValIs
  <2>2. o + 3 <= Len(f) /\ Val(f[o + 3]) < 16
    BY <1>5, <1>7, <2>1
  <2>3. Value(f, b, (o + 3) - 1) = 0
    BY <1>0, <1>3, ValueStarts
  <2>4. SoFar(f, b, o + 3)'
    <3>1. o + 3 >= DigitsFrom(f, b) /\ \A i \in DigitsFrom(f, b) .. (o + 3) - 1 : FALSE
      BY <1>0, <1>3
    <3> QED
      BY <1>2, <1>3, <1>7, <2>2, <2>3, <3>1 DEF SoFar
  <2>5. o + 3 \in Nat
    BY <1>0
  <2>6. \E j \in Nat : Read(w, j)' /\ SoFar(f, b, j)' /\ num' = Value(f, b, j - 1) /\ num' <= UIntMax
    BY <1>1, <1>2, <1>4, <2>3, <2>4, <2>5, Widths
  <2> QED
    BY <1>1, <1>2, <1>4, <1>7, <2>6 DEF IntAt
<1> QED
  BY <1>4, <1>6, <1>7

LEMMA FirstDigitOK ==
  ASSUME NEW f, NEW b, NEW w, IntNow(f, b, w), FirstDigit
  PROVE  IntAt(f, b, w)' /\ Field(pos, w)' = f
<1> DEFINE o == SignLen(f)
           r == IF b = 0 THEN 10 ELSE b
<1>0. /\ Started /\ Typed /\ w \in Nat /\ b \in Bases /\ f \in Seq(Char) /\ Len(f) \in Nat \ {0}
      /\ f = Field(pos, w) /\ PosOK /\ ScanInv /\ o \in {0, 1}
  BY IntFacts
<1>1. Read(w, o + 1) /\ base = b /\ num = 0 /\ neg = (f[1] = "-")
  BY DEF IntNow, IntAt, FirstDigit
<1>2. /\ UNCHANGED file /\ pos' = pos /\ num' = num /\ neg' = neg /\ base' = r
      /\ b \notin {0, 16} \/ c # "0"
      /\ IF Val(c) >= r THEN pc' = "reject" ELSE pc' = "digits"
  BY <1>1 DEF FirstDigit, args
<1> HIDE DEF o
<1>3. Read(w, o + 1)' /\ Field(pos, w)' = f
  BY <1>0, <1>1, <1>2, StillRead
<1>4. o + 1 \in 1 .. Len(f) + 1 /\ c = IF o + 1 <= Len(f) THEN f[o + 1] ELSE EOF
  <2>1. o + 1 \in Nat /\ o + 1 # 0
    BY <1>0
  <2> QED
    BY <1>0, <1>1, <2>1, Current
<1>5. CASE Val(c) >= r
  <2>1. o + 1 <= Len(f) => (b \notin {0, 16} \/ f[o + 1] # "0") /\ ~(Val(f[o + 1]) < r)
    <3>1. Val(c) \in Nat /\ r \in Nat
      BY <1>0, ValType DEF Bases
    <3> HIDE DEF r
    <3>2. o + 1 <= Len(f) => ~(Val(f[o + 1]) < r)
      BY <1>4, <1>5, <3>1
    <3> QED
      BY <1>2, <1>4, <3>2
  <2>2. ~IsNumeral(Item(f, b), b)
    BY <1>0, <2>1, NoFirstDigit DEF o
  <2> QED
    BY <1>2, <1>3, <1>5, <2>2 DEF IntAt
<1>6. CASE ~(Val(c) >= r)
  <2>1. Val(EOF) = 255 /\ Val(c) \in Nat /\ r \in {8, 10, 16}
    BY <1>0, ValIs, ValType DEF Bases
  <2>2. o + 1 <= Len(f) /\ Val(f[o + 1]) < r /\ (b \notin {0, 16} \/ f[o + 1] # "0")
    BY <1>2, <1>4, <1>6, <2>1
  <2>3. ~HexAt(f, b) /\ DigitsFrom(f, b) = o + 1 /\ RadixAt(f, b) = r
    BY <1>0, <2>2 DEF HexAt, DigitsFrom, RadixAt, o
  <2>4. Value(f, b, (o + 1) - 1) = 0
    BY <1>0, <2>3, ValueStarts
  <2>5. SoFar(f, b, o + 1)'
    <3>1. o + 1 >= DigitsFrom(f, b) /\ \A i \in DigitsFrom(f, b) .. (o + 1) - 1 : FALSE
      BY <1>0, <2>3
    <3> HIDE DEF r
    <3> QED
      BY <1>2, <2>2, <2>3, <2>4, <3>1 DEF SoFar
  <2>6. o + 1 \in Nat
    BY <1>0
  <2>7. \E j \in Nat : Read(w, j)' /\ SoFar(f, b, j)' /\ num' = Value(f, b, j - 1) /\ num' <= UIntMax
    BY <1>1, <1>2, <1>3, <2>4, <2>5, <2>6, Widths
  <2> QED
    BY <1>1, <1>2, <1>3, <1>6, <2>7 DEF IntAt
<1> QED
  BY <1>3, <1>5, <1>6

LEMMA RejectOK ==
  ASSUME NEW f, NEW b, NEW w, IntNow(f, b, w), Reject \/ Rejected
  PROVE  IntAt(f, b, w)' /\ Field(pos, w)' = f
<1>0. Started /\ f = Field(pos, w) /\ ScanInv
  BY IntFacts
<1>1. ~IsNumeral(Item(f, b), b)
  BY DEF IntNow, IntAt, Reject, Rejected
<1>2. CASE Reject
  <2>1. ShUnget /\ pos' = pos /\ pc' = "rejected"
    BY <1>2 DEF Reject, args
  <2>2. text' = text
    BY <2>1 DEF ShUnget
  <2>3. Field(pos, w)' = f
    BY <1>0, <2>1, <2>2 DEF Field
  <2> QED
    BY <1>1, <2>1, <2>3 DEF IntAt
<1>3. CASE Rejected
  <2>1. ShLim(0) /\ pos' = pos /\ pc' = "filed"
    BY <1>3 DEF Rejected, args
  <2>2. Reader!Limit /\ FileOK' /\ Started'
    BY <1>0, <2>1, LimitSteps DEF ScanInv
  <2>3. text' = text /\ CountsFrom' = Consumed /\ Consumed' = Consumed
    BY <2>2 DEF Reader!Limit
  <2>4. Count' = 0
    BY <2>2, <2>3, CountIsNext
  <2>5. Field(pos, w)' = f
    BY <1>0, <2>1, <2>3 DEF Field
  <2> QED
    BY <1>1, <2>1, <2>4, <2>5 DEF IntAt
<1> QED
  BY <1>2, <1>3

LEMMA XDigitsOK ==
  ASSUME NEW f, NEW b, NEW w, IntNow(f, b, w), XDigits
  PROVE  IntAt(f, b, w)' /\ Field(pos, w)' = f
<1>0. /\ Started /\ Typed /\ w \in Nat /\ b \in Bases /\ f \in Seq(Char) /\ Len(f) \in Nat \ {0}
      /\ f = Field(pos, w) /\ PosOK /\ ScanInv
  BY IntFacts
<1>1. PICK j \in Nat : /\ Read(w, j) /\ SoFar(f, b, j) /\ num = Value(f, b, j - 1)
                       /\ neg = (f[1] = "-") /\ num <= UIntMax
  BY DEF IntNow, IntAt, XDigits
<1>2. pos' = pos /\ base' = base /\ neg' = neg /\ pc = "digits"
  BY DEF XDigits, Digit, args
<1>3. /\ base = RadixAt(f, b) /\ j >= DigitsFrom(f, b) /\ DigitsFrom(f, b) \in 1 .. 4
      /\ base \in {8, 10, 16} /\ num \in Nat
  BY <1>0, <1>1, ValueStarts DEF SoFar, RadixAt, Bases
<1>4. j # 0 /\ j \in 1 .. Len(f) + 1 /\ c = IF j <= Len(f) THEN f[j] ELSE EOF
  BY <1>0, <1>1, <1>3, Current
<1>5. CASE Val(c) < base /\ XMore
  <2>1. ShGetC /\ num' = (num * base + Val(c)) % 2 ^ UIntBits /\ pc' = pc
    BY <1>5 DEF XDigits, Digit
  <2>2. j <= Len(f) /\ c = f[j] /\ Val(f[j]) \in Nat
    <3>1. Val(EOF) = 255 /\ Val(f[j]) \in Nat
      BY ValIs, ValType
    <3> QED
      BY <1>3, <1>4, <1>5, <3>1
  <2>3. Read(w, j + 1)' /\ Field(pos, w)' = f
    <3>1. j + 1 = IF j <= Len(Field(pos, w)) THEN j + 1 ELSE j
      BY <1>0, <2>2
    <3> QED
      BY <1>0, <1>1, <1>2, <2>1, <3>1, Got
  <2>4. Value(f, b, j) = num * base + Val(c)
    <3>1. j \in DigitsFrom(f, b) .. Len(f)
      BY <1>3, <2>2
    <3> QED
      BY <1>0, <1>1, <1>3, <2>2, <3>1, ValueGrows
  <2>5. num * base + Val(c) \in Nat /\ num * base + Val(c) <= UIntMax
    <3>1. CASE base = 10
      <4>1. num <= (UIntMax \div 10) - 1 /\ Val(c) <= 9
        BY <1>5, <2>2, <3>1 DEF XMore
      <4>2. num * 10 + 9 <= UIntMax
        BY <1>3, <4>1, Widths
      <4> QED
        BY <1>3, <2>2, <3>1, <4>1, <4>2, Widths
    <3>2. CASE base = 8
      <4>1. num <= UIntMax \div 32 /\ Val(c) <= 7
        BY <1>5, <2>2, <3>2 DEF XMore
      <4>2. num * 16 + 15 <= UIntMax
        BY <1>3, <4>1, Widths
      <4> QED
        BY <1>3, <2>2, <3>2, <4>1, <4>2, Widths
    <3>3. CASE base = 16
      <4>1. num <= UIntMax \div 32 /\ Val(c) <= 15
        BY <1>5, <2>2, <3>3 DEF XMore
      <4>2. num * 16 + 15 <= UIntMax
        BY <1>3, <4>1, Widths
      <4> QED
        BY <1>3, <2>2, <3>3, <4>1, <4>2, Widths
    <3> QED
      BY <1>3, <3>1, <3>2, <3>3
  <2>6. num' = num * base + Val(c)
    <3> DEFINE x == num * base + Val(c)
               m == UIntMax + 1
    <3>1. x \in 0 .. m - 1 /\ m \in Nat \ {0} /\ num' = x % m
      BY <2>1, <2>5, Widths
    <3> HIDE DEF x, m
    <3>2. num' = x
      BY <3>1, Remains
    <3> QED
      BY <3>2 DEF x
  <2>7. SoFar(f, b, j + 1)'
    <3>1. (j + 1) - 1 = j /\ j + 1 >= DigitsFrom(f, b) /\ j + 1 # DigitsFrom(f, b)
          /\ \A i \in DigitsFrom(f, b) .. (j + 1) - 1 : i \in DigitsFrom(f, b) .. j - 1 \/ i = j
      BY <1>3
    <3> QED
      BY <1>1, <1>2, <1>3, <1>5, <2>2, <2>4, <2>5, <3>1 DEF SoFar
  <2>8. j + 1 \in Nat /\ (j + 1) - 1 = j
    OBVIOUS
  <2>9. \E i \in Nat : Read(w, i)' /\ SoFar(f, b, i)' /\ num' = Value(f, b, i - 1) /\ num' <= UIntMax
    BY <2>3, <2>4, <2>5, <2>6, <2>7, <2>8
  <2> QED
    BY <1>1, <1>2, <2>1, <2>3, <2>9 DEF IntAt
<1>6. CASE ~(Val(c) < base /\ XMore)
  <2>1. UNCHANGED file /\ num' = num /\ pc' = "more"
    BY <1>6 DEF XDigits, Digit
  <2>2. Read(w, j)' /\ Field(pos, w)' = f
    BY <1>0, <1>1, <1>2, <2>1, StillRead
  <2>3. SoFar(f, b, j)'
    BY <1>1, <1>2 DEF SoFar
  <2>4. num' <= ULLMax
    BY <1>1, <1>3, <2>1, Widths
  <2> QED
    BY <1>1, <1>2, <2>1, <2>2, <2>3, <2>4 DEF IntAt
<1> QED
  BY <1>5, <1>6

(* The digit under way, and what it makes of the value.                    *)
LEMMA DigitAt ==
  ASSUME NEW f, NEW b, NEW w, IntNow(f, b, w), NEW j \in Nat, Read(w, j), SoFar(f, b, j)
  PROVE  /\ j \in 1 .. Len(f) + 1 /\ base \in {8, 10, 16} /\ base = RadixAt(f, b) /\ Val(c) \in Nat
         /\ DigitsFrom(f, b) \in 1 .. j /\ Value(f, b, j - 1) \in Nat
         /\ Val(c) < base => /\ j <= Len(f) /\ c = f[j] /\ j \in DigitsFrom(f, b) .. Len(f)
                             /\ Value(f, b, j) = Value(f, b, j - 1) * base + Val(c)
                             /\ Value(f, b, j) \in Nat
         /\ ~(Val(c) < base) => j > DigitsFrom(f, b) /\ (j <= Len(f) => c = f[j])
<1>0. /\ Started /\ Typed /\ w \in Nat /\ b \in Bases /\ f \in Seq(Char) /\ Len(f) \in Nat \ {0}
      /\ f = Field(pos, w) /\ PosOK /\ ScanInv
  BY IntFacts
<1>1. /\ base = RadixAt(f, b) /\ j >= DigitsFrom(f, b) /\ DigitsFrom(f, b) \in 1 .. 4
      /\ base \in {8, 10, 16} /\ Value(f, b, j - 1) \in Nat
      /\ j = DigitsFrom(f, b) => j <= Len(f) /\ Val(f[j]) < base
  BY <1>0, ValueStarts DEF SoFar, RadixAt, Bases
<1>2. j # 0 /\ j \in 1 .. Len(f) + 1 /\ c = IF j <= Len(f) THEN f[j] ELSE EOF
  BY <1>0, <1>1, Current
<1>3. Val(c) \in Nat /\ Val(EOF) = 255
  BY ValIs, ValType
<1>4. ASSUME Val(c) < base
      PROVE  /\ j <= Len(f) /\ c = f[j] /\ j \in DigitsFrom(f, b) .. Len(f)
             /\ Value(f, b, j) = Value(f, b, j - 1) * base + Val(c)
             /\ Value(f, b, j) \in Nat
  <2>1. j <= Len(f) /\ c = f[j] /\ j \in DigitsFrom(f, b) .. Len(f)
    BY <1>1, <1>2, <1>3, <1>4
  <2>2. Value(f, b, j) = Value(f, b, j - 1) * base + Val(c)
    BY <1>0, <1>1, <2>1, ValueGrows
  <2> QED
    BY <1>1, <1>3, <2>1, <2>2
<1>5. ASSUME ~(Val(c) < base) PROVE j > DigitsFrom(f, b) /\ (j <= Len(f) => c = f[j])
  BY <1>1, <1>2, <1>5
<1> QED
  BY <1>1, <1>2, <1>3, <1>4, <1>5

LEMMA NextDigit ==
  ASSUME NEW f, NEW b, NEW w, IntNow(f, b, w), NEW j \in Nat, Read(w, j), SoFar(f, b, j),
         Val(c) < base, ShGetC, pos' = pos, base' = base
  PROVE  Read(w, j + 1)' /\ Field(pos, w)' = f /\ SoFar(f, b, j + 1)' /\ j + 1 \in Nat /\ (j + 1) - 1 = j
<1>0. Started /\ w \in Nat /\ f = Field(pos, w) /\ PosOK /\ ScanInv
  BY IntFacts
<1>1. /\ base \in {8, 10, 16} /\ base = RadixAt(f, b) /\ DigitsFrom(f, b) \in 1 .. j
      /\ j <= Len(f) /\ c = f[j] /\ Value(f, b, j) \in Nat
  BY DigitAt
<1>2. Read(w, j + 1)' /\ Field(pos, w)' = f
  <2>1. j + 1 = IF j <= Len(Field(pos, w)) THEN j + 1 ELSE j
    BY <1>0, <1>1
  <2> QED
    BY <1>0, <2>1, Got
<1>3. SoFar(f, b, j + 1)'
  <2>1. (j + 1) - 1 = j /\ j + 1 >= DigitsFrom(f, b) /\ j + 1 # DigitsFrom(f, b)
        /\ \A i \in DigitsFrom(f, b) .. (j + 1) - 1 : i \in DigitsFrom(f, b) .. j - 1 \/ i = j
    BY <1>1
  <2> QED
    BY <1>1, <2>1 DEF SoFar
<1> QED
  BY <1>2, <1>3

LEMMA YDigitsOK ==
  ASSUME NEW f, NEW b, NEW w, IntNow(f, b, w), YDigits
  PROVE  IntAt(f, b, w)' /\ Field(pos, w)' = f
<1>0. f = Field(pos, w)
  BY IntFacts
<1>1. PICK j \in Nat : /\ Read(w, j) /\ SoFar(f, b, j) /\ num = Value(f, b, j - 1)
                       /\ neg = (f[1] = "-") /\ num <= ULLMax
  BY DEF IntNow, IntAt, YDigits
<1>2. pos' = pos /\ base' = base /\ neg' = neg /\ pc = "more"
  BY DEF YDigits, Digit, args
<1>3. /\ base \in {8, 10, 16} /\ num \in Nat /\ Val(c) \in Nat /\ ULLMax \in Nat
      /\ Val(c) < base => j <= Len(f) /\ c = f[j] /\ Value(f, b, j) = num * base + Val(c)
  BY <1>1, DigitAt, Widths
<1>4. YMore => (Val(c) < base => num * base + Val(c) <= ULLMax)
  <2>1. CASE base = 10
    BY <1>3, <2>1 DEF YMore
  <2>2. CASE base = 8
    <3> SUFFICES ASSUME YMore, Val(c) < base PROVE num * base + Val(c) <= ULLMax
      OBVIOUS
    <3>1. num * 8 + 7 <= ULLMax
      BY <1>3, <2>2, Widths DEF YMore
    <3> QED
      BY <1>3, <2>2, <3>1
  <2>3. CASE base = 16
    <3> SUFFICES ASSUME YMore, Val(c) < base PROVE num * base + Val(c) <= ULLMax
      OBVIOUS
    <3>1. num * 16 + 15 <= ULLMax
      BY <1>3, <2>3, Widths DEF YMore
    <3> QED
      BY <1>3, <2>3, <3>1
  <2> QED
    BY <1>3, <2>1, <2>2, <2>3
<1>5. ~YMore => (Val(c) < base => num * base + Val(c) > ULLMax)
  <2>1. CASE base = 10
    <3> DEFINE m == ULLMax
               v == Val(c)
    <3> HIDE DEF m, v
    <3>1. m \in Nat /\ v \in Nat /\ ~(num <= m \div 10 /\ 10 * num <= m - v) => num * 10 + v > m
      BY <1>3
    <3> QED
      BY <1>3, <2>1, <3>1 DEF YMore, m, v
  <2>2. CASE base = 8
    <3> DEFINE m == ULLMax
               v == Val(c)
    <3> HIDE DEF m, v
    <3>1. m \in Nat /\ v \in Nat /\ ~(num <= m \div 8) => num * 8 + v > m
      BY <1>3
    <3> QED
      BY <1>3, <2>2, <3>1 DEF YMore, m, v
  <2>3. CASE base = 16
    <3> DEFINE m == ULLMax
               v == Val(c)
    <3> HIDE DEF m, v
    <3>1. m \in Nat /\ v \in Nat /\ ~(num <= m \div 16) => num * 16 + v > m
      BY <1>3
    <3> QED
      BY <1>3, <2>3, <3>1 DEF YMore, m, v
  <2> QED
    BY <1>3, <2>1, <2>2, <2>3
<1>6. CASE Val(c) < base /\ YMore
  <2>1. ShGetC /\ num' = (num * base + Val(c)) % 2 ^ ULLBits /\ pc' = pc
    BY <1>6 DEF YDigits, Digit
  <2>2. Read(w, j + 1)' /\ Field(pos, w)' = f /\ SoFar(f, b, j + 1)' /\ j + 1 \in Nat /\ (j + 1) - 1 = j
    BY <1>1, <1>2, <1>6, <2>1, NextDigit
  <2>3. num' = Value(f, b, j) /\ num' <= ULLMax
    <3> DEFINE x == num * base + Val(c)
               m == ULLMax + 1
    <3>1. x \in Nat
      BY <1>3
    <3>2. x \in 0 .. m - 1 /\ m \in Nat \ {0} /\ num' = x % m /\ x <= ULLMax /\ x = Value(f, b, j)
      BY <1>3, <1>4, <1>6, <2>1, <3>1, Widths
    <3> HIDE DEF x, m
    <3>3. num' = x
      BY <3>2, Remains
    <3> QED
      BY <3>2, <3>3
  <2>4. \E i \in Nat : Read(w, i)' /\ SoFar(f, b, i)' /\ num' = Value(f, b, i - 1) /\ num' <= ULLMax
    BY <2>2, <2>3
  <2> QED
    BY <1>1, <1>2, <2>1, <2>2, <2>4 DEF IntAt
<1>7. CASE ~(Val(c) < base /\ YMore)
  <2>1. UNCHANGED file /\ num' = num /\ pc' = IF Val(c) < base THEN "over" ELSE "done"
    BY <1>7 DEF YDigits, Digit
  <2>2. Read(w, j)' /\ Field(pos, w)' = f
    BY <1>0, <1>1, <1>2, <2>1, StillRead
  <2>3. SoFar(f, b, j)' /\ c' = c
    BY <1>1, <1>2, <2>1 DEF SoFar, file
  <2>4. CASE Val(c) < base
    <3>1. Value(f, b, j) > ULLMax /\ j <= Len(f) /\ Val(f[j]) < base'
      BY <1>2, <1>3, <1>5, <1>7, <2>4
    <3> QED
      BY <1>2, <2>1, <2>2, <2>3, <2>4, <3>1 DEF IntAt
  <2>5. CASE ~(Val(c) < base)
    <3>1. ~(Value(f, b, j - 1) > ULLMax)
      BY <1>1, <1>3
    <3> QED
      BY <1>1, <1>2, <2>1, <2>2, <2>3, <2>5, <3>1 DEF IntAt
  <2> QED
    BY <2>4, <2>5
<1> QED
  BY <1>6, <1>7

LEMMA OverflowOK ==
  ASSUME NEW f, NEW b, NEW w, IntNow(f, b, w), Overflow
  PROVE  IntAt(f, b, w)' /\ Field(pos, w)' = f
<1>0. f = Field(pos, w)
  BY IntFacts
<1>1. PICK j \in Nat : /\ Read(w, j) /\ SoFar(f, b, j)
                       /\ \/ Value(f, b, j - 1) > ULLMax
                          \/ j <= Len(f) /\ Val(f[j]) < base /\ Value(f, b, j) > ULLMax
  BY DEF IntNow, IntAt, Overflow
<1>2. pos' = pos /\ base' = base /\ pc = "over"
  BY DEF Overflow, args
<1>3. /\ base \in {8, 10, 16} /\ Val(c) \in Nat /\ ULLMax \in Nat /\ Value(f, b, j - 1) \in Nat
      /\ Val(c) < base => /\ j <= Len(f) /\ c = f[j] /\ Value(f, b, j) \in Nat
                          /\ Value(f, b, j) = Value(f, b, j - 1) * base + Val(c)
      /\ ~(Val(c) < base) => (j <= Len(f) => c = f[j])
  BY <1>1, DigitAt, Widths
<1>4. CASE Val(c) < base
  <2>1. ShGetC /\ pc' = pc
    BY <1>4 DEF Overflow
  <2>2. Read(w, j + 1)' /\ Field(pos, w)' = f /\ SoFar(f, b, j + 1)' /\ j + 1 \in Nat /\ (j + 1) - 1 = j
    BY <1>1, <1>2, <1>4, <2>1, NextDigit
  <2>3. Value(f, b, j) > ULLMax
    <3>1. CASE Value(f, b, j - 1) > ULLMax
      <4> DEFINE x == Value(f, b, j - 1)
                 y == Value(f, b, j)
                 v == Val(c)
      <4>1. x \in Nat /\ v \in Nat /\ y = x * base + v /\ x > ULLMax
        BY <1>3, <1>4, <3>1
      <4> HIDE DEF x, y, v
      <4>2. y >= x /\ y \in Nat
        BY <1>3, <4>1
      <4>3. y > ULLMax
        BY <1>3, <4>1, <4>2
      <4> QED
        BY <4>3 DEF y
    <3> QED
      BY <1>1, <3>1
  <2> QED
    BY <1>2, <2>1, <2>2, <2>3 DEF IntAt
<1>5. CASE ~(Val(c) < base)
  <2>1. UNCHANGED file /\ num' = ULLMax /\ neg' = FALSE /\ errno' = "ERANGE" /\ pc' = "done"
    BY <1>5 DEF Overflow
  <2>2. Read(w, j)' /\ Field(pos, w)' = f
    BY <1>0, <1>1, <1>2, <2>1, StillRead
  <2>3. SoFar(f, b, j)' /\ c' = c
    BY <1>1, <1>2, <2>1 DEF SoFar, file
  <2>4. Value(f, b, j - 1) > ULLMax
    BY <1>1, <1>3, <1>5
  <2> QED
    BY <1>2, <1>5, <2>1, <2>2, <2>3, <2>4 DEF IntAt
<1> QED
  BY <1>4, <1>5

LEMMA IntDoneOK ==
  ASSUME NEW f, NEW b, NEW w, IntNow(f, b, w), IntDone
  PROVE  IntAt(f, b, w)' /\ Field(pos, w)' = f
<1>0. /\ Started /\ Typed /\ w \in Nat /\ b \in Bases /\ f \in Seq(Char) /\ Len(f) \in Nat \ {0}
      /\ f = Field(pos, w) /\ PosOK /\ ScanInv
  BY IntFacts
<1>1. PICK j \in Nat : /\ Read(w, j) /\ SoFar(f, b, j) /\ ~(Val(c) < base)
                       /\ IF Value(f, b, j - 1) > ULLMax
                          THEN num = ULLMax /\ ~neg /\ errno = "ERANGE"
                          ELSE num = Value(f, b, j - 1) /\ neg = (f[1] = "-")
  BY DEF IntNow, IntAt, IntDone
<1>2. pos' = pos /\ pc = "done" /\ pc' = "filed" /\ num' = Negated /\ ShUnget /\ errno' = errno
  BY DEF IntDone, args
<1>3. /\ base = RadixAt(f, b) /\ j \in 1 .. Len(f) + 1 /\ DigitsFrom(f, b) \in 1 .. j
      /\ j > DigitsFrom(f, b) /\ (j <= Len(f) => c = f[j]) /\ Value(f, b, j - 1) \in Nat
  BY <1>1, DigitAt
<1>4. /\ IsNumeral(Item(f, b), b) /\ Len(Item(f, b)) = j - 1
      /\ Magnitude(Item(f, b), b) = Value(f, b, j - 1) /\ Item(f, b)[1] = f[1]
  <2>1. /\ DigitsFrom(f, b) < j /\ j <= Len(f) + 1
        /\ \A i \in DigitsFrom(f, b) .. j - 1 : Val(f[i]) < RadixAt(f, b)
        /\ j <= Len(f) => ~(Val(f[j]) < RadixAt(f, b))
    BY <1>0, <1>1, <1>3 DEF SoFar
  <2> QED
    BY <1>0, <2>1, DigitsTaken DEF Value
<1>5. Count' = j - 1 /\ j - 1 # 0 /\ Field(pos, w)' = f
  BY <1>0, <1>1, <1>2, <1>3, Ungot
<1>6. ULLMax \in Nat
  BY Widths
<1>7. num' = IntValue(Item(f, b), b)
  <2>1. CASE Value(f, b, j - 1) > ULLMax
    BY <1>1, <1>2, <1>4, <2>1 DEF IntValue, Negated
  <2>2. CASE ~(Value(f, b, j - 1) > ULLMax)
    BY <1>1, <1>2, <1>4, <2>2 DEF IntValue, Negated
  <2> QED
    BY <2>1, <2>2
<1>8. Magnitude(Item(f, b), b) > ULLMax => errno' = "ERANGE"
  BY <1>1, <1>2, <1>4
<1> QED
  BY <1>2, <1>4, <1>5, <1>7, <1>8 DEF IntAt

(* ---- where the scan is ------------------------------------------------ *)

Heads == {"next", "skip", "skipped", "char", "compare", "end"}
Conversions == {"int", "float", "set", "other"}

Blank(j) ==
    LET f == Field(pos, 0)
    IN \A i \in 1 .. j : i <= Len(f) /\ f[i] \in Spaces

(* Behind the white space before the directive that is under way.          *)
Behind == \E j \in Nat : Read(0, j + 1) /\ Blank(j) /\ c \notin Spaces

Landed == pos = Len(text) \/ text[pos + 1] \notin Spaces

(* The characters of the set that have been taken, and nothing else.       *)
Taking ==
    LET f == Field(pos, D.width)
    IN \E j \in Nat :
          /\ pc = "set" => Read(D.width, j)
          /\ pc = "taken" => Read(D.width, j + 1) /\ (j < Len(f) => ~InSet(D, f[j + 1]))
          /\ j <= Len(f) /\ got = SubSeq(f, 1, j) /\ \A i \in 1 .. j : InSet(D, f[i])

KindOK ==
    /\ pc \in {"skip", "skipped"} /\ D.kind = "set" => D.skip
    /\ pc = "skip" => D.kind \in {"space", "percent"} \cup Conversions
    /\ pc = "skipped" => D.kind \in {"space"} \cup Conversions
    /\ pc = "char" => D.kind = "literal"
    /\ pc = "compare" => D.kind \in {"literal", "percent"}
    /\ pc \notin Heads => D.kind \in Conversions
    /\ pc \in {"set", "taken"} => D.kind = "set" /\ D.closed
    /\ pc \in {"float", "other"} => D.kind = pc

Place ==
    /\ PosOK /\ k <= Len(fmt) + 1 /\ KindOK
    /\ pc \in {"next", "width"} => Consumed = pos
    /\ pc = "skip" => \E j \in Nat : Read(0, j) /\ Blank(j)
    /\ pc = "skipped" => Behind
    /\ pc = "compare" => IF D.kind = "percent" THEN Behind ELSE Read(0, 1)
    /\ pc = "char" => Read(0, 0)
    /\ pc \notin Heads => /\ D.kind # "set" \/ D.skip => Landed
                          /\ pc \notin {"width", "peek"} => Field(pos, D.width) # <<>>
                          /\ pc # "width" => CountsFrom = pos \/ (pc \in {"filed", "floated"} /\ Count = 0)
    /\ pc \in {"peek", "float", "other"} => Read(D.width, 0)
    /\ pc = "convert" => Read(D.width, 1)
    /\ pc \in {"set", "taken"} => Taking

Whole == ScanInv /\ Place /\ IntOK

LEMMA Directive ==
  ASSUME ScanInv, pc \notin {"next", "end"} \/ k <= Len(fmt)
  PROVE  /\ Len(fmt) \in Nat /\ k \in 1 .. Len(fmt) /\ fmt \in Formats
         /\ D.width \in Nat /\ D.ch # EOF /\ (D.kind = "int" => D.base \in Bases)
<1>1. fmt \in Formats /\ k \in Nat \ {0} /\ k <= Len(fmt)
  BY DEF ScanInv, Control
<1> QED
  BY <1>1, FormatsAssumption DEF D, Bases

LEMMA CallKeeps ==
  ASSUME ScanInv, Started, ShGetC \/ ShUnget
  PROVE  text' = text /\ CountsFrom' = CountsFrom /\ Started' /\ FileOK' /\ Typed'
<1>1. CASE ShGetC
  BY <1>1, GetSteps DEF ScanInv, Reader!Get
<1>2. CASE ShUnget
  BY <1>2, UngetSteps DEF ScanInv, Reader!Unget
<1> QED
  BY <1>1, <1>2

LEMMA SameFile ==
  ASSUME UNCHANGED file
  PROVE  text' = text /\ Consumed' = Consumed /\ CountsFrom' = CountsFrom /\ Count' = Count /\ c' = c
BY DEF file, Consumed, CountsFrom, Count

(* Where the count of finished directives is what has been read.           *)
LEMMA Ends ==
  ASSUME ScanInv, Place, pc' = "end", text' = text, pos' = pos, k' = k, fmt' = fmt
  PROVE  Place' /\ IntOK'
BY DEF Place, PosOK, KindOK, Heads, IntOK, IntPcs, ScanInv

LEMMA Advances ==
  ASSUME ScanInv, Place, pc' = "next", text' = text, k' = k + 1, fmt' = fmt, k <= Len(fmt),
         pos' \in 0 .. Len(text), Consumed' = pos'
  PROVE  Place' /\ IntOK'
<1>1. k + 1 <= Len(fmt) + 1
  BY Directive DEF ScanInv, Control
<1> QED
  BY <1>1 DEF Place, PosOK, KindOK, Heads, IntOK, IntPcs

(* A step in the middle of a number.                                       *)
LEMMA Inside ==
  ASSUME ScanInv, Place, UNCHANGED <<fmt, k, pos, text>>,
         pc \notin Heads \cup {"width", "peek"},
         pc' \notin Heads \cup {"width", "peek", "convert", "float", "other", "set", "taken"},
         CountsFrom' = CountsFrom \/ (pc' \in {"filed", "floated"} /\ Count' = 0),
         pc \notin {"filed", "floated"}
  PROVE  Place'
<1>1. D' = D /\ Field(pos, D.width)' = Field(pos, D.width) /\ text' = text /\ pos' = pos
  BY DEF D, Field
<1>2. KindOK'
  BY <1>1 DEF Place, KindOK, Heads
<1>3. PosOK' /\ (k <= Len(fmt) + 1)' /\ Landed' = Landed
  BY <1>1 DEF Place, PosOK, Landed
<1>4. CountsFrom = pos
  BY DEF Place, Heads
<1> QED
  BY <1>1, <1>2, <1>3, <1>4 DEF Place, Heads

(* The field that is read.                                                 *)
LEMMA FieldNow ==
  ASSUME ScanInv, PosOK, NEW w \in Nat, NEW f, f = Field(pos, w)
  PROVE  /\ f \in Seq(Char) /\ Len(f) \in Nat /\ Len(f) = FieldLen(pos, w)
         /\ Len(text) \in Nat /\ pos \in Nat /\ Len(f) <= Len(text) - pos
         /\ \A i \in 1 .. Len(f) : f[i] = text[pos + i]
<1>1. Typed /\ pos \in 0 .. Len(text) /\ Len(text) \in Nat
  BY DEF ScanInv, PosOK, Typed
<1>2. /\ f \in Seq(Char) /\ Len(f) = FieldLen(pos, w)
      /\ FieldLen(pos, w) \in 0 .. Len(text) - pos
  BY <1>1, FieldIs
<1>3. \A i \in 1 .. FieldLen(pos, w) : f[i] = text[pos + i]
  BY <1>1, FieldIs
<1> QED
  BY <1>1, <1>2, <1>3

LEMMA Given ==
  ASSUME ScanInv, Started, ShUnget, PosOK, NEW w \in Nat, NEW j, Read(w, j), j # 0
  PROVE  /\ Count' = j - 1 /\ Consumed' = pos + (j - 1) /\ CountsFrom' = pos /\ c' = None
         /\ shlim' = w /\ text' = text /\ j - 1 \in 0 .. Len(Field(pos, w))
         /\ Consumed' \in 0 .. Len(text)
<1>1. Reader!Unget /\ FileOK' /\ Started'
  BY UngetSteps DEF ScanInv
<1>2. /\ CountsFrom' = pos /\ Consumed' = pos + j - 1 /\ c' = None /\ text' = text /\ shlim' = w
      /\ j - 1 \in 0 .. Len(Field(pos, w))
  BY <1>1, UngetRead DEF ScanInv
<1>3. Count' = Consumed' - CountsFrom'
  BY <1>1, CountIsNext
<1>4. /\ pos \in Nat /\ pos <= Len(text) /\ Len(text) \in Nat /\ j \in Int
      /\ Len(Field(pos, w)) = FieldLen(pos, w) /\ FieldLen(pos, w) \in 0 .. Len(text) - pos
  BY FieldIs DEF PosOK, Read, ScanInv, Typed
<1> QED
  BY <1>2, <1>3, <1>4

(* What is taken for read lies in the text, and so does the directive that *)
(* counts from where it began.                                             *)
LEMMA CountedInText ==
  ASSUME ScanInv, Started
  PROVE  /\ Consumed \in 0 .. Len(text)
         /\ CountsFrom = pos /\ PosOK => pos + Count = Consumed
<1>1. Count = Consumed - CountsFrom /\ Count \in Nat /\ Consumed \in Nat
  BY CountIs DEF ScanInv
<1>2. Len(text) \in Nat
  BY DEF ScanInv, Typed
<1>3. Consumed <= Len(text)
  <2>1. CASE rend = 0
    BY <1>2, <2>1 DEF ScanInv, FileOK, Consumed, NULL, Buf
  <2>2. CASE rend # 0
    BY <1>2, <2>2 DEF ScanInv, FileOK, Consumed, NULL, Buf
  <2> QED
    BY <2>1, <2>2
<1> QED
  BY <1>1, <1>2, <1>3 DEF PosOK

LEMMA LimitCount ==
  ASSUME ScanInv, NEW n \in Nat, ShLim(n)
  PROVE  Count' = 0 /\ text' = text
<1>1. shcnt' = 1 - rpos /\ rpos' = rpos /\ text' = text
  BY DEF ShLim, Buf
<1>2. rpos \in Int
  BY DEF ScanInv, FileOK, NULL, Buf
<1> QED
  BY <1>1, <1>2 DEF Count, Buf

(* ---- the directives, step by step ------------------------------------- *)

LEMMA BeginsOK ==
  ASSUME Whole, Begin \/ NoSkip \/ ReadSoFar \/ BadConversion \/ Finish
  PROVE  Place' /\ IntOK'
<1>1. ScanInv /\ Place /\ PosOK /\ Consumed = pos /\ pc = "next"
  BY DEF Whole, Place, Begin, NoSkip, ReadSoFar, BadConversion, Finish
<1>2. CASE Begin
  <2>1. /\ k <= Len(fmt) /\ ShLim(0) /\ UNCHANGED <<fmt, k, pos>>
        /\ pc' = IF D.kind = "literal" THEN "char" ELSE "skip"
        /\ D.kind \in {"space", "literal", "percent", "int", "float", "other"} \/ (D.kind = "set" /\ D.skip)
    BY <1>2 DEF Begin, args
  <2>2. Reader!Limit /\ shlim' = 0
    BY <1>1, <2>1, LimitSteps DEF ScanInv, ShLim
  <2>3. Read(0, 0)'
    BY <1>1, <2>1, <2>2, LimitRead DEF ScanInv
  <2>4. D' = D /\ text' = text /\ Blank(0)'
    BY <2>1, <2>2 DEF D, Reader!Limit, Blank
  <2>5. PosOK' /\ (k <= Len(fmt) + 1)' /\ KindOK'
    BY <1>1, <2>1, <2>4 DEF PosOK, KindOK, Conversions, Heads, Place
  <2>6. 0 \in Nat /\ pc' \in {"char", "skip"}
    BY <2>1
  <2> QED
    BY <2>3, <2>4, <2>5, <2>6 DEF Place, IntOK, IntPcs, Heads
<1>3. CASE NoSkip
  <2>1. k <= Len(fmt) /\ UNCHANGED <<file, fmt, k, pos>> /\ pc' = "width" /\ D.kind = "set" /\ ~D.skip
    BY <1>3 DEF NoSkip, args
  <2>2. D' = D /\ text' = text /\ Consumed' = Consumed
    BY <2>1, SameFile DEF D
  <2>3. PosOK' /\ (k <= Len(fmt) + 1)' /\ KindOK'
    BY <1>1, <2>1, <2>2 DEF PosOK, KindOK, Conversions, Heads, Place
  <2> QED
    BY <1>1, <2>1, <2>2, <2>3 DEF Place, IntOK, IntPcs, Heads
<1>4. CASE ReadSoFar
  <2>1. k <= Len(fmt) /\ UNCHANGED <<file, fmt, pos>> /\ k' = k + 1 /\ pc' = "next"
    BY <1>1, <1>4 DEF ReadSoFar
  <2>2. text' = text /\ Consumed' = Consumed
    BY <2>1, SameFile
  <2> QED
    BY <1>1, <2>1, <2>2, Advances DEF PosOK
<1>5. CASE BadConversion \/ Finish
  <2>1. UNCHANGED <<file, fmt, k, pos>> /\ pc' = "end"
    BY <1>5 DEF BadConversion, Finish, Fail, MatchFail, args
  <2> QED
    BY <1>1, <2>1, SameFile, Ends
<1> QED
  BY <1>2, <1>3, <1>4, <1>5

LEMMA SkipOK ==
  ASSUME Whole, Skip
  PROVE  Place' /\ IntOK'
<1> DEFINE f == Field(pos, 0)
<1>1. ScanInv /\ Place /\ PosOK /\ pc = "skip" /\ KindOK /\ Started /\ k <= Len(fmt)
  BY DEF Whole, Place, Skip, ScanInv, Control
<1>2. PICK j \in Nat : Read(0, j) /\ Blank(j)
  BY <1>1 DEF Place
<1>3. ShGetC /\ UNCHANGED <<fmt, k, pos>>
      /\ pc' = IF c' \in Spaces THEN "skip" ELSE IF D.kind = "percent" THEN "compare" ELSE "skipped"
  BY DEF Skip, args
<1>4. f \in Seq(Char) /\ Len(f) \in Nat /\ j <= Len(f)
  <2>1. f \in Seq(Char) /\ Len(f) \in Nat /\ j \in 0 .. Len(f) + 1
    BY <1>1, <1>2, FieldIs DEF PosOK, Read, ScanInv
  <2>2. \A i \in 1 .. j : i <= Len(f)
    BY <1>2 DEF Blank
  <2> HIDE DEF f
  <2> QED
    BY <2>1, <2>2
<1>5. Read(0, j + 1)' /\ Field(pos, 0)' = f
  <2>1. j + 1 = IF j <= Len(Field(pos, 0)) THEN j + 1 ELSE j
    BY <1>4
  <2> QED
    BY <1>1, <1>2, <1>3, <2>1, Got
<1>6. c' = IF j + 1 <= Len(f) THEN f[j + 1] ELSE EOF
  BY <1>2, <1>5 DEF Read
<1>7. text' = text /\ D' = D
  BY <1>1, <1>3, CallKeeps DEF D
<1>8. PosOK' /\ (k <= Len(fmt) + 1)' /\ KindOK'
  BY <1>1, <1>3, <1>7 DEF PosOK, KindOK, Conversions, Heads, Place
<1>9. CASE c' \in Spaces
  <2>1. j + 1 <= Len(f) /\ f[j + 1] \in Spaces
    BY <1>6, <1>9, EndAssumption
  <2>2. Blank(j + 1)'
    <3> HIDE DEF f
    <3>1. \A i \in 1 .. j + 1 : i \in 1 .. j \/ i = j + 1
      BY <1>2
    <3>2. \A i \in 1 .. j : i <= Len(f) /\ f[i] \in Spaces
      BY <1>2 DEF Blank, f
    <3>3. \A i \in 1 .. j + 1 : i <= Len(f) /\ f[i] \in Spaces
      BY <2>1, <3>1, <3>2
    <3> QED
      BY <1>5, <3>3 DEF Blank
  <2>3. pc' = "skip" /\ j + 1 \in Nat
    BY <1>2, <1>3, <1>9
  <2> QED
    BY <1>5, <1>8, <2>2, <2>3 DEF Place, IntOK, IntPcs, Heads
<1>10. CASE c' \notin Spaces
  <2>1. Blank(j)' /\ (c \notin Spaces)'
    BY <1>2, <1>5, <1>10 DEF Blank
  <2>2. Behind'
    BY <1>5, <2>1 DEF Behind
  <2>3. pc' = IF D.kind = "percent" THEN "compare" ELSE "skipped"
    BY <1>3, <1>10
  <2>4. CASE D.kind = "percent"
    BY <1>7, <1>8, <2>2, <2>3, <2>4 DEF Place, IntOK, IntPcs, Heads
  <2>5. CASE D.kind # "percent"
    BY <1>7, <1>8, <2>2, <2>3, <2>5 DEF Place, IntOK, IntPcs, Heads
  <2> QED
    BY <2>4, <2>5
<1> QED
  BY <1>9, <1>10

LEMMA SkippedOK ==
  ASSUME Whole, Skipped
  PROVE  Place' /\ IntOK'
<1> DEFINE f == Field(pos, 0)
<1>1. ScanInv /\ Place /\ PosOK /\ pc = "skipped" /\ KindOK /\ Started /\ k <= Len(fmt)
  BY DEF Whole, Place, Skipped, ScanInv, Control
<1>2. PICK j \in Nat : Read(0, j + 1) /\ Blank(j) /\ c \notin Spaces
  BY <1>1 DEF Place, Behind
<1>3. /\ ShUnget /\ fmt' = fmt
      /\ IF D.kind = "space" THEN Advance(Count')
                             ELSE pos' = pos + Count' /\ pc' = "width" /\ k' = k
  BY DEF Skipped
<1>4. /\ Count' = j /\ Consumed' = pos + j /\ text' = text /\ j \in 0 .. Len(f)
      /\ Consumed' \in 0 .. Len(text)
  <2>1. j + 1 # 0 /\ (j + 1) - 1 = j
    BY <1>2
  <2> QED
    BY <1>1, <1>2, <1>3, <2>1, Given
<1>5. CASE D.kind = "space"
  BY <1>1, <1>3, <1>4, <1>5, Advances DEF Advance
<1>6. CASE D.kind # "space"
  <2>1. pos' = pos + j /\ pc' = "width" /\ k' = k /\ D' = D /\ Consumed' = pos'
    BY <1>3, <1>4, <1>6 DEF D
  <2>2. Landed'
    <3>1. /\ Len(f) = Len(text) - pos /\ (j + 1 <= Len(f) => f[j + 1] = text[pos + (j + 1)])
          /\ Len(text) \in Nat /\ pos \in Nat
      <4>1. /\ Len(f) \in Nat /\ Len(f) = FieldLen(pos, 0) /\ Len(text) \in Nat /\ pos \in Nat
            /\ \A i \in 1 .. Len(f) : f[i] = text[pos + i]
        BY <1>1, FieldNow
      <4>2. FieldLen(pos, 0) = Len(text) - pos
        BY <4>1 DEF FieldLen
      <4> HIDE DEF f
      <4>3. j + 1 <= Len(f) => j + 1 \in 1 .. Len(f)
        BY <1>4, <4>1
      <4> QED
        BY <4>1, <4>2, <4>3
    <3>2. c = IF j + 1 <= Len(f) THEN f[j + 1] ELSE EOF
      BY <1>2 DEF Read
    <3> HIDE DEF f
    <3>3. CASE j + 1 <= Len(f)
      <4>1. pos + (j + 1) = (pos + j) + 1
        BY <1>2, <3>1
      <4> QED
        BY <1>2, <1>4, <2>1, <3>1, <3>2, <3>3, <4>1 DEF Landed
    <3>4. CASE ~(j + 1 <= Len(f))
      <4>1. pos + j = Len(text)
        BY <1>4, <3>1, <3>4
      <4> QED
        BY <1>4, <2>1, <4>1 DEF Landed
    <3> QED
      BY <3>3, <3>4
  <2>3. PosOK' /\ (k <= Len(fmt) + 1)' /\ KindOK'
    BY <1>1, <1>3, <1>4, <1>6, <2>1 DEF PosOK, KindOK, Conversions, Heads, Place
  <2> QED
    BY <2>1, <2>2, <2>3 DEF Place, IntOK, IntPcs, Heads
<1> QED
  BY <1>5, <1>6

LEMMA CompareOK ==
  ASSUME Whole, OneChar \/ Compare
  PROVE  Place' /\ IntOK'
<1>1. ScanInv /\ Place /\ PosOK /\ KindOK /\ Started /\ k <= Len(fmt)
  BY DEF Whole, Place, OneChar, Compare, ScanInv, Control
<1>2. CASE OneChar
  <2>1. ShGetC /\ UNCHANGED <<fmt, k, pos>> /\ pc = "char" /\ pc' = "compare" /\ Read(0, 0)
    BY <1>1, <1>2 DEF OneChar, args, Place
  <2>2. D.kind = "literal" /\ text' = text /\ D' = D
    BY <1>1, <2>1, CallKeeps DEF KindOK, D
  <2>3. Read(0, 1)'
    <3>1. Len(Field(pos, 0)) \in Nat
      BY <1>1, FieldIs DEF PosOK, ScanInv
    <3>2. 1 = IF 0 <= Len(Field(pos, 0)) THEN 0 + 1 ELSE 0
      BY <3>1
    <3> QED
      BY <1>1, <2>1, <3>2, Got
  <2>4. PosOK' /\ (k <= Len(fmt) + 1)' /\ KindOK'
    BY <1>1, <2>1, <2>2 DEF PosOK, KindOK, Conversions, Heads, Place
  <2> QED
    BY <2>1, <2>2, <2>3, <2>4 DEF Place, IntOK, IntPcs, Heads
<1>3. CASE Compare
  <2>1. CountsFrom = pos
    BY <1>1, <1>3 DEF Compare, Place, Behind, Read
  <2>2. CASE c = D.ch
    <3>1. pos' = pos + Count /\ k' = k + 1 /\ pc' = "next" /\ UNCHANGED <<file, fmt>>
      BY <1>3, <2>2 DEF Compare, Advance
    <3> QED
      BY <1>1, <2>1, <3>1, CountedInText, SameFile, Advances
  <2>3. CASE c # D.ch
    <3>1. ShUnget /\ UNCHANGED <<fmt, k, pos>> /\ pc' = "end"
      BY <1>3, <2>3 DEF Compare, Fail, MatchFail, args
    <3> QED
      BY <1>1, <3>1, CallKeeps, Ends
  <2> QED
    BY <2>2, <2>3
<1> QED
  BY <1>2, <1>3

LEMMA WidthOK ==
  ASSUME Whole, Width \/ Peek
  PROVE  Place' /\ IntOK'
<1>1. ScanInv /\ Place /\ PosOK /\ KindOK /\ k <= Len(fmt) /\ D.kind \in Conversions
  BY DEF Whole, Place, Width, Peek, ScanInv, Control, KindOK, Heads
<1>2. D.width \in Nat
  BY <1>1, Directive DEF Width, Peek
<1>3. CASE Width
  <2>1. ShLim(D.width) /\ UNCHANGED <<fmt, k, pos>> /\ pc = "width" /\ pc' = "peek" /\ Consumed = pos
        /\ (D.kind # "set" \/ D.skip => Landed)
    BY <1>1, <1>3 DEF Width, args, Place, Heads
  <2>2. Reader!Limit /\ shlim' = D.width
    BY <1>1, <1>2, <2>1, LimitSteps DEF ScanInv, ShLim
  <2>3. D' = D /\ text' = text /\ Landed' = Landed
    BY <2>1, <2>2 DEF D, Reader!Limit, Landed
  <2>4. Read(D.width, 0)'
    <3> DEFINE w == D.width
    <3>1. shlim' = w /\ w \in Nat /\ w' = w
      BY <1>2, <2>2, <2>3
    <3> HIDE DEF w
    <3>2. Read(w, 0)'
      BY <1>1, <2>1, <2>2, <3>1, LimitRead DEF ScanInv
    <3> QED
      BY <2>3, <3>2 DEF w
  <2>5. PosOK' /\ (k <= Len(fmt) + 1)' /\ KindOK' /\ CountsFrom' = pos'
    BY <1>1, <2>1, <2>3, <2>4 DEF PosOK, KindOK, Conversions, Heads, Place, Read
  <2> QED
    BY <2>1, <2>3, <2>4, <2>5 DEF Place, IntOK, IntPcs, Heads
<1>4. CASE Peek
  <2> DEFINE w == D.width
             f == Field(pos, w)
  <2>1. /\ ShGetC /\ pc = "peek" /\ Read(w, 0) /\ Started /\ UNCHANGED <<fmt, k, pos>>
        /\ IF c' = EOF THEN pc' = "end" ELSE pc' = "convert"
        /\ (D.kind # "set" \/ D.skip => Landed)
    BY <1>1, <1>4 DEF Peek, args, Place, Heads, Fail, ScanInv
  <2>2. text' = text /\ CountsFrom' = CountsFrom /\ D' = D /\ w' = w
    BY <1>1, <2>1, CallKeeps DEF D
  <2>3. Len(f) \in Nat /\ f \in Seq(Char)
    <3>1. ScanInv /\ PosOK /\ w \in Nat
      BY <1>1, <1>2
    <3> HIDE DEF w
    <3>2. \A g : g = Field(pos, w) => g \in Seq(Char) /\ Len(g) \in Nat
      BY <3>1, FieldNow
    <3> QED
      BY <3>2
  <2>4. Read(w, 1)' /\ Field(pos, w)' = f
    <3>1. 1 = IF 0 <= Len(f) THEN 0 + 1 ELSE 0
      BY <2>3
    <3>2. ScanInv /\ Started /\ ShGetC /\ PosOK /\ pos' = pos /\ w \in Nat /\ w' = w /\ Read(w, 0)
      BY <1>1, <1>2, <2>1, <2>2
    <3> HIDE DEF w
    <3> QED
      BY <3>1, <3>2, Got
  <2>5. CASE c' = EOF
    BY <1>1, <2>1, <2>2, <2>5, Ends
  <2>6. CASE c' # EOF
    <3>1. pc' = "convert"
      BY <2>1, <2>6
    <3>2. f # <<>>
      <4>0. f' = f
        BY <2>2, <2>4
      <4>1. c' = IF 1 <= Len(f) THEN f[1] ELSE EOF
        BY <2>4, <4>0 DEF Read
      <4> HIDE DEF f
      <4>2. 1 <= Len(f)
        BY <2>6, <4>1
      <4> QED
        BY <2>3, <4>2 DEF f
    <3>3. Read(D.width, 1)' /\ Field(pos, D.width)' # <<>> /\ Landed' = Landed
      BY <2>1, <2>2, <2>4, <3>2 DEF Landed
    <3>4. PosOK' /\ (k <= Len(fmt) + 1)' /\ KindOK' /\ CountsFrom' = pos'
      BY <1>1, <2>1, <2>2, <3>1, <3>3 DEF PosOK, KindOK, Conversions, Heads, Place, Read
    <3> QED
      BY <2>1, <2>2, <3>1, <3>3, <3>4 DEF Place, IntOK, IntPcs, Heads
  <2> QED
    BY <2>5, <2>6
<1> QED
  BY <1>3, <1>4

LEMMA ConvertOK ==
  ASSUME Whole, Convert
  PROVE  Place' /\ IntOK'
<1> DEFINE w == D.width
           f == Field(pos, w)
<1>1. /\ ScanInv /\ Place /\ PosOK /\ KindOK /\ k <= Len(fmt) /\ D.kind \in Conversions
      /\ Started /\ Read(w, 1) /\ f # <<>> /\ (D.kind # "set" \/ D.skip => Landed)
  BY DEF Whole, Place, Convert, ScanInv, Control, KindOK, Heads
<1>2. w \in Nat /\ (D.kind = "int" => D.base \in Bases)
  BY <1>1, Directive DEF Convert
<1>3. /\ ShUnget /\ UNCHANGED <<fmt, k, pos>> /\ got' = <<>> /\ num' = 0
      /\ D.kind = "int" => base' = D.base
      /\ IF D.kind = "set" /\ ~D.closed THEN pc' = "end" ELSE pc' = D.kind
  BY DEF Convert, args, Fail
<1>4. Consumed' = pos /\ CountsFrom' = pos /\ c' = None /\ text' = text /\ shlim' = w
  <2>1. pos + (1 - 1) = pos /\ 1 # 0
    BY <1>1 DEF PosOK, ScanInv, Typed
  <2> QED
    BY <1>1, <1>2, <1>3, <2>1, Given
<1>5. D' = D /\ f' = f /\ Landed' = Landed
  BY <1>3, <1>4 DEF D, Field, Landed
<1>6. CASE D.kind = "set" /\ ~D.closed
  BY <1>1, <1>3, <1>4, <1>6, Ends
<1>7. CASE ~(D.kind = "set" /\ ~D.closed)
  <2>1. f \in Seq(Char) /\ Len(f) \in Nat /\ pos \in Nat
    <3> HIDE DEF w
    <3> QED
      BY <1>1, <1>2, FieldNow
  <2>2. pc' = D.kind
    BY <1>3, <1>7
  <2>3. Read(w, 0)' /\ Read(D.width, 0)'
    BY <1>3, <1>4, <1>5, <2>1 DEF Read
  <2>4. PosOK' /\ (k <= Len(fmt) + 1)' /\ KindOK'
    BY <1>1, <1>3, <1>4, <1>5, <1>7, <2>2 DEF PosOK, KindOK, Conversions, Heads, Place
  <2>5. ASSUME D.kind = "set" PROVE Taking'
    <3>1. got' = SubSeq(f, 1, 0)
      BY <1>3, <2>1, SubSeqEmpty
    <3>2. 0 \in Nat /\ 0 <= Len(f) /\ \A i \in 1 .. 0 : FALSE
      BY <2>1
    <3>3. pc' = "set"
      BY <2>2, <2>5
    <3>4. Read(w, 0)' /\ f' = f /\ D' = D /\ w' = w
      BY <1>5, <2>3
    <3> HIDE DEF f
    <3>5. /\ Read(D.width, 0)' /\ (0 <= Len(f) /\ got = SubSeq(f, 1, 0))'
          /\ \A i \in 1 .. 0 : InSet(D, f[i])'
      BY <2>3, <3>1, <3>2, <3>4
    <3> QED
      BY <3>2, <3>3, <3>5 DEF Taking, f
  <2>6. IntOK'
    <3> SUFFICES ASSUME pc' \in IntPcs PROVE IntOK'
      BY DEF IntOK
    <3>1. D.kind = "int"
      BY <1>1, <2>2 DEF IntPcs, Conversions
    <3>2. f[1] \notin Spaces
      <4>1. 1 \in 1 .. Len(f)
        <5> HIDE DEF f
        <5> QED
          BY <1>1, <2>1
      <4>2. f[1] = text[pos + 1] /\ Len(f) <= Len(text) - pos /\ Len(text) \in Nat
        <5> HIDE DEF w
        <5> QED
          BY <1>1, <1>2, <4>1, FieldNow
      <4> HIDE DEF f
      <4>3. pos # Len(text)
        BY <2>1, <4>1, <4>2
      <4> QED
        BY <1>1, <3>1, <4>2, <4>3 DEF Landed
    <3>3. IntAt(f, D.base, w)'
      BY <1>3, <1>5, <2>2, <2>3, <3>1 DEF IntAt
    <3> HIDE DEF f, w
    <3>4. f' # <<>> /\ f'[1] \notin Spaces /\ D'.kind = "int"
      BY <1>1, <1>5, <3>1, <3>2
    <3> QED
      BY <3>3, <3>4 DEF IntOK, f, w
  <2>7. CountsFrom' = pos' /\ f' # <<>> /\ pc' \in Conversions
    BY <1>1, <1>3, <1>4, <1>5, <2>2
  <2> QED
    BY <1>1, <1>5, <2>2, <2>3, <2>4, <2>5, <2>6, <2>7 DEF Place, Heads, Conversions
<1> QED
  BY <1>6, <1>7

LEMMA CharsOK ==
  ASSUME Whole, Chars
  PROVE  Place' /\ IntOK'
<1> DEFINE w == D.width
           f == Field(pos, w)
<1>1. /\ ScanInv /\ Place /\ PosOK /\ KindOK /\ k <= Len(fmt) /\ D.kind = "set" /\ D.closed
      /\ Started /\ Taking /\ f # <<>> /\ (D.kind # "set" \/ D.skip => Landed) /\ CountsFrom = pos
      /\ pc = "set"
  BY DEF Whole, Place, Chars, ScanInv, Control, KindOK, Heads
<1>2. w \in Nat
  BY <1>1, Directive
<1>3. /\ ShGetC /\ UNCHANGED <<fmt, k, pos>>
      /\ IF InSet(D, c') THEN got' = Append(got, c') /\ pc' = "set" ELSE got' = got /\ pc' = "taken"
  BY DEF Chars, args
<1>4. text' = text /\ CountsFrom' = CountsFrom /\ D' = D /\ Landed' = Landed
  BY <1>1, <1>3, CallKeeps DEF D, Landed
<1>5. PICK j \in Nat : /\ Read(w, j) /\ j <= Len(f) /\ got = SubSeq(f, 1, j)
                       /\ \A i \in 1 .. j : InSet(D, f[i])
  BY <1>1 DEF Taking
<1>6. f \in Seq(Char) /\ Len(f) \in Nat
  <2> HIDE DEF w
  <2> QED
    BY <1>1, <1>2, FieldNow
<1>7. Read(w, j + 1)' /\ f' = f
  <2>1. j + 1 = IF j <= Len(f) THEN j + 1 ELSE j
    BY <1>5, <1>6
  <2>2. ScanInv /\ Started /\ ShGetC /\ PosOK /\ pos' = pos /\ w \in Nat /\ w' = w /\ Read(w, j)
    BY <1>1, <1>2, <1>3, <1>4, <1>5
  <2> HIDE DEF w
  <2> QED
    BY <2>1, <2>2, Got
<1>8. c' = IF j + 1 <= Len(f) THEN f[j + 1] ELSE EOF
  BY <1>5, <1>7 DEF Read
<1>9. PosOK' /\ (k <= Len(fmt) + 1)' /\ KindOK' /\ pc' \in {"set", "taken"}
  BY <1>1, <1>3, <1>4 DEF PosOK, KindOK, Conversions, Heads, Place
<1>10. Taking'
  <2> HIDE DEF f
  <2>1. CASE InSet(D, c')
    <3>1. j + 1 <= Len(f) /\ c' = f[j + 1] /\ j + 1 \in Nat
      BY <1>5, <1>8, <2>1 DEF InSet
    <3>2. got' = SubSeq(f, 1, j + 1)
      <4>1. \A i \in 1 .. j + 1 : f[i] \in Char
        BY <1>5, <1>6, <3>1
      <4> DEFINE s == SubSeq(f, 1, j)
                 t == SubSeq(f, 1, j + 1)
      <4>2. /\ s \in Seq(Char) /\ Len(s) = j /\ \A i \in 1 .. j : s[i] = f[i]
        <5>1. \A i \in 1 .. j : f[i] \in Char
          BY <1>5, <4>1
        <5> QED
          BY <1>5, <1>6, <3>1, <5>1, SubSeqProperties
      <4>3. /\ t \in Seq(Char) /\ Len(t) = j + 1 /\ \A i \in 1 .. j + 1 : t[i] = f[i]
        BY <1>5, <1>6, <3>1, <4>1, SubSeqProperties
      <4> HIDE DEF s, t
      <4>4. /\ Append(s, f[j + 1]) \in Seq(Char) /\ Len(Append(s, f[j + 1])) = j + 1
            /\ \A i \in 1 .. j + 1 : Append(s, f[j + 1])[i] = IF i <= j THEN s[i] ELSE f[j + 1]
        BY <1>5, <4>1, <4>2
      <4>5. \A i \in 1 .. j + 1 : Append(s, f[j + 1])[i] = t[i]
        BY <1>5, <4>2, <4>3, <4>4
      <4>6. Append(s, f[j + 1]) = t
        BY <4>3, <4>4, <4>5, SeqEqual
      <4> QED
        BY <1>3, <1>5, <2>1, <3>1, <4>6 DEF s, t
    <3>3. \A i \in 1 .. j + 1 : InSet(D, f[i])
      BY <1>5, <2>1, <3>1
    <3>4. pc' = "set"
      BY <1>3, <2>1
    <3> QED
      BY <1>4, <1>7, <3>1, <3>2, <3>3, <3>4 DEF Taking, f
  <2>2. CASE ~InSet(D, c')
    <3>1. pc' = "taken" /\ got' = got
      BY <1>3, <2>2
    <3>2. j < Len(f) => ~InSet(D, f[j + 1])
      BY <1>5, <1>6, <1>8, <2>2
    <3> QED
      BY <1>4, <1>5, <1>7, <3>1, <3>2 DEF Taking, f
  <2> QED
    BY <2>1, <2>2
<1>11. CountsFrom' = pos' /\ f' # <<>>
  BY <1>1, <1>3, <1>4, <1>7
<1> QED
  BY <1>1, <1>4, <1>9, <1>10, <1>11 DEF Place, Heads, IntOK, IntPcs

LEMMA StoreOK ==
  ASSUME Whole, Taken \/ Unknown \/ StoreInt \/ StoreFloat
  PROVE  Place' /\ IntOK'
<1>1. /\ ScanInv /\ Place /\ PosOK /\ k <= Len(fmt) /\ Started
  BY DEF Whole, Place, Taken, Unknown, StoreInt, StoreFloat, ScanInv, Control
<1>2. CASE Taken
  <2> DEFINE w == D.width
             f == Field(pos, w)
  <2>1. pc = "taken" /\ Taking /\ w \in Nat
    BY <1>1, <1>2, Directive DEF Taken, Place
  <2>2. PICK j \in Nat : Read(w, j + 1)
    BY <2>1 DEF Taking
  <2>3. ShUnget /\ fmt' = fmt
        /\ \/ pc' = "end" /\ pos' = pos /\ k' = k
           \/ pc' = "next" /\ pos' = pos + Count' /\ k' = k + 1
    BY <1>2 DEF Taken, MatchFail, Advance, args
  <2>4. Count' = j /\ Consumed' = pos + j /\ text' = text /\ Consumed' \in 0 .. Len(text)
    <3>1. j + 1 # 0 /\ (j + 1) - 1 = j
      BY <2>2
    <3> HIDE DEF w
    <3> QED
      BY <1>1, <2>1, <2>2, <2>3, <3>1, Given
  <2> QED
    BY <1>1, <2>3, <2>4, Ends, Advances
<1>3. CASE Unknown \/ StoreInt \/ StoreFloat
  <2>1. UNCHANGED <<file, fmt>>
        /\ \/ pc' = "end" /\ pos' = pos /\ k' = k
           \/ /\ pc' = "next" /\ pos' = pos + Count /\ k' = k + 1
              /\ pc = "other" \/ (pc \in {"filed", "floated"} /\ Count # 0)
    BY <1>3 DEF Unknown, StoreInt, StoreFloat, MatchFail, Advance, args
  <2>2. text' = text /\ Consumed' = Consumed
    BY <2>1, SameFile
  <2>3. CASE pc' = "end"
    BY <1>1, <2>1, <2>2, <2>3, Ends
  <2>4. CASE pc' # "end"
    <3>1. CountsFrom = pos
      BY <1>1, <2>1, <2>4 DEF Place, Heads
    <3>2. pos' = Consumed /\ Consumed \in 0 .. Len(text)
      BY <1>1, <2>1, <2>4, <3>1, CountedInText
    <3> QED
      BY <1>1, <2>1, <2>2, <2>4, <3>2, Advances
  <2> QED
    BY <2>3, <2>4
<1> QED
  BY <1>2, <1>3

LEMMA IntegerStepsOK ==
  ASSUME Whole,
         Sign \/ AfterSign \/ LeadingZero \/ AfterX \/ FirstDigit \/ Reject
           \/ Rejected \/ XDigits \/ YDigits \/ Overflow \/ IntDone
  PROVE  Place' /\ IntOK'
<1>1. /\ pc \in IntPcs \ {"filed"} /\ pc' \in IntPcs /\ UNCHANGED <<fmt, k, pos>>
      /\ ShGetC \/ ShUnget \/ UNCHANGED file \/ (ShLim(0) /\ pc' = "filed")
  BY DEF Sign, AfterSign, LeadingZero, AfterX, FirstDigit, Reject, Rejected,
         XDigits, YDigits, Digit, Overflow, IntDone, IntPcs, args
<1>2. ScanInv /\ Place /\ IntOK /\ PosOK /\ k <= Len(fmt) /\ Started
  BY <1>1 DEF Whole, Place, ScanInv, Control, IntPcs
<1>3. PICK w : w = D.width
  OBVIOUS
<1>4. PICK b : b = D.base
  OBVIOUS
<1>5. PICK f : f = Field(pos, w)
  OBVIOUS
<1>6. D.kind = "int" /\ f # <<>> /\ f[1] \notin Spaces /\ IntAt(f, b, w)
  BY <1>1, <1>2, <1>3, <1>4, <1>5 DEF IntOK
<1>7. w \in Nat /\ b \in Bases
  BY <1>2, <1>3, <1>4, <1>6, Directive
<1>8. IntNow(f, b, w)
  BY <1>1, <1>2, <1>5, <1>6, <1>7 DEF IntNow
<1>9. IntAt(f, b, w)' /\ Field(pos, w)' = f
  <2>1. CASE Sign
    BY <1>8, <2>1, SignOK
  <2>2. CASE AfterSign
    BY <1>8, <2>2, AfterSignOK
  <2>3. CASE LeadingZero
    BY <1>8, <2>3, LeadingZeroOK
  <2>4. CASE AfterX
    BY <1>8, <2>4, AfterXOK
  <2>5. CASE FirstDigit
    BY <1>8, <2>5, FirstDigitOK
  <2>6. CASE Reject \/ Rejected
    BY <1>8, <2>6, RejectOK
  <2>7. CASE XDigits
    BY <1>8, <2>7, XDigitsOK
  <2>8. CASE YDigits
    BY <1>8, <2>8, YDigitsOK
  <2>9. CASE Overflow
    BY <1>8, <2>9, OverflowOK
  <2>10. CASE IntDone
    BY <1>8, <2>10, IntDoneOK
  <2> QED
    BY <2>1, <2>2, <2>3, <2>4, <2>5, <2>6, <2>7, <2>8, <2>9, <2>10
<1>10. D' = D
  BY <1>1 DEF D
<1>11. IntOK'
  <2>1. D'.kind = "int" /\ D'.base = b /\ D'.width = w /\ Field(pos, D.width)' = f
    BY <1>3, <1>4, <1>6, <1>9, <1>10
  <2> QED
    BY <1>6, <1>9, <2>1 DEF IntOK
<1>12. text' = text /\ (CountsFrom' = CountsFrom \/ (pc' = "filed" /\ Count' = 0))
  <2>1. CASE ShGetC \/ ShUnget
    BY <1>2, <2>1, CallKeeps
  <2>2. CASE UNCHANGED file
    BY <2>2, SameFile
  <2>3. CASE ShLim(0) /\ pc' = "filed"
    BY <1>2, <2>3, LimitCount
  <2> QED
    BY <1>1, <2>1, <2>2, <2>3
<1>13. Place'
  BY <1>1, <1>2, <1>12, Inside DEF IntPcs, Heads
<1> QED
  BY <1>11, <1>13

(* ---- fffloatscan ------------------------------------------------------ *)

FloatPcs ==
    {"fsigned", "infinity", "nan", "paren", "nanback", "inparens", "wrong", "rewound", "zero",
     "zeroback", "decfloat", "hexfloat", "zeros", "fraction", "digit", "scanexp", "esigned",
     "expfirst", "exponent", "floated"}

(* What a step of a floating-point conversion leaves alone.                *)
FloatMove ==
    /\ pc \in FloatPcs \cup {"float"} /\ pc # "floated" /\ pc' \in FloatPcs \cup {"float"}
    /\ UNCHANGED <<fmt, k, pos, matches, out>>
    /\ pc' = "float" => FloatSign
    /\ ShGetC \/ ShUnget \/ UNCHANGED file \/ (ShLim(0) /\ pc' = "floated")

LEMMA WordMoves ==
  ASSUME NoPrecision \/ FloatSign \/ AfterFloatSign \/ WordChar \/ Infinite \/ WordEnds
           \/ Paren \/ NanBack \/ InParens \/ FloatReject \/ FloatRejected \/ Zero \/ ZeroBack
  PROVE  FloatMove
<1> USE DEF Within, args, FloatMove, FloatPcs
<1>1. CASE NoPrecision
  BY <1>1 DEF NoPrecision
<1>2. CASE FloatSign
  <2>1. pc = "float" /\ ShGetC /\ UNCHANGED <<fmt, k, pos, matches, out>>
    BY <1>2 DEF FloatSign
  <2>2. pc' \in {"float", "fsigned", "infinity"}
    <3>1. pc' = CASE c' \in Spaces -> "float" [] c' \in {"+", "-"} -> "fsigned" [] OTHER -> "infinity"
      BY <1>2 DEF FloatSign
    <3>2. ~(c' \in Spaces /\ c' \in {"+", "-"})
      BY DEF Spaces
    <3> QED
      BY <3>1, <3>2
  <2> QED
    BY <1>2, <2>1, <2>2
<1>3. CASE AfterFloatSign
  BY <1>3 DEF AfterFloatSign
<1>4. CASE WordChar
  <2>1. pc \in {"infinity", "nan"} /\ pc' = pc /\ UNCHANGED <<fmt, k, pos, matches, out>> /\ (ShGetC \/ UNCHANGED file)
    BY <1>4 DEF WordChar, InWord, Word
  <2> QED
    BY <2>1
<1>5. CASE Infinite
  BY <1>5 DEF Infinite, Gives
<1>6. CASE WordEnds
  BY <1>6 DEF WordEnds, Wrong
<1>7. CASE Paren
  BY <1>7 DEF Paren
<1>8. CASE NanBack
  BY <1>8 DEF NanBack, Gives
<1>9. CASE InParens
  BY <1>9 DEF InParens, Gives, Wrong
<1>10. CASE FloatReject
  BY <1>10 DEF FloatReject
<1>11. CASE FloatRejected
  BY <1>11 DEF FloatRejected
<1>12. CASE Zero
  BY <1>12 DEF Zero
<1>13. CASE ZeroBack
  BY <1>13 DEF ZeroBack
<1> QED
  BY <1>1, <1>2, <1>3, <1>4, <1>5, <1>6, <1>7, <1>8, <1>9, <1>10, <1>11, <1>12, <1>13

LEMMA NumberMoves ==
  ASSUME FirstOfFloat \/ Zeros \/ Fraction \/ Point \/ FloatDigit \/ DigitsEnd
           \/ ExpSign \/ AfterExpSign \/ ExpFirst \/ ExpDigit \/ ExpEnds
  PROVE  FloatMove
<1> USE DEF Within, args, FloatMove, FloatPcs
<1>1. CASE FirstOfFloat
  BY <1>1 DEF FirstOfFloat
<1>2. CASE Zeros
  BY <1>2 DEF Zeros
<1>3. CASE Fraction
  BY <1>3 DEF Fraction
<1>4. CASE Point
  BY <1>4 DEF Point
<1>5. CASE FloatDigit
  BY <1>5 DEF FloatDigit
<1>6. CASE DigitsEnd
  BY <1>6 DEF DigitsEnd, Wrong, Scaled
<1>7. CASE ExpSign
  BY <1>7 DEF ExpSign
<1>8. CASE AfterExpSign
  BY <1>8 DEF AfterExpSign
<1>9. CASE ExpFirst
  BY <1>9 DEF ExpFirst, Wrong
<1>10. CASE ExpDigit
  BY <1>10 DEF ExpDigit
<1>11. CASE ExpEnds
  BY <1>11 DEF ExpEnds, Scaled
<1> QED
  BY <1>1, <1>2, <1>3, <1>4, <1>5, <1>6, <1>7, <1>8, <1>9, <1>10, <1>11

(* No space is left before a number.                                       *)
LEMMA NoSpaceLeft ==
  ASSUME Whole, FloatSign
  PROVE  c' \notin Spaces
<1>1. PICK w : w = D.width
  OBVIOUS
<1>2. /\ ScanInv /\ PosOK /\ k <= Len(fmt) /\ Started /\ Read(w, 0) /\ Landed
      /\ Field(pos, w) # <<>> /\ pos' = pos /\ ShGetC
  BY <1>1 DEF Whole, Place, FloatSign, Within, args, ScanInv, Control, KindOK, Heads
<1>3. w \in Nat
  BY <1>1, <1>2, Directive DEF FloatSign
<1>5. PICK f : f = Field(pos, w)
  OBVIOUS
<1>4. /\ f \in Seq(Char) /\ Len(f) <= Len(text) - pos /\ Len(text) \in Nat /\ pos \in Nat
      /\ \A i \in 1 .. Len(f) : f[i] = text[pos + i]
  BY <1>2, <1>3, <1>5, FieldNow
<1>6. Len(f) \in Nat /\ 1 \in 1 .. Len(f) /\ f[1] = text[pos + 1] /\ pos # Len(text)
  <2>1. f \in Seq(Char) /\ f # <<>>
    BY <1>2, <1>4, <1>5
  <2>2. Len(f) \in Nat /\ 1 \in 1 .. Len(f)
    BY <2>1
  <2> QED
    BY <1>4, <1>5, <2>2
<1>7. Read(w, 1)' /\ Field(pos, w)' = f
  <2>1. 1 = IF 0 <= Len(Field(pos, w)) THEN 0 + 1 ELSE 0
    BY <1>5, <1>6
  <2> QED
    BY <1>2, <1>3, <1>5, <2>1, Got
<1>8. c' = f[1]
  BY <1>6, <1>7 DEF Read
<1> QED
  BY <1>2, <1>6, <1>8 DEF Landed

LEMMA FloatStepsOK ==
  ASSUME Whole, FloatMove
  PROVE  Place' /\ IntOK'
<1>1. /\ pc \in FloatPcs \cup {"float"} /\ pc # "floated" /\ UNCHANGED <<fmt, k, pos>>
      /\ ShGetC \/ ShUnget \/ UNCHANGED file \/ (ShLim(0) /\ pc' = "floated")
  BY DEF FloatMove, FloatPcs
<1>2. pc' \in FloatPcs
  <2>1. pc' = "float" => c' \in Spaces
    <3>1. FloatSign => pc' = CASE c' \in Spaces -> "float" [] c' \in {"+", "-"} -> "fsigned" [] OTHER -> "infinity"
      BY DEF FloatSign
    <3>2. ~(c' \in Spaces /\ c' \in {"+", "-"})
      BY DEF Spaces
    <3> QED
      BY <3>1, <3>2 DEF FloatMove
  <2> QED
    BY <2>1, NoSpaceLeft DEF FloatMove
<1>3. ScanInv /\ Place /\ Started
  BY <1>1 DEF Whole, ScanInv, FloatPcs
<1>4. text' = text /\ (CountsFrom' = CountsFrom \/ (pc' = "floated" /\ Count' = 0))
  <2>1. CASE ShGetC \/ ShUnget
    BY <1>3, <2>1, CallKeeps
  <2>2. CASE UNCHANGED file
    BY <2>2, SameFile
  <2>3. CASE ShLim(0) /\ pc' = "floated"
    BY <1>3, <2>3, LimitCount
  <2> QED
    BY <1>1, <2>1, <2>2, <2>3
<1>5. Place'
  BY <1>1, <1>2, <1>3, <1>4, Inside DEF FloatPcs, Heads
<1> QED
  BY <1>2, <1>5 DEF IntOK, IntPcs, FloatPcs

(* ---- together --------------------------------------------------------- *)

LEMMA WholeInit == FloatInit => Whole
<1> SUFFICES ASSUME FloatInit PROVE Whole
  OBVIOUS
<1>1. ScanInv
  BY ScanInit
<1>2. fmt \in Formats /\ pc = "next" /\ pos = 0 /\ k = 1 /\ Consumed = 0
  BY DEF FloatInit, Init, FileInit, Consumed, NULL
<1>3. Len(fmt) \in Nat /\ Len(text) \in Nat
  BY <1>1, <1>2, FormatsAssumption DEF ScanInv, Typed
<1> QED
  BY <1>1, <1>2, <1>3 DEF Whole, Place, PosOK, KindOK, Heads, IntOK, IntPcs

LEMMA WholeStays == Whole /\ UNCHANGED vars => Place' /\ IntOK'
<1> SUFFICES ASSUME Whole, UNCHANGED vars PROVE Place' /\ IntOK'
  OBVIOUS
<1>1. /\ text' = text /\ rpos' = rpos /\ rend' = rend /\ shlim' = shlim /\ shcnt' = shcnt /\ c' = c
      /\ fmt' = fmt /\ k' = k /\ pc' = pc /\ pos' = pos /\ got' = got /\ base' = base
      /\ neg' = neg /\ num' = num /\ errno' = errno
  BY DEF vars
<1>2. Consumed' = Consumed /\ CountsFrom' = CountsFrom /\ Count' = Count /\ D' = D
  BY <1>1 DEF Consumed, CountsFrom, Count, D
<1>3. /\ PosOK' = PosOK /\ Landed' = Landed /\ \A a, w : Field(a, w)' = Field(a, w)
  BY <1>1 DEF PosOK, Landed, Field
<1>4. /\ \A w, j : Read(w, j)' = Read(w, j)
      /\ \A j : Blank(j)' = Blank(j)
      /\ KindOK' = KindOK
  BY <1>1, <1>2 DEF Read, Blank, KindOK, Field
<1>5. Behind' = Behind /\ Taking' = Taking
  BY <1>1, <1>2, <1>4 DEF Behind, Taking, Field
<1>6. Place'
  BY <1>1, <1>2, <1>3, <1>4, <1>5 DEF Whole, Place, Field
<1>7. IntOK'
  <2>1. \A f, b, w : IntAt(f, b, w)' = IntAt(f, b, w)
    BY <1>1, <1>2, <1>4 DEF IntAt, SoFar
  <2> QED
    BY <1>1, <1>2, <2>1 DEF Whole, IntOK, Field
<1> QED
  BY <1>6, <1>7

LEMMA WholeSteps == Whole /\ [ScanNext]_floatVars => Whole'
<1> SUFFICES ASSUME Whole, [ScanNext]_floatVars PROVE Whole'
  OBVIOUS
<1>1. ScanInv'
  BY StepKeeps DEF Whole
<1>2. CASE Step
  BY <1>1, <1>2, BeginsOK, SkipOK, SkippedOK, CompareOK, WidthOK, ConvertOK, CharsOK, StoreOK,
     IntegerStepsOK DEF Step, Whole
<1>3. CASE FloatStep
  BY <1>1, <1>3, WordMoves, NumberMoves, FloatStepsOK, StoreOK DEF FloatStep, Whole
<1>4. CASE UNCHANGED vars
  BY <1>1, <1>4, WholeStays DEF Whole
<1> QED
  BY <1>2, <1>3, <1>4 DEF ScanNext, ScanStep, Ended, floatVars

(* ---- the meaning of the directives, one after the other --------------- *)

Nothing == [at |-> 0, n |-> 0, out |-> <<>>, on |-> TRUE]

MeaningParts(ds, f, S) ==
    f = [s \in SUBSET S |-> IF s = {} THEN Nothing ELSE Applied(f[s \ {Max(s)}], ds[Max(s)])]

LEMMA MeaningByParts ==
  ASSUME NEW ds
  PROVE  Meaning(ds) = (CHOOSE f : MeaningParts(ds, f, DOMAIN ds))[DOMAIN ds]
BY DEF Meaning, FoldLeft, MapThenFoldSet, MeaningParts, Nothing

LEMMA MeaningByPartsNext ==
  ASSUME NEW ds
  PROVE  Meaning(ds)' = (CHOOSE f : MeaningParts(ds, f, DOMAIN ds)')[DOMAIN ds]
BY DEF Meaning, FoldLeft, MapThenFoldSet, MeaningParts, Nothing

LEMMA MeaningPartsExist ==
  ASSUME NEW ds, NEW n \in Nat
  PROVE  \E f : MeaningParts(ds, f, 1 .. n)
<1> DEFINE T == {i \in Nat : ~ \E f : MeaningParts(ds, f, 1 .. i)}
<1> SUFFICES ASSUME T # {} PROVE FALSE
  OBVIOUS
<1>1. PICK m \in T : \A i \in T : m <= i
  <2> T \subseteq Nat
    OBVIOUS
  <2> HIDE DEF T
  <2> QED
    BY LeastNatural
<1>2. m # 0
  <2> DEFINE g == [s \in SUBSET (1 .. 0) |-> Nothing]
  <2>1. SUBSET (1 .. 0) = {{}}
    OBVIOUS
  <2>2. MeaningParts(ds, g, 1 .. 0)
    BY <2>1 DEF MeaningParts
  <2> QED
    BY <2>2
<1>3. m - 1 \in Nat /\ m - 1 \notin T
  BY <1>1, <1>2
<1>4. PICK f : MeaningParts(ds, f, 1 .. m - 1)
  BY <1>3
<1> DEFINE g == [s \in SUBSET (1 .. m) |->
                   IF m \in s THEN Applied(f[s \ {m}], ds[m]) ELSE f[s]]
<1>5. ASSUME NEW s \in SUBSET (1 .. m)
      PROVE  g[s] = IF s = {} THEN Nothing ELSE Applied(g[s \ {Max(s)}], ds[Max(s)])
  <2>1. CASE m \in s
    <3>1. Max(s) = m
      <4>1. s \subseteq Int /\ m \in s /\ \A i \in s : i <= m
        BY <2>1, <1>1
      <4> HIDE DEF T
      <4> QED
        BY <4>1, GreatestOfSet
    <3>2. s \ {m} \in SUBSET (1 .. m) /\ m \notin s \ {m}
      OBVIOUS
    <3>3. g[s \ {m}] = f[s \ {m}]
      BY <3>2
    <3> QED
      BY <2>1, <3>1, <3>3
  <2>2. CASE m \notin s
    <3>1. s \in SUBSET (1 .. m - 1)
      BY <2>2, <1>3
    <3>2. f[s] = IF s = {} THEN Nothing ELSE Applied(f[s \ {Max(s)}], ds[Max(s)])
      BY <1>4, <3>1 DEF MeaningParts
    <3>3. g[s] = f[s] /\ g[s \ {Max(s)}] = f[s \ {Max(s)}]
      BY <2>2
    <3> HIDE DEF g
    <3> QED
      BY <3>2, <3>3
  <2> QED
    BY <2>1, <2>2
<1>6. MeaningParts(ds, g, 1 .. m)
  <2>1. DOMAIN g = SUBSET (1 .. m) /\ g = [s \in DOMAIN g |-> g[s]]
    OBVIOUS
  <2> HIDE DEF g
  <2> QED
    BY <1>5, <2>1, Zenon DEF MeaningParts
<1> QED
  BY <1>6

LEMMA MeaningPartsAgree ==
  ASSUME NEW ds, NEW es, NEW n \in Nat, NEW l \in Nat, l <= n, NEW f, NEW g,
         MeaningParts(ds, f, 1 .. n), MeaningParts(es, g, 1 .. l),
         \A i \in 1 .. l : es[i] = ds[i]
  PROVE  f[1 .. l] = g[1 .. l]
<1> DEFINE T == {i \in 0 .. l : f[1 .. i] # g[1 .. i]}
<1> SUFFICES ASSUME T # {} PROVE FALSE
  OBVIOUS
<1>1. PICK m \in T : \A i \in T : m <= i
  <2> T \subseteq Nat
    OBVIOUS
  <2> HIDE DEF T
  <2> QED
    BY LeastNatural
<1>2. 1 .. m \in SUBSET (1 .. n) /\ 1 .. m \in SUBSET (1 .. l) /\ m \in 0 .. l
  BY <1>1
<1>3. /\ f[1 .. m] = IF 1 .. m = {} THEN Nothing ELSE Applied(f[(1 .. m) \ {Max(1 .. m)}], ds[Max(1 .. m)])
      /\ g[1 .. m] = IF 1 .. m = {} THEN Nothing ELSE Applied(g[(1 .. m) \ {Max(1 .. m)}], es[Max(1 .. m)])
  BY <1>2, Zenon DEF MeaningParts
<1>4. m # 0
  BY <1>1, <1>3
<1>5. Max(1 .. m) = m /\ (1 .. m) \ {m} = 1 .. m - 1 /\ 1 .. m # {}
  <2>1. m \in Nat \ {0}
    BY <1>2, <1>4
  <2> QED
    BY <2>1, LastOfRange
<1>6. f[1 .. m - 1] = g[1 .. m - 1] /\ es[m] = ds[m]
  BY <1>1, <1>2, <1>4
<1>7. f[1 .. m] = g[1 .. m]
  BY <1>3, <1>5, <1>6
<1> QED
  BY <1>1, <1>7

LEMMA MeaningIs ==
  ASSUME NEW ds, NEW n \in Nat, DOMAIN ds = 1 .. n
  PROVE  \E f : MeaningParts(ds, f, 1 .. n) /\ Meaning(ds) = f[1 .. n]
<1> DEFINE f == CHOOSE h : MeaningParts(ds, h, 1 .. n)
<1>1. MeaningParts(ds, f, 1 .. n)
  <2>1. \E h : MeaningParts(ds, h, 1 .. n)
    BY MeaningPartsExist
  <2> QED
    BY <2>1, Zenon
<1>2. Meaning(ds) = f[1 .. n]
  BY MeaningByParts
<1> HIDE DEF f
<1> QED
  BY <1>1, <1>2

LEMMA MeaningEmpty == Meaning(<<>>) = Nothing
<1>1. DOMAIN <<>> = 1 .. 0
  OBVIOUS
<1>2. PICK f : MeaningParts(<<>>, f, 1 .. 0) /\ Meaning(<<>>) = f[1 .. 0]
  BY <1>1, MeaningIs
<1>3. 1 .. 0 = {} /\ 1 .. 0 \in SUBSET (1 .. 0)
  OBVIOUS
<1>4. f[1 .. 0] = Nothing
  BY <1>2, <1>3 DEF MeaningParts
<1> QED
  BY <1>2, <1>4

LEMMA MeaningStep ==
  ASSUME NEW ds, NEW es, NEW n \in Nat \ {0},
         DOMAIN ds = 1 .. n, DOMAIN es = 1 .. n - 1, \A i \in 1 .. n - 1 : es[i] = ds[i]
  PROVE  Meaning(ds) = Applied(Meaning(es), ds[n])
<1>1. PICK f : MeaningParts(ds, f, 1 .. n) /\ Meaning(ds) = f[1 .. n]
  BY MeaningIs
<1>2. PICK g : MeaningParts(es, g, 1 .. n - 1) /\ Meaning(es) = g[1 .. n - 1]
  <2>1. n - 1 \in Nat
    OBVIOUS
  <2> QED
    BY <2>1, MeaningIs
<1>3. f[1 .. n - 1] = g[1 .. n - 1]
  <2>1. n - 1 \in Nat /\ n - 1 <= n
    OBVIOUS
  <2> QED
    BY <1>1, <1>2, <2>1, MeaningPartsAgree
<1>4. Max(1 .. n) = n /\ (1 .. n) \ {n} = 1 .. n - 1 /\ 1 .. n # {}
  BY LastOfRange
<1>5. f[1 .. n] = IF 1 .. n = {} THEN Nothing ELSE Applied(f[(1 .. n) \ {Max(1 .. n)}], ds[Max(1 .. n)])
  BY <1>1, Zenon DEF MeaningParts
<1> QED
  BY <1>1, <1>2, <1>3, <1>4, <1>5

(* It is the text that it depends on, and nothing else of the state.       *)
LEMMA MeaningSame ==
  ASSUME text' = text, NEW ds, NEW n \in Nat, DOMAIN ds = 1 .. n
  PROVE  Meaning(ds)' = Meaning(ds)
<1>1. ASSUME NEW a, NEW d PROVE Applied(a, d)' = Applied(a, d)
  BY DEF Applied, Matched, Converted, AfterSpaces, Field
<1>2. ASSUME NEW f PROVE MeaningParts(ds, f, 1 .. n)' <=> MeaningParts(ds, f, 1 .. n)
  BY <1>1 DEF MeaningParts, Nothing
<1>3. PICK f : MeaningParts(ds, f, 1 .. n) /\ Meaning(ds) = f[1 .. n]
  BY MeaningIs
<1>4. PICK g : g = CHOOSE h : MeaningParts(ds, h, 1 .. n)'
  OBVIOUS
<1>5. MeaningParts(ds, g, 1 .. n)'
  <2>1. \E h : MeaningParts(ds, h, 1 .. n)'
    BY <1>2, <1>3
  <2> QED
    BY <1>4, <2>1, Zenon
<1>6. Meaning(ds)' = g[1 .. n]
  BY <1>4, MeaningByPartsNext
<1>7. MeaningParts(ds, g, 1 .. n)
  BY <1>2, <1>5
<1>8. f[1 .. n] = g[1 .. n]
  BY <1>3, <1>7, MeaningPartsAgree
<1> QED
  BY <1>3, <1>6, <1>8

(* ---- the meaning of the first directives of the format ---------------- *)

First(n) == SubSeq(fmt, 1, n)

LEMMA FirstIs ==
  ASSUME fmt \in Formats, NEW n \in 0 .. Len(fmt)
  PROVE  DOMAIN First(n) = 1 .. n /\ (\A i \in 1 .. n : First(n)[i] = fmt[i]) /\ Len(fmt) \in Nat
         /\ DOMAIN fmt = 1 .. Len(fmt)
BY FormatsAssumption DEF First

LEMMA FirstMeans ==
  ASSUME fmt \in Formats, NEW n \in 1 .. Len(fmt)
  PROVE  Meaning(First(n)) = Applied(Meaning(First(n - 1)), fmt[n])
<1>1. Len(fmt) \in Nat
  BY FormatsAssumption
<1>2. n \in 0 .. Len(fmt) /\ n - 1 \in 0 .. Len(fmt) /\ n \in Nat \ {0}
  BY <1>1
<1>3. DOMAIN First(n) = 1 .. n /\ \A i \in 1 .. n : First(n)[i] = fmt[i]
  BY <1>2, FirstIs
<1>4. DOMAIN First(n - 1) = 1 .. n - 1 /\ \A i \in 1 .. n - 1 : First(n - 1)[i] = fmt[i]
  BY <1>2, FirstIs
<1>5. \A i \in 1 .. n - 1 : First(n - 1)[i] = First(n)[i]
  BY <1>2, <1>3, <1>4
<1>6. Meaning(First(n)) = Applied(Meaning(First(n - 1)), First(n)[n])
  BY <1>2, <1>3, <1>4, <1>5, MeaningStep
<1> QED
  BY <1>2, <1>3, <1>6

LEMMA FormatIsFirst ==
  ASSUME fmt \in Formats
  PROVE  Meaning(fmt) = Meaning(First(Len(fmt)))
<1>1. Len(fmt) \in Nat /\ DOMAIN fmt = 1 .. Len(fmt) /\ Len(fmt) \in 0 .. Len(fmt)
  BY FormatsAssumption
<1>2. DOMAIN First(Len(fmt)) = 1 .. Len(fmt) /\ \A i \in 1 .. Len(fmt) : First(Len(fmt))[i] = fmt[i]
  BY <1>1, FirstIs
<1>3. PICK f : MeaningParts(fmt, f, 1 .. Len(fmt)) /\ Meaning(fmt) = f[1 .. Len(fmt)]
  BY <1>1, MeaningIs
<1>4. PICK g : MeaningParts(First(Len(fmt)), g, 1 .. Len(fmt)) /\ Meaning(First(Len(fmt))) = g[1 .. Len(fmt)]
  BY <1>1, <1>2, MeaningIs
<1>5. f[1 .. Len(fmt)] = g[1 .. Len(fmt)]
  BY <1>1, <1>2, <1>3, <1>4, MeaningPartsAgree
<1> QED
  BY <1>3, <1>4, <1>5

(* Once it has stopped, a scan changes no more.                            *)
LEMMA Off ==
  ASSUME fmt \in Formats, NEW n \in 0 .. Len(fmt), ~Meaning(First(n)).on
  PROVE  Meaning(fmt) = Meaning(First(n))
<1>1. Len(fmt) \in Nat
  BY FormatsAssumption
<1> DEFINE T == {i \in n .. Len(fmt) : Meaning(First(i)) # Meaning(First(n))}
<1>2. T = {}
  <2> SUFFICES ASSUME T # {} PROVE FALSE
    OBVIOUS
  <2>1. PICK m \in T : \A i \in T : m <= i
    <3> T \subseteq Nat
      BY <1>1
    <3> HIDE DEF T
    <3> QED
      BY LeastNatural
  <2>2. m # n /\ m \in n .. Len(fmt) /\ Meaning(First(m)) # Meaning(First(n))
    BY <2>1
  <2>3. m \in 1 .. Len(fmt) /\ m - 1 \in n .. Len(fmt) /\ m - 1 \notin T
    BY <1>1, <2>1, <2>2
  <2>4. Meaning(First(m - 1)) = Meaning(First(n))
    BY <2>3
  <2>5. Meaning(First(m)) = Applied(Meaning(First(n)), fmt[m])
    BY <2>3, <2>4, FirstMeans
  <2>6. \A a, d : ~a.on => Applied(a, d) = a
    BY DEF Applied
  <2> QED
    BY <2>2, <2>5, <2>6
<1>3. Meaning(First(Len(fmt))) = Meaning(First(n))
  BY <1>1, <1>2
<1> QED
  BY <1>3, FormatIsFirst

(* ---- what has been applied so far ------------------------------------- *)

Standing(at) == [at |-> at, n |-> matches, out |-> out, on |-> TRUE]

(* Where the directive under way has begun.                                *)
Began(at) ==
    /\ at \in 0 .. Len(text)
    /\ Meaning(First(k - 1)) = Standing(at)
    /\ IF pc \in Heads \/ (D.kind = "set" /\ ~D.skip) THEN at = pos ELSE AfterSpaces(at) = pos

Meant ==
    /\ pc # "end" => \E at : Began(at)
    /\ pc = "end" => matches = Meaning(fmt).n /\ out = Meaning(fmt).out

LEMMA AfterSpacesIs ==
  ASSUME Typed, NEW at \in 0 .. Len(text), NEW j \in Nat, at + j <= Len(text),
         \A i \in 1 .. j : text[at + i] \in Spaces,
         at + j = Len(text) \/ text[at + j + 1] \notin Spaces
  PROVE  AfterSpaces(at) = at + j
<1> DEFINE S == {n \in at .. Len(text) : n = Len(text) \/ text[n + 1] \notin Spaces}
<1>1. Len(text) \in Nat
  BY DEF Typed
<1>2. S \subseteq Int /\ at + j \in S
  BY <1>1
<1>3. ASSUME NEW n \in S PROVE at + j <= n
  <2> SUFFICES ASSUME n < at + j PROVE FALSE
    BY <1>1
  <2>1. n + 1 - at \in 1 .. j /\ at + (n + 1 - at) = n + 1 /\ n # Len(text)
    BY <1>1
  <2>2. text[n + 1] \in Spaces
    BY <2>1
  <2> QED
    BY <2>1, <2>2
<1>4. AfterSpaces(at) = Min(S)
  BY DEF AfterSpaces
<1> HIDE DEF S
<1> QED
  BY <1>2, <1>3, <1>4, SmallestOfSet

LEMMA BlankIs ==
  ASSUME ScanInv, PosOK, NEW j \in Nat, Read(0, j + 1), Blank(j), c \notin Spaces
  PROVE  /\ AfterSpaces(pos) = pos + j /\ pos + j <= Len(text)
         /\ c = IF pos + j < Len(text) THEN text[pos + j + 1] ELSE EOF
         /\ c = EOF => pos + j = Len(text)
<1>1. PICK f : f = Field(pos, 0)
  OBVIOUS
<1>2. /\ f \in Seq(Char) /\ Len(f) \in Nat /\ Len(f) = FieldLen(pos, 0)
      /\ Len(text) \in Nat /\ pos \in Nat /\ \A i \in 1 .. Len(f) : f[i] = text[pos + i]
  BY <1>1, FieldNow
<1>3. Len(f) = Len(text) - pos
  BY <1>2 DEF FieldLen
<1>4. /\ j + 1 \in 0 .. Len(f) + 1 /\ c = IF j + 1 <= Len(f) THEN f[j + 1] ELSE EOF
      /\ \A i \in 1 .. j : i <= Len(f) /\ f[i] \in Spaces
  BY <1>1 DEF Read, Blank
<1>5. \A i \in 1 .. j : text[pos + i] \in Spaces
  BY <1>2, <1>4
<1>6. j + 1 <= Len(f) => f[j + 1] = text[pos + j + 1] /\ f[j + 1] # EOF
  <2> SUFFICES ASSUME j + 1 <= Len(f) PROVE f[j + 1] = text[pos + j + 1] /\ f[j + 1] # EOF
    OBVIOUS
  <2>1. j + 1 \in 1 .. Len(f) /\ pos + (j + 1) = pos + j + 1
    BY <1>2, <1>4
  <2>2. f[j + 1] \in Char
    BY <1>2, <2>1
  <2> QED
    BY <1>2, <2>1, <2>2, CharAssumption
<1>7. c = IF pos + j < Len(text) THEN text[pos + j + 1] ELSE EOF
  BY <1>2, <1>3, <1>4, <1>6
<1>8. pos + j <= Len(text) /\ (pos + j = Len(text) \/ text[pos + j + 1] \notin Spaces)
      /\ (c = EOF => pos + j = Len(text))
  BY <1>2, <1>3, <1>4, <1>6
<1>9. AfterSpaces(pos) = pos + j
  <2>1. pos \in 0 .. Len(text) /\ Typed
    BY DEF PosOK, ScanInv
  <2> QED
    BY <2>1, <1>5, <1>8, AfterSpacesIs
<1> QED
  BY <1>7, <1>8, <1>9

(* ---- how a directive is applied --------------------------------------- *)

LEMMA FirstSame ==
  ASSUME ScanInv, text' = text, fmt' = fmt, NEW n \in 0 .. Len(fmt)
  PROVE  Meaning(First(n))' = Meaning(First(n)) /\ Meaning(fmt)' = Meaning(fmt)
<1>1. fmt \in Formats /\ Len(fmt) \in Nat /\ DOMAIN fmt = 1 .. Len(fmt)
  BY FormatsAssumption DEF ScanInv, Control
<1>2. PICK ds : ds = First(n)
  OBVIOUS
<1>3. DOMAIN ds = 1 .. n /\ n \in Nat
  BY <1>1, <1>2, FirstIs
<1>4. Meaning(ds)' = Meaning(ds)
  BY <1>3, MeaningSame
<1>5. First(n)' = ds
  BY <1>2 DEF First
<1>6. Meaning(First(n))' = Meaning(ds)'
  BY <1>5
<1>7. PICK es : es = fmt
  OBVIOUS
<1>8. Meaning(es)' = Meaning(es)
  BY <1>1, <1>7, MeaningSame
<1>9. Meaning(fmt)' = Meaning(es)'
  BY <1>7
<1> QED
  BY <1>2, <1>4, <1>6, <1>7, <1>8, <1>9

(* The directive under way is over.                                        *)
LEMMA MeantNext ==
  ASSUME ScanInv, k <= Len(fmt), NEW at, Meaning(First(k - 1)) = Standing(at),
         text' = text, fmt' = fmt, k' = k + 1, pc' = "next", pos' \in 0 .. Len(text),
         Applied(Standing(at), D) = [at |-> pos', n |-> matches', out |-> out', on |-> TRUE]
  PROVE  Meant'
<1>1. k \in 1 .. Len(fmt) /\ fmt \in Formats /\ k \in 0 .. Len(fmt)
  BY Directive DEF ScanInv, Control
<1>2. Meaning(First(k)) = Applied(Standing(at), D)
  BY <1>1, FirstMeans DEF D
<1>3. Meaning(First(k - 1))' = Meaning(First(k))
  <2>1. PICK n : n = k
    OBVIOUS
  <2>2. Meaning(First(n))' = Meaning(First(n))
    BY <1>1, <2>1, FirstSame
  <2>3. k' - 1 = n
    BY <1>1, <2>1
  <2>4. Meaning(First(k - 1))' = Meaning(First(n))'
    BY <2>3
  <2> QED
    BY <2>1, <2>2, <2>4
<1>4. Began(pos)'
  <2>1. (pc \in Heads)'
    BY DEF Heads
  <2> QED
    BY <1>2, <1>3, <2>1 DEF Began, Standing
<1> QED
  BY <1>4 DEF Meant

(* The scan ends at the directive under way.                               *)
LEMMA MeantEnd ==
  ASSUME ScanInv, k <= Len(fmt), NEW at, Meaning(First(k - 1)) = Standing(at),
         text' = text, fmt' = fmt, pc' = "end", NEW r,
         Applied(Standing(at), D) = r, ~r.on, r.n = matches', r.out = out'
  PROVE  Meant'
<1>1. k \in 1 .. Len(fmt) /\ fmt \in Formats /\ k \in 0 .. Len(fmt)
  BY Directive DEF ScanInv, Control
<1>2. Meaning(First(k)) = r
  BY <1>1, FirstMeans DEF D
<1>3. Meaning(fmt) = r
  BY <1>1, <1>2, Off
<1>4. Meaning(fmt)' = r
  BY <1>1, <1>3, FirstSame
<1> QED
  BY <1>4 DEF Meant

LEMMA MeantKeeps ==
  ASSUME ScanInv, Place, Meant, pc # "end", pc' # "end", UNCHANGED <<fmt, k, pos, matches, out, text>>,
         (pc \in Heads) <=> (pc' \in Heads)
  PROVE  Meant'
<1>1. PICK at : Began(at)
  BY DEF Meant
<1>2. AfterSpaces(at)' = AfterSpaces(at) /\ D' = D
  BY DEF AfterSpaces, D
<1>3. PICK n : n = k - 1
  OBVIOUS
<1>4. n \in 0 .. Len(fmt)
  BY <1>3, FormatsAssumption DEF Place, ScanInv, Control
<1>5. Meaning(First(n))' = Meaning(First(n))
  BY <1>4, FirstSame
<1>6. Meaning(First(k - 1))' = Meaning(First(n))'
  BY <1>3
<1>7. Began(at)'
  BY <1>1, <1>2, <1>3, <1>5, <1>6 DEF Began, Standing
<1> QED
  BY <1>7 DEF Meant

(* Behind white space a conversion begins where the scan stands.           *)
LEMMA ConvertsHere ==
  ASSUME Whole, Meant, pc \notin Heads
  PROVE  \E at : /\ Began(at)
                 /\ Applied(Standing(at), D) = Converted(Standing(at), D, pos)
<1>1. PICK at : Began(at)
  BY DEF Meant, Heads
<1>2. D.kind \in Conversions
  BY DEF Whole, Place, KindOK
<1>3. Standing(at).on = TRUE /\ Standing(at).at = at
  BY DEF Standing
<1>4. Applied(Standing(at), D)
        = Converted(Standing(at), D, IF D.kind = "set" /\ ~D.skip THEN at ELSE AfterSpaces(at))
  BY <1>2, <1>3 DEF Applied, Conversions
<1>5. (IF D.kind = "set" /\ ~D.skip THEN at ELSE AfterSpaces(at)) = pos
  BY <1>1 DEF Began
<1> QED
  BY <1>1, <1>4, <1>5

LEMMA MatchesFailed ==
  ASSUME NEW at, NEW r, r = Failed(Standing(at))
  PROVE  ~r.on /\ r.n = (IF matches = 0 THEN -1 ELSE matches) /\ r.out = out
BY DEF Failed, Standing

LEMMA MatchesStopped ==
  ASSUME NEW at, NEW r, r = Stopped(Standing(at))
  PROVE  ~r.on /\ r.n = matches /\ r.out = out
BY DEF Stopped, Standing

LEMMA OutChanged ==
  ASSUME NEW at, NEW n, NEW o, NEW x, NEW a, a = [at |-> at, n |-> n, out |-> o, on |-> TRUE]
  PROVE  [a EXCEPT !.out = x] = [at |-> at, n |-> n, out |-> x, on |-> TRUE]
<1> DEFINE r == [a EXCEPT !.out = x]
<1>1. DOMAIN a = {"at", "n", "out", "on"} /\ a.at = at /\ a.n = n /\ a.on = TRUE
  OBVIOUS
<1>2. DOMAIN r = {"at", "n", "out", "on"} /\ r = [i \in DOMAIN r |-> r[i]]
  BY <1>1
<1>3. r["at"] = at /\ r["n"] = n /\ r["out"] = x /\ r["on"] = TRUE
  BY <1>1
<1> HIDE DEF r
<1>4. r = [at |-> at, n |-> n, out |-> x, on |-> TRUE]
  BY <1>2, <1>3
<1> QED
  BY <1>4 DEF r

LEMMA StoredIs ==
  ASSUME NEW at, NEW d, NEW v
  PROVE  Stored(Standing(at), d, v)
           = [at |-> at, n |-> matches, out |-> IF HasObject(d) THEN Append(out, v) ELSE out, on |-> TRUE]
<1>1. PICK x : x = IF HasObject(d) THEN Append(out, v) ELSE out
  OBVIOUS
<1>2. PICK a : a = Standing(at)
  OBVIOUS
<1>3. a.out = out /\ a = [at |-> at, n |-> matches, out |-> out, on |-> TRUE]
  BY <1>2 DEF Standing
<1>4. Stored(a, d, v) = [a EXCEPT !.out = x]
  BY <1>1, <1>3, Zenon DEF Stored
<1>5. [a EXCEPT !.out = x] = [at |-> at, n |-> matches, out |-> x, on |-> TRUE]
  BY <1>3, OutChanged
<1> QED
  BY <1>1, <1>2, <1>4, <1>5

LEMMA CountedIs ==
  ASSUME NEW at, NEW d, NEW v, NEW to
  PROVE  /\ Counted(Standing(at), d, to)
               = [at |-> to, n |-> IF d.dest THEN matches + 1 ELSE matches, out |-> out, on |-> TRUE]
         /\ Counted(Stored(Standing(at), d, v), d, to)
               = [at |-> to, n |-> IF d.dest THEN matches + 1 ELSE matches,
                  out |-> IF HasObject(d) THEN Append(out, v) ELSE out, on |-> TRUE]
<1>1. PICK x : x = IF HasObject(d) THEN Append(out, v) ELSE out
  OBVIOUS
<1>2. PICK m : m = IF d.dest THEN matches + 1 ELSE matches
  OBVIOUS
<1>3. ASSUME NEW a, NEW o, a = [at |-> at, n |-> matches, out |-> o, on |-> TRUE]
      PROVE  Counted(a, d, to) = [at |-> to, n |-> m, out |-> o, on |-> TRUE]
  <2>1. a.n = matches
    BY <1>3
  <2>2. Counted(a, d, to) = [a EXCEPT !.at = to, !.n = m]
    BY <1>2, <2>1, Zenon DEF Counted
  <2> DEFINE r == [a EXCEPT !.at = to, !.n = m]
  <2>3. DOMAIN a = {"at", "n", "out", "on"} /\ a.out = o /\ a.on = TRUE
    BY <1>3
  <2>4. DOMAIN r = {"at", "n", "out", "on"} /\ r = [i \in DOMAIN r |-> r[i]]
    BY <2>3
  <2>5. r["at"] = to /\ r["n"] = m /\ r["out"] = o /\ r["on"] = TRUE
    BY <2>3
  <2>6. Counted(a, d, to) = r
    BY <2>2
  <2> HIDE DEF r
  <2>7. r = [at |-> to, n |-> m, out |-> o, on |-> TRUE]
    BY <2>4, <2>5
  <2> QED
    BY <2>6, <2>7
<1>4. Stored(Standing(at), d, v) = [at |-> at, n |-> matches, out |-> x, on |-> TRUE]
  BY <1>1, StoredIs
<1>5. Counted(Stored(Standing(at), d, v), d, to) = [at |-> to, n |-> m, out |-> x, on |-> TRUE]
  BY <1>3, <1>4
<1>6. Counted(Standing(at), d, to) = [at |-> to, n |-> m, out |-> out, on |-> TRUE]
  BY <1>3 DEF Standing
<1> QED
  BY <1>1, <1>2, <1>5, <1>6

LEMMA MeantBegins ==
  ASSUME Whole, Meant, Begin \/ NoSkip \/ ReadSoFar \/ BadConversion \/ Finish
  PROVE  Meant'
<1>1. ScanInv /\ Place /\ PosOK /\ pc = "next"
  BY DEF Whole, Place, Begin, NoSkip, ReadSoFar, BadConversion, Finish
<1>2. PICK at : Began(at)
  BY <1>1 DEF Meant
<1>3. at = pos /\ Meaning(First(k - 1)) = Standing(pos) /\ pos \in 0 .. Len(text)
  BY <1>1, <1>2 DEF Began, Heads
<1>4. Standing(pos).on = TRUE /\ Standing(pos).at = pos
  BY DEF Standing
<1>5. CASE Begin
  <2>1. UNCHANGED <<fmt, k, pos, matches, out>> /\ pc' \in {"char", "skip"} /\ text' = text
    BY <1>5 DEF Begin, args, ShLim
  <2> QED
    BY <1>1, <2>1, MeantKeeps DEF Heads
<1>6. CASE NoSkip
  <2>1. UNCHANGED <<fmt, k, pos, matches, out>> /\ pc' = "width" /\ text' = text /\ D.kind = "set" /\ ~D.skip
    BY <1>6 DEF NoSkip, args, file
  <2>2. PICK n : n = k - 1
    OBVIOUS
  <2>3. n \in 0 .. Len(fmt)
    BY <1>1, <2>2, FormatsAssumption DEF Place, ScanInv, Control
  <2>4. Meaning(First(n))' = Meaning(First(n))
    BY <1>1, <2>1, <2>3, FirstSame
  <2>5. Meaning(First(k - 1))' = Meaning(First(n))'
    BY <2>1, <2>2
  <2>6. D' = D
    BY <2>1 DEF D
  <2>7. Began(pos)'
    BY <1>3, <2>1, <2>2, <2>4, <2>5, <2>6 DEF Began, Standing
  <2> QED
    BY <2>1, <2>7 DEF Meant
<1>7. CASE ReadSoFar
  <2>1. /\ k <= Len(fmt) /\ UNCHANGED <<fmt, pos, matches>> /\ k' = k + 1 /\ pc' = "next" /\ text' = text
        /\ out' = (IF HasObject(D) THEN Append(out, Narrow(pos, D.size)) ELSE out) /\ D.kind = "n"
    BY <1>1, <1>7 DEF ReadSoFar, file
  <2>2. Applied(Standing(pos), D) = Stored(Standing(pos), D, Narrow(pos, D.size))
    BY <1>4, <2>1 DEF Applied
  <2>3. Stored(Standing(pos), D, Narrow(pos, D.size)) = [at |-> pos', n |-> matches', out |-> out', on |-> TRUE]
    <3> DEFINE v == Narrow(pos, D.size)
    <3>1. out' = (IF HasObject(D) THEN Append(out, v) ELSE out) /\ matches' = matches /\ pos' = pos
      BY <2>1
    <3> HIDE DEF v
    <3>2. Stored(Standing(pos), D, v) = [at |-> pos', n |-> matches', out |-> out', on |-> TRUE]
      BY <3>1, StoredIs
    <3> QED
      BY <3>2 DEF v
  <2> QED
    BY <1>1, <1>3, <2>1, <2>2, <2>3, MeantNext
<1>8. CASE BadConversion
  <2>1. /\ k <= Len(fmt) /\ fmt' = fmt /\ text' = text /\ pc' = "end" /\ D.kind = "bad"
        /\ matches' = (IF matches = 0 THEN -1 ELSE matches) /\ out' = out
    BY <1>8 DEF BadConversion, Fail, file
  <2>2. Applied(Standing(pos), D) = Failed(Standing(pos))
    BY <1>4, <2>1 DEF Applied
  <2> QED
    BY <1>1, <1>3, <2>1, <2>2, MatchesFailed, MeantEnd
<1>9. CASE Finish
  <2>1. k > Len(fmt) /\ fmt' = fmt /\ text' = text /\ pc' = "end" /\ matches' = matches /\ out' = out
    BY <1>9 DEF Finish, MatchFail, args, file
  <2>2. fmt \in Formats /\ Len(fmt) \in Nat /\ k - 1 = Len(fmt)
    BY <1>1, <2>1, FormatsAssumption DEF Place, ScanInv, Control
  <2>3. Meaning(fmt) = Standing(pos)
    BY <1>3, <2>2, FormatIsFirst
  <2>4. Meaning(fmt)' = Meaning(fmt)
    <3>1. 0 \in 0 .. Len(fmt)
      BY <2>2
    <3> QED
      BY <1>1, <2>1, <3>1, FirstSame
  <2> QED
    BY <2>1, <2>3, <2>4 DEF Meant, Standing
<1> QED
  BY <1>5, <1>6, <1>7, <1>8, <1>9

LEMMA MeantSkips ==
  ASSUME Whole, Meant, Skip \/ Skipped \/ OneChar
  PROVE  Meant'
<1>1. ScanInv /\ Place /\ PosOK /\ Started /\ k <= Len(fmt) /\ KindOK
  BY DEF Whole, Place, Skip, Skipped, OneChar, ScanInv, Control
<1>2. PICK at : Began(at)
  BY DEF Meant, Skip, Skipped, OneChar
<1>3. at = pos /\ Meaning(First(k - 1)) = Standing(pos) /\ pos \in 0 .. Len(text)
  BY <1>2 DEF Began, Heads, Skip, Skipped, OneChar
<1>4. CASE Skip \/ OneChar
  <2>1. UNCHANGED <<fmt, k, pos, matches, out>> /\ pc \in Heads \ {"end"} /\ pc' \in Heads \ {"end"} /\ ShGetC
    BY <1>4 DEF Skip, OneChar, args, Heads
  <2>2. text' = text
    BY <1>1, <2>1, CallKeeps
  <2> QED
    BY <1>1, <2>1, <2>2, MeantKeeps
<1>5. CASE Skipped
  <2>1. PICK j \in Nat : Read(0, j + 1) /\ Blank(j) /\ c \notin Spaces
    BY <1>1, <1>5 DEF Place, Behind, Skipped
  <2>2. AfterSpaces(pos) = pos + j /\ pos + j <= Len(text)
    BY <1>1, <2>1, BlankIs
  <2>3. /\ ShUnget /\ UNCHANGED <<fmt, matches, out>>
        /\ IF D.kind = "space" THEN Advance(Count')
                               ELSE pos' = pos + Count' /\ pc' = "width" /\ k' = k
    BY <1>5 DEF Skipped
  <2>4. Count' = j /\ text' = text
    <3>1. j + 1 # 0 /\ (j + 1) - 1 = j
      BY <2>1
    <3> QED
      BY <1>1, <2>1, <2>3, <3>1, Given
  <2>5. CASE D.kind = "space"
    <3>1. pos' = pos + j /\ k' = k + 1 /\ pc' = "next"
      BY <2>3, <2>4, <2>5 DEF Advance
    <3>2. Applied(Standing(pos), D) = [Standing(pos) EXCEPT !.at = AfterSpaces(pos)]
      BY <2>5 DEF Applied, Standing
    <3>3. Applied(Standing(pos), D) = [at |-> pos', n |-> matches', out |-> out', on |-> TRUE]
      BY <2>2, <2>3, <3>1, <3>2 DEF Standing
    <3>4. pos' \in 0 .. Len(text)
      BY <1>1, <2>1, <2>2, <3>1 DEF PosOK
    <3> QED
      BY <1>1, <1>3, <2>3, <2>4, <3>1, <3>3, <3>4, MeantNext
  <2>6. CASE D.kind # "space"
    <3>1. pos' = pos + j /\ k' = k /\ pc' = "width"
      BY <2>3, <2>4, <2>6
    <3>2. D' = D /\ AfterSpaces(at)' = AfterSpaces(at) /\ (D.kind = "set" => D.skip)
      BY <1>1, <1>5, <2>3, <2>4, <3>1 DEF D, AfterSpaces, KindOK, Skipped
    <3>3. PICK n : n = k - 1
      OBVIOUS
    <3>4. n \in 0 .. Len(fmt)
      BY <1>1, <3>3, FormatsAssumption DEF Place, ScanInv, Control
    <3>5. Meaning(First(n))' = Meaning(First(n))
      BY <1>1, <2>3, <2>4, <3>4, FirstSame
    <3>6. Meaning(First(k - 1))' = Meaning(First(n))'
      BY <3>1, <3>3
    <3>7. Began(at)'
      BY <1>3, <2>2, <2>3, <2>4, <3>1, <3>2, <3>3, <3>5, <3>6 DEF Began, Standing, Heads
    <3> QED
      BY <3>1, <3>7 DEF Meant
  <2> QED
    BY <2>5, <2>6
<1> QED
  BY <1>4, <1>5

LEMMA MeantCompares ==
  ASSUME Whole, Meant, Compare
  PROVE  Meant'
<1>1. /\ ScanInv /\ Place /\ PosOK /\ Started /\ k <= Len(fmt) /\ KindOK
      /\ pc = "compare" /\ D.kind \in {"literal", "percent"}
  BY DEF Whole, Place, Compare, ScanInv, Control, KindOK
<1>2. PICK at : Began(at)
  BY <1>1 DEF Meant
<1>3. at = pos /\ Meaning(First(k - 1)) = Standing(pos) /\ pos \in 0 .. Len(text)
  BY <1>1, <1>2 DEF Began, Heads
<1>4. D.ch # EOF /\ Len(text) \in Nat
  BY <1>1, Directive DEF ScanInv, Typed
<1>5. PICK here : here = IF D.kind = "percent" THEN AfterSpaces(pos) ELSE pos
  OBVIOUS
<1>6. Applied(Standing(pos), D) = Matched(Standing(pos), D, here)
  BY <1>1, <1>5 DEF Applied, Standing
<1>7. /\ here \in 0 .. Len(text) /\ CountsFrom = pos
      /\ c = IF here < Len(text) THEN text[here + 1] ELSE EOF
      /\ here < Len(text) => c # EOF /\ Consumed = here + 1
  <2>1. CASE D.kind = "percent"
    <3>1. PICK j \in Nat : Read(0, j + 1) /\ Blank(j) /\ c \notin Spaces
      BY <1>1, <2>1 DEF Place, Behind
    <3>2. /\ AfterSpaces(pos) = pos + j /\ pos + j <= Len(text)
          /\ c = IF pos + j < Len(text) THEN text[pos + j + 1] ELSE EOF
          /\ c = EOF => pos + j = Len(text)
      BY <1>1, <3>1, BlankIs
    <3>3. PICK f : f = Field(pos, 0)
      OBVIOUS
    <3>4. Len(f) \in Nat /\ Len(f) = FieldLen(pos, 0) /\ pos \in Nat
      BY <1>1, <3>3, FieldNow
    <3>5. Len(f) = Len(text) - pos
      BY <3>4 DEF FieldLen
    <3>6. CountsFrom = pos /\ Consumed = pos + IF j + 1 <= Len(f) THEN j + 1 ELSE Len(f)
      BY <3>1, <3>3 DEF Read
    <3>7. pos + j < Len(text) => Consumed = (pos + j) + 1
      BY <1>4, <3>1, <3>4, <3>5, <3>6
    <3> QED
      BY <1>4, <1>5, <2>1, <3>1, <3>2, <3>4, <3>6, <3>7
  <2>2. CASE D.kind # "percent"
    <3>1. Read(0, 1)
      BY <1>1, <2>2 DEF Place
    <3>2. PICK f : f = Field(pos, 0)
      OBVIOUS
    <3>3. /\ Len(f) \in Nat /\ Len(f) = FieldLen(pos, 0) /\ pos \in Nat /\ f \in Seq(Char)
          /\ \A i \in 1 .. Len(f) : f[i] = text[pos + i]
      BY <1>1, <3>2, FieldNow
    <3>4. Len(f) = Len(text) - pos
      BY <3>3 DEF FieldLen
    <3>5. /\ CountsFrom = pos /\ Consumed = pos + IF 1 <= Len(f) THEN 1 ELSE Len(f)
          /\ c = IF 1 <= Len(f) THEN f[1] ELSE EOF
      BY <3>1, <3>2 DEF Read
    <3>6. 1 <= Len(f) => f[1] = text[pos + 1] /\ f[1] # EOF
      BY <3>3, CharAssumption
    <3> QED
      BY <1>3, <1>4, <1>5, <2>2, <3>3, <3>4, <3>5, <3>6
  <2> QED
    BY <2>1, <2>2
<1>8. CASE c = D.ch
  <2>1. /\ pos' = pos + Count /\ k' = k + 1 /\ pc' = "next" /\ UNCHANGED <<file, fmt, matches, out>>
    BY <1>8 DEF Compare, Advance
  <2>2. here < Len(text) /\ text[here + 1] = D.ch
    BY <1>4, <1>7, <1>8
  <2>3. pos' = here + 1 /\ pos' \in 0 .. Len(text)
    BY <1>1, <1>4, <1>7, <2>1, <2>2, CountedInText
  <2>4. Matched(Standing(pos), D, here) = [Standing(pos) EXCEPT !.at = here + 1]
    BY <1>4, <1>7, <2>2 DEF Matched
  <2>5. Applied(Standing(pos), D) = [at |-> pos', n |-> matches', out |-> out', on |-> TRUE]
    BY <1>6, <2>1, <2>3, <2>4 DEF Standing
  <2> QED
    BY <1>1, <1>3, <2>1, <2>3, <2>5, SameFile, MeantNext
<1>9. CASE c # D.ch
  <2>1. ShUnget /\ fmt' = fmt /\ pc' = "end" /\ out' = out
        /\ matches' = IF c = EOF /\ matches = 0 THEN -1 ELSE matches
    BY <1>9 DEF Compare, Fail, MatchFail, args
  <2>2. text' = text
    BY <1>1, <2>1, CallKeeps
  <2>3. CASE c = EOF
    <3>1. Matched(Standing(pos), D, here) = Failed(Standing(pos))
      <4>1. here = Len(text)
        BY <1>4, <1>7, <2>3
      <4> QED
        BY <1>4, <4>1 DEF Matched
    <3> QED
      BY <1>1, <1>3, <1>6, <2>1, <2>2, <2>3, <3>1, MatchesFailed, MeantEnd
  <2>4. CASE c # EOF
    <3>1. Matched(Standing(pos), D, here) = Stopped(Standing(pos))
      <4>1. here < Len(text) /\ here # Len(text) /\ text[here + 1] # D.ch
        BY <1>4, <1>7, <1>9, <2>4
      <4> QED
        BY <4>1 DEF Matched
    <3> QED
      BY <1>1, <1>3, <1>6, <2>1, <2>2, <2>4, <3>1, MatchesStopped, MeantEnd
  <2> QED
    BY <2>3, <2>4
<1> QED
  BY <1>8, <1>9

(* ---- conversions ------------------------------------------------------- *)

LEMMA ConversionFacts ==
  ASSUME Whole, pc \notin Heads
  PROVE  /\ ScanInv /\ Place /\ PosOK /\ KindOK /\ k <= Len(fmt) /\ D.kind \in Conversions
         /\ D.width \in Nat
         /\ pc # "width" => Started
BY Directive DEF Whole, Place, ScanInv, Control, KindOK, Heads

(* A conversion ends the scan, or it is over.                              *)
LEMMA ConversionEnds ==
  ASSUME Whole, Meant, pc \notin Heads, text' = text, fmt' = fmt, pc' = "end", out' = out,
         NEW n, n = matches',
         \A at : LET r == Converted(Standing(at), D, pos)
                 IN ~r.on /\ r.n = n /\ r.out = out
  PROVE  Meant'
<1>1. PICK at : Began(at) /\ Applied(Standing(at), D) = Converted(Standing(at), D, pos)
  BY ConvertsHere
<1>2. PICK r : r = Converted(Standing(at), D, pos)
  OBVIOUS
<1>3. Meaning(First(k - 1)) = Standing(at)
  BY <1>1 DEF Began
<1> QED
  BY <1>1, <1>2, <1>3, ConversionFacts, MeantEnd

LEMMA ConversionOver ==
  ASSUME Whole, Meant, pc \notin Heads, text' = text, fmt' = fmt, pc' = "next", k' = k + 1,
         pos' \in 0 .. Len(text), NEW p, p = pos', NEW n, n = matches', NEW o, o = out',
         \A at : Converted(Standing(at), D, pos) = [at |-> p, n |-> n, out |-> o, on |-> TRUE]
  PROVE  Meant'
<1>1. PICK at : Began(at) /\ Applied(Standing(at), D) = Converted(Standing(at), D, pos)
  BY ConvertsHere
<1>2. Meaning(First(k - 1)) = Standing(at)
  BY <1>1 DEF Began
<1>3. Applied(Standing(at), D) = [at |-> pos', n |-> matches', out |-> out', on |-> TRUE]
  BY <1>1
<1> QED
  BY <1>1, <1>2, <1>3, ConversionFacts, MeantNext

(* How much of a field a set takes.                                        *)
TakenLen(d, s) == LongestPrefix(s, LAMBDA q : \A i \in DOMAIN q : InSet(d, q[i]))

LEMMA ConvertedIs ==
  ASSUME NEW a, NEW s, s = Field(pos, D.width)
  PROVE  /\ s = <<>> => Converted(a, D, pos) = Failed(a)
         /\ s # <<>> /\ D.kind = "other" => Converted(a, D, pos) = Counted(a, D, pos)
         /\ s # <<>> /\ D.kind = "set" /\ ~D.closed => Converted(a, D, pos) = Failed(a)
         /\ \A n : n = TakenLen(D, s)
                   /\ s # <<>> /\ D.kind = "set" /\ D.closed =>
              Converted(a, D, pos) = IF n = 0 \/ (D.exact /\ n # D.width) THEN Stopped(a)
                                     ELSE Counted(Stored(a, D, SubSeq(s, 1, n)), D, pos + n)
         /\ \A item : item = Item(s, D.base) /\ s # <<>> /\ D.kind = "int" =>
              Converted(a, D, pos) = IF ~IsNumeral(item, D.base) THEN Stopped(a)
                                     ELSE Counted(Stored(a, D, Narrow(IntValue(item, D.base), D.size)),
                                                  D, pos + Len(item))
         /\ \A item : item = FloatItem(s) /\ s # <<>> /\ D.kind = "float" =>
              Converted(a, D, pos) = IF D.size \notin Precisions \/ ~IsFloat(item) THEN Stopped(a)
                                     ELSE Counted(Stored(a, D, FloatValue(item, D.size)), D, pos + Len(item))
BY DEF Converted, TakenLen

LEMMA MeantLooks ==
  ASSUME Whole, Meant, Width \/ Peek
  PROVE  Meant'
<1>1. pc \notin Heads /\ D.width \in Nat
  <2>1. pc \notin Heads
    BY DEF Width, Peek, Heads
  <2> QED
    BY <2>1, ConversionFacts
<1>2. ScanInv /\ Place /\ PosOK /\ (pc # "width" => Started)
  BY <1>1, ConversionFacts
<1>3. CASE Width
  <2>1. UNCHANGED <<fmt, k, pos, matches, out>> /\ pc' = "peek" /\ ShLim(D.width)
    BY <1>3 DEF Width, args
  <2>2. text' = text
    BY <1>1, <1>2, <2>1, LimitCount
  <2> QED
    BY <1>1, <1>2, <2>1, <2>2, MeantKeeps DEF Heads
<1>4. CASE Peek
  <2>1. ShGetC /\ fmt' = fmt /\ k' = k /\ pos' = pos /\ out' = out /\ pc = "peek"
        /\ IF c' = EOF THEN pc' = "end" /\ matches' = IF matches = 0 THEN -1 ELSE matches
                      ELSE pc' = "convert" /\ matches' = matches
    BY <1>4 DEF Peek, Fail, args
  <2>2. text' = text
    BY <1>2, <2>1, CallKeeps
  <2>3. CASE c' # EOF
    BY <1>1, <1>2, <2>1, <2>2, <2>3, MeantKeeps DEF Heads
  <2>4. CASE c' = EOF
    <3>1. PICK w : w = D.width
      OBVIOUS
    <3>2. PICK f : f = Field(pos, w)
      OBVIOUS
    <3>3. f \in Seq(Char) /\ Len(f) \in Nat
      BY <1>1, <1>2, <3>1, <3>2, FieldNow
    <3>4. Read(w, 1)' /\ Field(pos, w)' = f
      <4>1. 1 = IF 0 <= Len(Field(pos, w)) THEN 0 + 1 ELSE 0
        BY <3>2, <3>3
      <4>2. Read(w, 0) /\ w \in Nat
        BY <1>1, <1>2, <2>1, <3>1 DEF Place
      <4> QED
        BY <1>2, <2>1, <3>2, <4>1, <4>2, Got
    <3>5. c' = IF 1 <= Len(f) THEN f[1] ELSE EOF
      BY <3>4 DEF Read
    <3>6. f = <<>>
      <4>1. ~(1 <= Len(f))
        <5> SUFFICES ASSUME 1 <= Len(f) PROVE FALSE
          OBVIOUS
        <5>1. f[1] \in Char
          BY <3>3
        <5> QED
          BY <2>4, <3>5, <5>1, CharAssumption
      <4> QED
        BY <3>3, <4>1
    <3>7. ASSUME NEW at
          PROVE  Converted(Standing(at), D, pos) = Failed(Standing(at))
      BY <3>1, <3>2, <3>6, ConvertedIs
    <3>8. PICK n : n = matches'
      OBVIOUS
    <3>9. ASSUME NEW at
          PROVE  LET r == Converted(Standing(at), D, pos)
                 IN ~r.on /\ r.n = n /\ r.out = out
      BY <2>1, <2>4, <3>7, <3>8, MatchesFailed
    <3> QED
      BY <1>1, <2>1, <2>2, <2>4, <3>8, <3>9, ConversionEnds
  <2> QED
    BY <2>3, <2>4
<1> QED
  BY <1>3, <1>4

LEMMA MeantConverts ==
  ASSUME Whole, Meant, Convert
  PROVE  Meant'
<1>1. pc \notin Heads /\ pc = "convert"
  BY DEF Convert, Heads
<1>2. /\ ScanInv /\ Place /\ PosOK /\ Started /\ D.kind \in Conversions /\ Field(pos, D.width) # <<>>
  BY <1>1, ConversionFacts DEF Place
<1>3. ShUnget /\ fmt' = fmt /\ k' = k /\ pos' = pos /\ out' = out
      /\ IF D.kind = "set" /\ ~D.closed
         THEN pc' = "end" /\ matches' = IF matches = 0 THEN -1 ELSE matches
         ELSE pc' = D.kind /\ matches' = matches
  BY DEF Convert, Fail, args
<1>4. text' = text
  BY <1>2, <1>3, CallKeeps
<1>5. CASE D.kind = "set" /\ ~D.closed
  <2>1. PICK n : n = matches'
    OBVIOUS
  <2>2. ASSUME NEW at
        PROVE  LET r == Converted(Standing(at), D, pos)
               IN ~r.on /\ r.n = n /\ r.out = out
    <3>1. Converted(Standing(at), D, pos) = Failed(Standing(at))
      BY <1>2, <1>5, ConvertedIs
    <3> QED
      BY <1>3, <1>5, <2>1, <3>1, MatchesFailed
  <2> QED
    BY <1>1, <1>3, <1>4, <1>5, <2>1, <2>2, ConversionEnds
<1>6. CASE ~(D.kind = "set" /\ ~D.closed)
  <2>1. pc' \in Conversions /\ matches' = matches
    BY <1>2, <1>3, <1>6
  <2> QED
    BY <1>1, <1>2, <1>3, <1>4, <2>1, MeantKeeps DEF Heads, Conversions
<1> QED
  BY <1>5, <1>6

LEMMA MeantTakes ==
  ASSUME Whole, Meant, Chars
  PROVE  Meant'
<1>1. pc \notin Heads /\ pc = "set" /\ UNCHANGED <<fmt, k, pos, matches, out>> /\ ShGetC
      /\ pc' \in {"set", "taken"}
  BY DEF Chars, Heads, args
<1>2. ScanInv /\ Place /\ Started
  BY <1>1, ConversionFacts
<1>3. text' = text
  BY <1>1, <1>2, CallKeeps
<1> QED
  BY <1>1, <1>2, <1>3, MeantKeeps DEF Heads

LEMMA TakenIs ==
  ASSUME NEW f \in Seq(Char), NEW d, NEW j \in 0 .. Len(f), \A i \in 1 .. j : InSet(d, f[i]),
         j < Len(f) => ~InSet(d, f[j + 1])
  PROVE  TakenLen(d, f) = j
<1> DEFINE S == {n \in 0 .. Len(f) : \A i \in DOMAIN SubSeq(f, 1, n) : InSet(d, SubSeq(f, 1, n)[i])}
<1>1. Len(f) \in Nat
  OBVIOUS
<1>2. ASSUME NEW n \in 0 .. Len(f)
      PROVE  (\A i \in DOMAIN SubSeq(f, 1, n) : InSet(d, SubSeq(f, 1, n)[i]))
               <=> \A i \in 1 .. n : InSet(d, f[i])
  <2>1. DOMAIN SubSeq(f, 1, n) = 1 .. n /\ \A i \in 1 .. n : SubSeq(f, 1, n)[i] = f[i]
    BY PieceIs
  <2> QED
    BY <2>1
<1>3. S = {n \in 0 .. Len(f) : \A i \in 1 .. n : InSet(d, f[i])}
  BY <1>2
<1>4. TakenLen(d, f) = Max(S)
  BY DEF LongestPrefix, TakenLen
<1> HIDE DEF S
<1>5. S \subseteq Int /\ j \in S
  BY <1>1, <1>3
<1>6. ASSUME NEW n \in S PROVE n <= j
  <2> SUFFICES ASSUME n > j PROVE FALSE
    BY <1>1, <1>3
  <2>1. n \in 0 .. Len(f) /\ j < Len(f) /\ j + 1 \in 1 .. n
    BY <1>1, <1>3
  <2> QED
    BY <1>3, <2>1
<1> QED
  BY <1>4, <1>5, <1>6, GreatestOfSet

(* A value that was stored and counted.                                    *)
LEMMA Assigned ==
  ASSUME NEW d, d = D, NEW v, NEW p,
         out' = IF HasObject(d) THEN Append(out, v) ELSE out,
         matches' = IF d.dest THEN matches + 1 ELSE matches,
         NEW n, n = matches', NEW o, o = out'
  PROVE  \A at : Counted(Stored(Standing(at), d, v), d, p) = [at |-> p, n |-> n, out |-> o, on |-> TRUE]
<1>1. PICK x : x = IF HasObject(d) THEN Append(out, v) ELSE out
  OBVIOUS
<1>2. o = x /\ n = IF d.dest THEN matches + 1 ELSE matches
  BY <1>1
<1>3. ASSUME NEW at
      PROVE  Counted(Stored(Standing(at), d, v), d, p)
               = [at |-> p, n |-> IF d.dest THEN matches + 1 ELSE matches, out |-> x, on |-> TRUE]
  BY <1>1, CountedIs
<1> QED
  BY <1>2, <1>3

LEMMA MeantTaken ==
  ASSUME Whole, Meant, Taken
  PROVE  Meant'
<1>1. pc \notin Heads /\ pc = "taken" /\ D.kind = "set" /\ D.closed
  BY DEF Taken, Heads, Whole, Place, KindOK
<1>2. ScanInv /\ Place /\ PosOK /\ Started /\ D.width \in Nat /\ Field(pos, D.width) # <<>> /\ Taking
  BY <1>1, ConversionFacts DEF Place
<1>3. PICK w : w = D.width
  OBVIOUS
<1>4. PICK f : f = Field(pos, w)
  OBVIOUS
<1>5. f \in Seq(Char) /\ Len(f) \in Nat /\ f # <<>>
  BY <1>2, <1>3, <1>4, FieldNow
<1>6. PICK j \in Nat : /\ Read(w, j + 1) /\ (j < Len(f) => ~InSet(D, f[j + 1]))
                       /\ j <= Len(f) /\ got = SubSeq(f, 1, j) /\ \A i \in 1 .. j : InSet(D, f[i])
  BY <1>1, <1>2, <1>3, <1>4 DEF Taking
<1>7. ShUnget /\ fmt' = fmt
      /\ IF Count' = 0 \/ (D.exact /\ Count' # D.width)
         THEN pc' = "end" /\ matches' = matches /\ out' = out
         ELSE pc' = "next" /\ pos' = pos + Count' /\ k' = k + 1 /\ Assign(got)
  BY DEF Taken, MatchFail, Advance, args
<1>8. Count' = j /\ text' = text /\ Consumed' = pos + j /\ Consumed' \in 0 .. Len(text)
  <2>1. j + 1 # 0 /\ (j + 1) - 1 = j
    BY <1>6
  <2> QED
    BY <1>2, <1>3, <1>6, <1>7, <2>1, Given
<1>9. PICK d : d = D
  OBVIOUS
<1>10. TakenLen(d, f) = j
  BY <1>5, <1>6, <1>9, TakenIs
<1>11. ASSUME NEW a
       PROVE  Converted(a, D, pos) = IF j = 0 \/ (D.exact /\ j # D.width) THEN Stopped(a)
                                     ELSE Counted(Stored(a, D, SubSeq(f, 1, j)), D, pos + j)
  BY <1>1, <1>3, <1>4, <1>5, <1>9, <1>10, ConvertedIs
<1>12. CASE j = 0 \/ (D.exact /\ j # D.width)
  <2>1. PICK n : n = matches'
    OBVIOUS
  <2>2. ASSUME NEW at
        PROVE  LET r == Converted(Standing(at), D, pos)
               IN ~r.on /\ r.n = n /\ r.out = out
    <3>1. Converted(Standing(at), D, pos) = Stopped(Standing(at))
      BY <1>11, <1>12
    <3> QED
      BY <1>7, <1>8, <1>12, <2>1, <3>1, MatchesStopped
  <2> QED
    BY <1>1, <1>7, <1>8, <1>12, <2>1, <2>2, ConversionEnds
<1>13. CASE ~(j = 0 \/ (D.exact /\ j # D.width))
  <2>1. PICK n : n = matches'
    OBVIOUS
  <2>2. PICK o : o = out'
    OBVIOUS
  <2>3. PICK p : p = pos + j
    OBVIOUS
  <2>4. PICK v : v = SubSeq(f, 1, j)
    OBVIOUS
  <2>5. out' = (IF HasObject(d) THEN Append(out, v) ELSE out) /\ matches' = IF d.dest THEN matches + 1 ELSE matches
    BY <1>6, <1>7, <1>8, <1>9, <1>13, <2>4 DEF Assign
  <2>6. \A at : Counted(Stored(Standing(at), d, v), d, p) = [at |-> p, n |-> n, out |-> o, on |-> TRUE]
    BY <1>9, <2>1, <2>2, <2>5, Assigned
  <2>7. \A at : Converted(Standing(at), D, pos) = [at |-> p, n |-> n, out |-> o, on |-> TRUE]
    BY <1>9, <1>11, <1>13, <2>3, <2>4, <2>6
  <2>8. pc' = "next" /\ k' = k + 1 /\ p = pos' /\ pos' \in 0 .. Len(text)
    BY <1>7, <1>8, <1>13, <2>3
  <2> QED
    BY <1>1, <1>7, <1>8, <2>1, <2>2, <2>7, <2>8, ConversionOver
<1> QED
  BY <1>12, <1>13

LEMMA MeantPasses ==
  ASSUME Whole, Meant, Unknown
  PROVE  Meant'
<1>1. pc \notin Heads /\ pc = "other" /\ D.kind = "other"
  BY DEF Unknown, Heads, Whole, Place, KindOK
<1>2. ScanInv /\ Place /\ PosOK /\ Started /\ D.width \in Nat /\ Field(pos, D.width) # <<>> /\ Read(D.width, 0)
  BY <1>1, ConversionFacts DEF Place
<1>3. /\ UNCHANGED file /\ fmt' = fmt /\ out' = out /\ pc' = "next" /\ pos' = pos + Count /\ k' = k + 1
      /\ matches' = IF D.dest THEN matches + 1 ELSE matches
  BY DEF Unknown, Advance
<1>4. pos \in 0 .. Len(text) /\ Len(text) \in Nat /\ text' = text
  BY <1>2, <1>3 DEF PosOK, ScanInv, Typed, file
<1>5. Count = 0
  <2>1. PICK f : f = Field(pos, D.width)
    OBVIOUS
  <2>2. Len(f) \in Nat
    BY <1>2, <2>1, FieldNow
  <2>3. CountsFrom = pos /\ Consumed = pos
    BY <1>2, <1>4, <2>1, <2>2 DEF Read
  <2>4. FileOK
    BY <1>2 DEF ScanInv
  <2> QED
    BY <1>2, <1>4, <2>3, <2>4, CountIs
<1>6. PICK n : n = matches'
  OBVIOUS
<1>7. PICK o : o = out'
  OBVIOUS
<1>8. PICK p : p = pos
  OBVIOUS
<1>9. ASSUME NEW at
      PROVE  Converted(Standing(at), D, pos) = [at |-> p, n |-> n, out |-> o, on |-> TRUE]
  <2>1. PICK d : d = D
    OBVIOUS
  <2>2. Converted(Standing(at), D, pos) = Counted(Standing(at), d, p)
    BY <1>1, <1>2, <1>8, <2>1, ConvertedIs
  <2>3. Counted(Standing(at), d, p)
          = [at |-> p, n |-> IF d.dest THEN matches + 1 ELSE matches, out |-> out, on |-> TRUE]
    BY CountedIs
  <2>4. o = out /\ n = IF d.dest THEN matches + 1 ELSE matches
    BY <1>3, <1>6, <1>7, <2>1
  <2> QED
    BY <2>2, <2>3, <2>4
<1>10. p = pos' /\ pos' \in 0 .. Len(text)
  BY <1>3, <1>4, <1>5, <1>8
<1> QED
  BY <1>1, <1>3, <1>4, <1>6, <1>7, <1>9, <1>10, ConversionOver

(* ---- the numbers ------------------------------------------------------ *)

LEMMA MeantStores ==
  ASSUME Whole, Meant, pc \in {"filed", "floated"}, UNCHANGED <<file, fmt>>,
         NEW good \in BOOLEAN, NEW v, NEW l \in Nat,
         IF good THEN Count = l /\ l # 0 ELSE Count = 0,
         \A a : Converted(a, D, pos) = IF good THEN Counted(Stored(a, D, v), D, pos + l) ELSE Stopped(a),
         IF Count = 0 THEN MatchFail ELSE Advance(Count) /\ Assign(v)
  PROVE  Meant'
<1>1. pc \notin Heads
  BY DEF Heads
<1>2. ScanInv /\ Place /\ PosOK /\ Started
  BY <1>1, ConversionFacts
<1>3. text' = text
  BY DEF file
<1>4. CASE ~good
  <2>1. pc' = "end" /\ matches' = matches /\ out' = out
    BY <1>4 DEF MatchFail, args
  <2>2. PICK n : n = matches'
    OBVIOUS
  <2>3. ASSUME NEW at
        PROVE  LET r == Converted(Standing(at), D, pos)
               IN ~r.on /\ r.n = n /\ r.out = out
    <3>1. Converted(Standing(at), D, pos) = Stopped(Standing(at))
      BY <1>4
    <3> QED
      BY <2>1, <2>2, <3>1, MatchesStopped
  <2> QED
    BY <1>1, <1>3, <2>1, <2>2, <2>3, ConversionEnds
<1>5. CASE good
  <2>1. /\ Count = l /\ Count # 0 /\ pc' = "next" /\ pos' = pos + l /\ k' = k + 1
        /\ Assign(v)
    BY <1>5 DEF Advance
  <2>2. pos' \in 0 .. Len(text)
    <3>1. CountsFrom = pos
      BY <1>1, <1>2, <2>1 DEF Place, Heads
    <3> QED
      BY <1>2, <2>1, <3>1, CountedInText
  <2>3. PICK n : n = matches'
    OBVIOUS
  <2>4. PICK o : o = out'
    OBVIOUS
  <2>5. PICK p : p = pos + l
    OBVIOUS
  <2>6. PICK d : d = D
    OBVIOUS
  <2>7. out' = (IF HasObject(d) THEN Append(out, v) ELSE out) /\ matches' = IF d.dest THEN matches + 1 ELSE matches
    BY <2>1, <2>6 DEF Assign
  <2>8. \A at : Counted(Stored(Standing(at), d, v), d, p) = [at |-> p, n |-> n, out |-> o, on |-> TRUE]
    BY <2>3, <2>4, <2>6, <2>7, Assigned
  <2>9. \A at : Converted(Standing(at), D, pos) = [at |-> p, n |-> n, out |-> o, on |-> TRUE]
    BY <1>5, <2>5, <2>6, <2>8
  <2> QED
    BY <1>1, <1>3, <2>1, <2>2, <2>3, <2>4, <2>5, <2>9, ConversionOver
<1> QED
  BY <1>4, <1>5

LEMMA MeantStoresInt ==
  ASSUME Whole, Meant, StoreInt
  PROVE  Meant'
<1>1. pc = "filed" /\ pc \notin Heads /\ UNCHANGED <<file, fmt>>
      /\ IF Count = 0 THEN MatchFail ELSE Advance(Count) /\ Assign(Narrow(num, D.size))
  BY DEF StoreInt, Heads, MatchFail, args
<1>2. ScanInv /\ Place /\ PosOK /\ Started /\ Field(pos, D.width) # <<>> /\ FileOK
  BY <1>1, ConversionFacts DEF Place, ScanInv
<1>3. PICK f : f = Field(pos, D.width)
  OBVIOUS
<1>4. PICK item : item = Item(f, D.base)
  OBVIOUS
<1>5. D.kind = "int"
      /\ IF IsNumeral(item, D.base) THEN Count = Len(item) /\ Count # 0 /\ num = IntValue(item, D.base)
                                    ELSE Count = 0
  BY <1>1, <1>3, <1>4 DEF Whole, IntOK, IntPcs, IntAt
<1>6. Count \in Nat
  BY <1>2, CountIs
<1>7. PICK good \in BOOLEAN : good <=> IsNumeral(item, D.base)
  OBVIOUS
<1>8. PICK l : l = Count
  OBVIOUS
<1>9. PICK v : v = Narrow(num, D.size)
  OBVIOUS
<1>10. ASSUME NEW a
       PROVE  Converted(a, D, pos) = IF good THEN Counted(Stored(a, D, v), D, pos + l) ELSE Stopped(a)
  BY <1>2, <1>3, <1>4, <1>5, <1>7, <1>8, <1>9, ConvertedIs
<1> QED
  BY <1>1, <1>5, <1>6, <1>7, <1>8, <1>9, <1>10, MeantStores

LEMMA NothingIsNoFloat == ~IsFloat(<<>>)
<1>1. Unsigned(<<>>) = <<>>
  BY DEF Unsigned
<1>2. ~IsWord(<<>>)
  <2>1. Word.nan # <<>> /\ Word.infinity # <<>>
    BY DEF Word
  <2>2. SubSeq(Word.infinity, 1, 3) # <<>>
    <3>1. Word.infinity \in Seq({"i", "n", "f", "t", "y"}) /\ Len(Word.infinity) = 8
      BY DEF Word
    <3>2. 3 \in 0 .. Len(Word.infinity)
      BY <3>1
    <3>3. Len(SubSeq(Word.infinity, 1, 3)) = 3
      BY <3>1, <3>2, PieceIs
    <3>4. PICK x : x = SubSeq(Word.infinity, 1, 3)
      OBVIOUS
    <3>5. Len(x) # Len(<<>>)
      BY <3>3, <3>4
    <3> QED
      BY <3>4, <3>5
  <2>3. Len(<<>>) = 0
    OBVIOUS
  <2> QED
    BY <2>1, <2>2, <2>3 DEF IsWord
<1>3. ~IsNumber(<<>>)
  <2>1. Split(<<>>) = 1 /\ ~IsHex(<<>>)
    BY DEF Split, IsHex
  <2>2. Mantissa(<<>>) = SubSeq(<<>>, 1, 0)
    BY <2>1 DEF Mantissa
  <2>3. SubSeq(<<>>, 1, 0) = <<>>
    OBVIOUS
  <2>4. RemoveFirst(<<>>, ".") = <<>>
    BY DEF RemoveFirst
  <2> QED
    BY <2>2, <2>3, <2>4 DEF IsNumber
<1> QED
  BY <1>1, <1>2, <1>3 DEF IsFloat

LEMMA FloatItemIs ==
  ASSUME NEW f \in Seq(Char)
  PROVE  FloatItem(f) \in Seq(Char)
<1> DEFINE S == {n \in 0 .. Len(f) : MayBecomeFloat(SubSeq(f, 1, n))}
           T == {i \in 0 .. Len(f) : Len(f) - i \in S}
<1>1. Len(f) \in Nat
  OBVIOUS
<1>2. 0 \in S
  <2>1. SubSeq(f, 1, 0) = <<>>
    BY SubSeqEmpty
  <2>2. IsPrefix(Unsigned(<<>>), Word.infinity)
    <3>1. Unsigned(<<>>) = <<>> /\ Len(<<>>) = 0
      BY DEF Unsigned
    <3>2. Word.infinity \in Seq({"i", "n", "f", "t", "y"}) /\ Len(Word.infinity) = 8
      BY DEF Word
    <3>3. SubSeq(Word.infinity, 1, 0) = <<>> /\ SubSeq(<<>>, 1, 0) = <<>>
      BY <3>2, SubSeqEmpty
    <3> QED
      BY <3>1, <3>2, <3>3 DEF IsPrefix
  <2>3. MayBecomeFloat(SubSeq(f, 1, 0))
    BY <2>1, <2>2, Zenon DEF MayBecomeFloat
  <2>4. 0 \in 0 .. Len(f)
    BY <1>1
  <2> QED
    BY <2>3, <2>4
<1>3. Len(f) \in T
  BY <1>1, <1>2
<1>4. PICK t \in T : \A i \in T : t <= i
  <2> T \subseteq Nat
    OBVIOUS
  <2> HIDE DEF T
  <2> QED
    BY <1>3, LeastNatural
<1>5. Len(f) - t \in S /\ Len(f) - t \in 0 .. Len(f)
  BY <1>4
<1>6. ASSUME NEW i \in S PROVE i <= Len(f) - t
  <2>1. i \in 0 .. Len(f) /\ Len(f) - (Len(f) - i) = i /\ Len(f) - i \in 0 .. Len(f)
    BY <1>1
  <2>2. Len(f) - i \in T
    BY <2>1
  <2>3. t <= Len(f) - i /\ t \in Nat
    BY <1>4, <2>2
  <2> HIDE DEF S, T
  <2> QED
    BY <1>1, <2>1, <2>3
<1>7. FloatItem(f) = SubSeq(f, 1, Max(S))
  BY DEF FloatItem, LongestPrefix
<1>8. S \subseteq Int
  OBVIOUS
<1> HIDE DEF S, T
<1>9. Max(S) = Len(f) - t
  BY <1>5, <1>6, <1>8, GreatestOfSet
<1> QED
  BY <1>5, <1>7, <1>9, PieceIs

(* ---- what fffloatscan scans for --------------------------------------- *)

FloatKind == pc \in FloatPcs => D.kind = "float"

LEMMA FloatKindSteps ==
  ASSUME Whole, FloatKind, [ScanNext]_floatVars
  PROVE  FloatKind'
<1>1. CASE FloatMove
  <2>1. pc \in FloatPcs \cup {"float"} /\ UNCHANGED <<fmt, k>>
    BY <1>1 DEF FloatMove
  <2>2. D.kind = "float" /\ D' = D
    BY <2>1 DEF FloatKind, Whole, Place, KindOK, D
  <2> QED
    BY <2>2 DEF FloatKind
<1>2. CASE Finish \/ Begin \/ NoSkip \/ ReadSoFar \/ BadConversion \/ Skip \/ Skipped \/ OneChar \/ Compare
  <2>1. pc' \in Heads \cup {"width"}
    BY <1>2 DEF Finish, Begin, NoSkip, ReadSoFar, BadConversion, Skip, Skipped, OneChar, Compare, Heads,
                MatchFail, Fail, Advance
  <2> QED
    BY <2>1 DEF FloatKind, FloatPcs, Heads
<1>3. CASE Width \/ Peek \/ Convert \/ Chars \/ Taken \/ Unknown \/ StoreInt \/ StoreFloat
  <2>1. pc' \in Heads \cup Conversions \cup {"peek", "convert", "taken"}
    <3>1. CASE Convert
      <4>1. D.kind \in Conversions
        BY <3>1, ConversionFacts DEF Convert, Heads
      <4> QED
        BY <3>1, <4>1 DEF Convert, Fail, Heads
    <3>2. CASE ~Convert
      BY <1>3, <3>2 DEF Width, Peek, Chars, Taken, Unknown, StoreInt, StoreFloat, Heads, MatchFail, Fail,
                        Advance, Conversions, args
    <3> QED
      BY <3>1, <3>2
  <2> QED
    BY <2>1 DEF FloatKind, FloatPcs, Heads, Conversions
<1>4. CASE Sign \/ AfterSign \/ LeadingZero \/ AfterX \/ FirstDigit \/ Reject
           \/ Rejected \/ XDigits \/ YDigits \/ Overflow \/ IntDone
  <2>1. pc' \in IntPcs
    BY <1>4 DEF Sign, AfterSign, LeadingZero, AfterX, FirstDigit, Reject, Rejected,
                XDigits, YDigits, Digit, Overflow, IntDone, IntPcs, args
  <2> QED
    BY <2>1 DEF FloatKind, FloatPcs, IntPcs
<1>5. CASE UNCHANGED vars
  BY <1>5 DEF FloatKind, D, vars
<1> QED
  BY <1>1, <1>2, <1>3, <1>4, <1>5, WordMoves, NumberMoves
     DEF ScanNext, ScanStep, Step, FloatStep, Ended, floatVars

(* What fffloatscan gave is stored as the meaning has it, if the number    *)
(* was read as it should be.                                               *)
LEMMA MeantStoresFloat ==
  ASSUME Whole, FloatKind, Meant, StoreFloat, pc = "floated" => FloatRead
  PROVE  Meant'
<1>1. pc = "floated" /\ pc \notin Heads /\ UNCHANGED <<file, fmt>> /\ FloatRead
      /\ IF Count = 0 THEN MatchFail ELSE Advance(Count) /\ Assign(flt.val)
  BY DEF StoreFloat, Heads, MatchFail, args
<1>2. /\ ScanInv /\ Place /\ PosOK /\ Started /\ D.width \in Nat
      /\ Field(pos, D.width) # <<>> /\ FileOK /\ D.kind = "float"
  BY <1>1, ConversionFacts DEF Place, ScanInv, FloatKind, FloatPcs
<1>3. PICK f : f = Field(pos, D.width)
  OBVIOUS
<1>4. PICK item : item = FloatItem(f)
  OBVIOUS
<1>5. PICK good \in BOOLEAN : good <=> D.size \in Precisions /\ IsFloat(item)
  OBVIOUS
<1>6. IF good THEN Count = Len(item) /\ flt.val = FloatValue(item, D.size) ELSE Count = 0
  BY <1>1, <1>3, <1>4, <1>5 DEF FloatRead
<1>7. Count \in Nat
  BY <1>2, CountIs
<1>8. item \in Seq(Char)
  <2>1. f \in Seq(Char)
    BY <1>2, <1>3, FieldNow
  <2> QED
    BY <1>4, <2>1, FloatItemIs
<1>9. good => Len(item) # 0
  <2>1. good => item # <<>>
    BY <1>5, NothingIsNoFloat
  <2> QED
    BY <1>8, <2>1
<1>10. PICK l : l = Count
  OBVIOUS
<1>11. PICK v : v = flt.val
  OBVIOUS
<1>12. ASSUME NEW a
       PROVE  Converted(a, D, pos) = IF good THEN Counted(Stored(a, D, v), D, pos + l) ELSE Stopped(a)
  BY <1>2, <1>3, <1>4, <1>5, <1>6, <1>10, <1>11, ConvertedIs
<1> QED
  BY <1>1, <1>6, <1>7, <1>9, <1>10, <1>11, <1>12, MeantStores

(* ---- the steps within a number ---------------------------------------- *)

LEMMA MeantMoves ==
  ASSUME Whole, Meant,
         FloatMove \/ Sign \/ AfterSign \/ LeadingZero \/ AfterX \/ FirstDigit \/ Reject
           \/ Rejected \/ XDigits \/ YDigits \/ Overflow \/ IntDone
  PROVE  Meant'
<1>1. /\ pc \notin Heads /\ pc # "width" /\ pc' \notin Heads /\ UNCHANGED <<fmt, k, pos, matches, out>>
      /\ ShGetC \/ ShUnget \/ ShLim(0) \/ UNCHANGED file
  <2>1. CASE FloatMove
    BY <2>1 DEF FloatMove, FloatPcs, Heads
  <2>2. CASE ~FloatMove
    <3>1. /\ pc \in IntPcs /\ pc' \in IntPcs /\ UNCHANGED <<fmt, k, pos, matches, out>>
          /\ ShGetC \/ ShUnget \/ ShLim(0) \/ UNCHANGED file
      BY <2>2 DEF Sign, AfterSign, LeadingZero, AfterX, FirstDigit, Reject, Rejected,
                  XDigits, YDigits, Digit, Overflow, IntDone, IntPcs, args
    <3> QED
      BY <3>1 DEF IntPcs, Heads
  <2> QED
    BY <2>1, <2>2
<1>2. ScanInv /\ Place /\ Started
  BY <1>1, ConversionFacts
<1>3. text' = text
  BY <1>1, <1>2, CallKeeps DEF ShLim, file
<1> QED
  BY <1>1, <1>2, <1>3, MeantKeeps DEF Heads

LEMMA MeantInit == FloatInit => Meant
<1> SUFFICES ASSUME FloatInit PROVE Meant
  OBVIOUS
<1>1. /\ fmt \in Formats /\ text \in Texts[fmt] /\ k = 1 /\ pc = "next" /\ pos = 0
      /\ matches = 0 /\ out = <<>>
  BY DEF FloatInit, Init
<1>2. text \in Seq(Char) /\ Len(fmt) \in Nat
  BY <1>1, TextsAssumption, FormatsAssumption
<1>3. First(k - 1) = <<>>
  <2>1. First(k - 1) = SubSeq(fmt, 1, 0)
    BY <1>1 DEF First
  <2>2. SubSeq(fmt, 1, 0) = <<>>
    OBVIOUS
  <2> QED
    BY <2>1, <2>2
<1>4. Began(0)
  BY <1>1, <1>2, <1>3, MeaningEmpty DEF Began, Standing, Nothing, Heads
<1> QED
  BY <1>1, <1>4 DEF Meant

LEMMA MeantStays == Whole /\ Meant /\ UNCHANGED vars => Meant'
<1> SUFFICES ASSUME Whole, Meant, UNCHANGED vars PROVE Meant'
  OBVIOUS
<1>1. ScanInv /\ Place /\ UNCHANGED <<fmt, k, pos, matches, out, text, pc>>
  BY DEF Whole, vars
<1>2. CASE pc # "end"
  BY <1>1, <1>2, MeantKeeps
<1>3. CASE pc = "end"
  <2>1. 0 \in 0 .. Len(fmt)
    BY <1>1, FormatsAssumption DEF ScanInv, Control
  <2>2. Meaning(fmt)' = Meaning(fmt)
    BY <1>1, <2>1, FirstSame
  <2> QED
    BY <1>1, <1>3, <2>2 DEF Meant
<1> QED
  BY <1>2, <1>3

LEMMA MeantSteps ==
  Whole /\ FloatKind /\ (pc = "floated" => FloatRead) /\ Meant /\ [ScanNext]_floatVars => Meant'
<1> SUFFICES ASSUME Whole, FloatKind, pc = "floated" => FloatRead, Meant, [ScanNext]_floatVars PROVE Meant'
  OBVIOUS
<1>1. CASE Step
  BY <1>1, MeantBegins, MeantSkips, MeantCompares, MeantLooks, MeantConverts, MeantTakes, MeantTaken,
     MeantPasses, MeantStoresInt, MeantMoves DEF Step
<1>2. CASE FloatStep
  BY <1>2, WordMoves, NumberMoves, MeantMoves, MeantStoresFloat DEF FloatStep
<1>3. CASE UNCHANGED vars
  BY <1>3, MeantStays
<1> QED
  BY <1>1, <1>2, <1>3 DEF ScanNext, ScanStep, Ended, floatVars

LEMMA MeantIsMeant == Whole /\ Meant => ScannedAsMeant
<1> SUFFICES ASSUME Whole, Meant PROVE ScannedAsMeant
  OBVIOUS
<1>1. ASSUME pc = "next"
      PROVE  /\ Meaning(SubSeq(fmt, 1, k - 1)) = [at |-> pos, n |-> matches, out |-> out, on |-> TRUE]
             /\ pos = Consumed
  BY <1>1 DEF Meant, Began, First, Standing, Heads, Whole, Place
<1> QED
  BY <1>1 DEF Meant, ScannedAsMeant

(* ---- pieces, the point and the digits that count ---------------------- *)

LEMMA SliceIs ==
  ASSUME NEW S, NEW u \in Seq(S), NEW a \in Nat \ {0}, NEW b \in Nat, a <= b + 1, b <= Len(u)
  PROVE  /\ SubSeq(u, a, b) \in Seq(S) /\ Len(SubSeq(u, a, b)) = b - a + 1
         /\ DOMAIN SubSeq(u, a, b) = 1 .. b - a + 1
         /\ \A i \in 1 .. b - a + 1 : SubSeq(u, a, b)[i] = u[a + i - 1]
<1>1. a \in Int /\ b \in Int /\ \A i \in a .. b : u[i] \in S
  OBVIOUS
<1>2. /\ SubSeq(u, a, b) \in Seq(S)
      /\ Len(SubSeq(u, a, b)) = IF a <= b THEN b - a + 1 ELSE 0
      /\ \A i \in 1 .. b - a + 1 : SubSeq(u, a, b)[i] = u[a + i - 1]
  BY <1>1, SubSeqProperties
<1> QED
  BY <1>2

LEMMA SameSeq ==
  ASSUME NEW S, NEW R, NEW u \in Seq(S), NEW v \in Seq(R), Len(u) = Len(v),
         \A i \in 1 .. Len(u) : u[i] = v[i]
  PROVE  u = v
<1>1. u \in Seq(S \cup R) /\ v \in Seq(S \cup R)
  OBVIOUS
<1> QED
  BY <1>1

LEMMA SameSlice ==
  ASSUME NEW S, NEW R, NEW u \in Seq(S), NEW v \in Seq(R), NEW a \in Nat \ {0}, NEW b \in Nat,
         a <= b + 1, b <= Len(u), b <= Len(v), \A i \in a .. b : u[i] = v[i]
  PROVE  SubSeq(u, a, b) = SubSeq(v, a, b)
<1> DEFINE x == SubSeq(u, a, b)
           y == SubSeq(v, a, b)
<1>1. /\ x \in Seq(S) /\ Len(x) = b - a + 1 /\ \A i \in 1 .. b - a + 1 : x[i] = u[a + i - 1]
      /\ y \in Seq(R) /\ Len(y) = b - a + 1 /\ \A i \in 1 .. b - a + 1 : y[i] = v[a + i - 1]
  BY SliceIs
<1> HIDE DEF x, y
<1>2. \A i \in 1 .. b - a + 1 : a + i - 1 \in a .. b
  OBVIOUS
<1>3. \A i \in 1 .. Len(x) : x[i] = y[i]
  BY <1>1, <1>2
<1>4. x = y
  BY <1>1, <1>3, SameSeq
<1> QED
  BY <1>4 DEF x, y

LEMMA AppendIs ==
  ASSUME NEW S, NEW u \in Seq(S), NEW x
  PROVE  /\ Append(u, x) \in Seq(S \cup {x}) /\ (x \in S => Append(u, x) \in Seq(S)) /\ Len(Append(u, x)) = Len(u) + 1
         /\ Append(u, x)[Len(u) + 1] = x
         /\ \A i \in 1 .. Len(u) : Append(u, x)[i] = u[i]
         /\ Append(u, x) = u \o <<x>> /\ Append(u, x) # <<>>
<1>1. u \in Seq(S \cup {x}) /\ <<x>> \in Seq(S \cup {x})
  OBVIOUS
<1>2. Append(u, x) \in Seq(S \cup {x}) /\ Len(Append(u, x)) = Len(u) + 1
      /\ Append(u, x)[Len(u) + 1] = x
      /\ \A i \in 1 .. Len(u) : Append(u, x)[i] = u[i]
  BY <1>1, AppendProperties
<1>3. u \o <<x>> \in Seq(S \cup {x}) /\ Len(u \o <<x>>) = Len(u) + 1
      /\ \A i \in 1 .. Len(u) + 1 : (u \o <<x>>)[i] = IF i <= Len(u) THEN u[i] ELSE x
  BY <1>1
<1>4. Len(Append(u, x)) # 0
  BY <1>2
<1>5. Append(u, x) = u \o <<x>>
  <2> DEFINE v == Append(u, x)
             z == u \o <<x>>
  <2>1. /\ v \in Seq(S \cup {x}) /\ z \in Seq(S \cup {x}) /\ Len(v) = Len(z) /\ Len(v) = Len(u) + 1
        /\ v[Len(u) + 1] = x /\ \A i \in 1 .. Len(u) : v[i] = u[i]
        /\ \A i \in 1 .. Len(u) + 1 : z[i] = IF i <= Len(u) THEN u[i] ELSE x
    BY <1>2, <1>3
  <2> HIDE DEF v, z
  <2>2. \A i \in 1 .. Len(v) : v[i] = z[i]
    BY <2>1
  <2>3. v = z
    BY <2>1, <2>2, SameSeq
  <2> QED
    BY <2>3 DEF v, z
<1> QED
  BY <1>2, <1>4, <1>5

LEMMA SliceGrows ==
  ASSUME NEW S, NEW u \in Seq(S), NEW a \in Nat \ {0}, NEW b \in Nat, a <= b + 1, b + 1 <= Len(u)
  PROVE  SubSeq(u, a, b + 1) = Append(SubSeq(u, a, b), u[b + 1])
<1> DEFINE x == SubSeq(u, a, b)
           y == SubSeq(u, a, b + 1)
           z == Append(x, u[b + 1])
<1>1. x \in Seq(S) /\ Len(x) = b - a + 1 /\ \A i \in 1 .. b - a + 1 : x[i] = u[a + i - 1]
  BY SliceIs
<1>2. y \in Seq(S) /\ Len(y) = b - a + 2 /\ \A i \in 1 .. b - a + 2 : y[i] = u[a + i - 1]
  <2>1. b + 1 \in Nat /\ a <= (b + 1) + 1
    OBVIOUS
  <2>2. y \in Seq(S) /\ Len(y) = (b + 1) - a + 1 /\ \A i \in 1 .. (b + 1) - a + 1 : y[i] = u[a + i - 1]
    BY <2>1, SliceIs
  <2>3. (b + 1) - a + 1 = b - a + 2
    OBVIOUS
  <2> QED
    BY <2>2, <2>3
<1> HIDE DEF x, y
<1>3. /\ z \in Seq(S) /\ Len(z) = Len(x) + 1 /\ z[Len(x) + 1] = u[b + 1]
      /\ \A i \in 1 .. Len(x) : z[i] = x[i]
  <2>1. u[b + 1] \in S
    OBVIOUS
  <2> QED
    BY <1>1, <2>1, AppendIs
<1> HIDE DEF z
<1>4. ASSUME NEW i \in 1 .. Len(y) PROVE y[i] = z[i]
  <2>1. CASE i <= Len(x)
    BY <1>1, <1>2, <1>3, <2>1
  <2>2. CASE ~(i <= Len(x))
    <3>1. i = Len(x) + 1 /\ a + i - 1 = b + 1
      BY <1>1, <1>2, <2>2
    <3> QED
      BY <1>2, <1>3, <3>1
  <2> QED
    BY <2>1, <2>2
<1>5. y = z
  <2>1. Len(y) = Len(z)
    BY <1>1, <1>2, <1>3
  <2> QED
    BY <1>2, <1>3, <1>4, <2>1, SameSeq
<1> QED
  BY <1>5 DEF x, y, z

(* Where the first point is.                                               *)
LEMMA FirstPoint ==
  ASSUME NEW S, NEW m \in Seq(S), Contains(m, ".")
  PROVE  \E p \in 1 .. Len(m) :
            /\ m[p] = "." /\ \A i \in 1 .. p - 1 : m[i] # "."
            /\ RemoveFirst(m, ".") = SubSeq(m, 1, p - 1) \o SubSeq(m, p + 1, Len(m))
            /\ Fractional(m) = Len(m) - p
<1> DEFINE I == {i \in 1 .. Len(m) : m[i] = "."}
<1>1. I # {} /\ I \subseteq Nat
  BY DEF Contains
<1>2. \E p \in I : \A i \in I : p <= i
  BY <1>1, LeastNatural
<1>3. PICK p \in I : \A i \in I : p <= i
  BY <1>2
<1>4. Min(I) = p
  <2>1. I \subseteq Int
    OBVIOUS
  <2> HIDE DEF I
  <2> QED
    BY <1>3, <2>1, SmallestOfSet
<1>5. p \in 1 .. Len(m) /\ m[p] = "." /\ \A i \in 1 .. p - 1 : m[i] # "."
  BY <1>3
<1>6. \E i \in 1 .. Len(m) : m[i] = "."
  BY <1>5
<1>7. RemoveFirst(m, ".") = RemoveAt(m, p)
  BY <1>1, <1>4, <1>6 DEF RemoveFirst, SelectInSeq
<1>8. Fractional(m) = Len(m) - p
  BY <1>1, <1>4 DEF Fractional, SelectInSeq
<1> QED
  BY <1>5, <1>7, <1>8 DEF RemoveAt

LEMMA ContainsGrows ==
  ASSUME NEW S, NEW m \in Seq(S), NEW x
  PROVE  Contains(Append(m, x), ".") <=> Contains(m, ".") \/ x = "."
<1> DEFINE n == Append(m, x)
<1>1. /\ Len(n) = Len(m) + 1 /\ n[Len(m) + 1] = x /\ \A i \in 1 .. Len(m) : n[i] = m[i]
      /\ Len(m) \in Nat
  BY AppendIs
<1> HIDE DEF n
<1>2. Contains(n, ".") <=> Contains(m, ".") \/ x = "."
  <2>1. \A i \in 1 .. Len(n) : i \in 1 .. Len(m) \/ i = Len(m) + 1
    BY <1>1
  <2>2. Len(m) + 1 \in 1 .. Len(n) /\ \A i \in 1 .. Len(m) : i \in 1 .. Len(n)
    BY <1>1
  <2> QED
    BY <1>1, <2>1, <2>2 DEF Contains
<1> QED
  BY <1>2 DEF n

(* The characters without the first point.                                 *)
LEMMA WithoutPoint ==
  ASSUME NEW S, NEW m \in Seq(S), Contains(m, ".")
  PROVE  \E p \in 1 .. Len(m) :
            /\ m[p] = "." /\ \A i \in 1 .. p - 1 : m[i] # "."
            /\ RemoveFirst(m, ".") \in Seq(S) /\ Len(RemoveFirst(m, ".")) = Len(m) - 1
            /\ \A i \in 1 .. Len(m) - 1 : RemoveFirst(m, ".")[i] = IF i < p THEN m[i] ELSE m[i + 1]
            /\ Fractional(m) = Len(m) - p
<1>1. PICK p \in 1 .. Len(m) :
            /\ m[p] = "." /\ \A i \in 1 .. p - 1 : m[i] # "."
            /\ RemoveFirst(m, ".") = SubSeq(m, 1, p - 1) \o SubSeq(m, p + 1, Len(m))
            /\ Fractional(m) = Len(m) - p
  BY FirstPoint
<1> DEFINE x == SubSeq(m, 1, p - 1)
           y == SubSeq(m, p + 1, Len(m))
           d == RemoveFirst(m, ".")
<1>2. p \in Nat \ {0} /\ p - 1 \in Nat /\ Len(m) \in Nat /\ p <= Len(m)
  OBVIOUS
<1>3. x \in Seq(S) /\ Len(x) = p - 1 /\ \A i \in 1 .. p - 1 : x[i] = m[i]
  BY <1>2, PieceIs
<1>4. y \in Seq(S) /\ Len(y) = Len(m) - p /\ \A i \in 1 .. Len(m) - p : y[i] = m[p + i]
  <2>1. p + 1 \in Nat \ {0} /\ p + 1 <= Len(m) + 1 /\ Len(m) - (p + 1) + 1 = Len(m) - p
    BY <1>2
  <2>2. /\ y \in Seq(S) /\ Len(y) = Len(m) - (p + 1) + 1
        /\ \A i \in 1 .. Len(m) - (p + 1) + 1 : y[i] = m[(p + 1) + i - 1]
    <3>1. PICK a \in Nat \ {0} : a = p + 1
      BY <2>1
    <3>2. PICK b \in Nat : b = Len(m)
      BY <1>2
    <3>3. a <= b + 1 /\ b <= Len(m)
      BY <1>2, <3>1, <3>2
    <3>4. /\ SubSeq(m, a, b) \in Seq(S) /\ Len(SubSeq(m, a, b)) = b - a + 1
          /\ \A i \in 1 .. b - a + 1 : SubSeq(m, a, b)[i] = m[a + i - 1]
      BY <3>3, SliceIs
    <3> QED
      BY <3>1, <3>2, <3>4
  <2>3. \A i \in 1 .. Len(m) - p : (p + 1) + i - 1 = p + i
    BY <1>2
  <2> HIDE DEF y
  <2> QED
    BY <2>1, <2>2, <2>3
<1>5. d = x \o y
  BY <1>1
<1> HIDE DEF x, y, d
<1>6. /\ d \in Seq(S) /\ Len(d) = Len(m) - 1
      /\ \A i \in 1 .. Len(m) - 1 : d[i] = IF i <= p - 1 THEN x[i] ELSE y[i - (p - 1)]
  <2>1. /\ d \in Seq(S) /\ Len(d) = Len(x) + Len(y)
        /\ \A i \in 1 .. Len(x) + Len(y) : d[i] = IF i <= Len(x) THEN x[i] ELSE y[i - Len(x)]
    BY <1>3, <1>4, <1>5, ConcatProperties
  <2>2. Len(x) + Len(y) = Len(m) - 1 /\ Len(x) = p - 1
    BY <1>2, <1>3, <1>4
  <2> QED
    BY <2>1, <2>2
<1>7. ASSUME NEW i \in 1 .. Len(m) - 1 PROVE d[i] = IF i < p THEN m[i] ELSE m[i + 1]
  <2>1. CASE i < p
    <3>1. i \in 1 .. p - 1
      BY <1>2, <2>1
    <3> QED
      BY <1>3, <1>6, <2>1, <3>1
  <2>2. CASE ~(i < p)
    <3>1. i - (p - 1) \in 1 .. Len(m) - p /\ p + (i - (p - 1)) = i + 1 /\ ~(i <= p - 1)
      BY <1>2, <2>2
    <3>2. y[i - (p - 1)] = m[p + (i - (p - 1))]
      BY <1>4, <3>1
    <3> QED
      BY <1>6, <2>2, <3>1, <3>2
  <2> QED
    BY <2>1, <2>2
<1> QED
  BY <1>1, <1>6, <1>7 DEF d

LEMMA WithoutPointType ==
  ASSUME NEW S, NEW m \in Seq(S)
  PROVE  /\ RemoveFirst(m, ".") \in Seq(S) /\ Len(RemoveFirst(m, ".")) <= Len(m)
         /\ ~Contains(m, ".") => RemoveFirst(m, ".") = m /\ Fractional(m) = 0
         /\ Fractional(m) \in 0 .. Len(m)
<1>1. CASE Contains(m, ".")
  BY <1>1, WithoutPoint
<1>2. CASE ~Contains(m, ".")
  <2>1. RemoveFirst(m, ".") = m /\ Fractional(m) = 0
    BY <1>2 DEF RemoveFirst, Fractional, Contains
  <2> QED
    BY <2>1
<1> QED
  BY <1>1, <1>2

LEMMA PointAppended ==
  ASSUME NEW S, NEW m \in Seq(S), ~Contains(m, ".")
  PROVE  RemoveFirst(Append(m, "."), ".") = m /\ Fractional(Append(m, ".")) = 0
<1> DEFINE n == Append(m, ".")
           d == RemoveFirst(n, ".")
           T == S \cup {"."}
<1>1. /\ n \in Seq(T) /\ Len(n) = Len(m) + 1 /\ n[Len(m) + 1] = "." /\ Len(m) \in Nat
      /\ \A i \in 1 .. Len(m) : n[i] = m[i]
  BY AppendIs
<1>2. Contains(n, ".")
  BY ContainsGrows
<1> HIDE DEF n
<1>3. PICK p \in 1 .. Len(n) :
            /\ n[p] = "." /\ \A i \in 1 .. p - 1 : n[i] # "."
            /\ d \in Seq(T) /\ Len(d) = Len(n) - 1
            /\ \A i \in 1 .. Len(n) - 1 : d[i] = IF i < p THEN n[i] ELSE n[i + 1]
            /\ Fractional(n) = Len(n) - p
  BY <1>1, <1>2, WithoutPoint
<1>4. p = Len(m) + 1
  <2>1. ~(p \in 1 .. Len(m))
    BY <1>1, <1>3 DEF Contains
  <2> QED
    BY <1>1, <2>1
<1> HIDE DEF d
<1>5. Len(d) = Len(m) /\ \A i \in 1 .. Len(d) : d[i] = m[i]
  BY <1>1, <1>3, <1>4
<1>6. d = m
  <2>1. d \in Seq(T)
    BY <1>3
  <2> QED
    BY <1>5, <2>1, SameSeq
<1>7. Fractional(n) = 0
  BY <1>1, <1>3, <1>4
<1> QED
  BY <1>6, <1>7 DEF n, d

LEMMA DigitAppended ==
  ASSUME NEW S, NEW m \in Seq(S), NEW x \in S, x # "." \/ Contains(m, ".")
  PROVE  /\ RemoveFirst(Append(m, x), ".") = Append(RemoveFirst(m, "."), x)
         /\ Fractional(Append(m, x)) = IF Contains(m, ".") THEN Fractional(m) + 1 ELSE 0
<1> DEFINE n == Append(m, x)
           d == RemoveFirst(n, ".")
           a == RemoveFirst(m, ".")
           e == Append(a, x)
<1>1. /\ n \in Seq(S) /\ Len(n) = Len(m) + 1 /\ n[Len(m) + 1] = x /\ Len(m) \in Nat
      /\ \A i \in 1 .. Len(m) : n[i] = m[i]
  BY AppendIs
<1>2. Contains(n, ".") <=> Contains(m, ".")
  BY ContainsGrows
<1>3. CASE ~Contains(m, ".")
  BY <1>1, <1>2, <1>3, WithoutPointType
<1>4. CASE Contains(m, ".")
  <2>1. PICK q \in 1 .. Len(m) :
            /\ m[q] = "." /\ \A i \in 1 .. q - 1 : m[i] # "."
            /\ a \in Seq(S) /\ Len(a) = Len(m) - 1
            /\ \A i \in 1 .. Len(m) - 1 : a[i] = IF i < q THEN m[i] ELSE m[i + 1]
            /\ Fractional(m) = Len(m) - q
    BY <1>4, WithoutPoint
  <2> HIDE DEF n, a
  <2>2. PICK p \in 1 .. Len(n) :
            /\ n[p] = "." /\ \A i \in 1 .. p - 1 : n[i] # "."
            /\ d \in Seq(S) /\ Len(d) = Len(n) - 1
            /\ \A i \in 1 .. Len(n) - 1 : d[i] = IF i < p THEN n[i] ELSE n[i + 1]
            /\ Fractional(n) = Len(n) - p
    BY <1>1, <1>2, <1>4, WithoutPoint
  <2>3. p = q
    <3>1. ~(q < p)
      BY <1>1, <2>1, <2>2
    <3>2. ASSUME p < q PROVE FALSE
      <4>1. p \in 1 .. q - 1 /\ p \in 1 .. Len(m)
        BY <2>1, <2>2, <3>2
      <4> QED
        BY <1>1, <2>1, <2>2, <4>1
    <3> QED
      BY <1>1, <3>1, <3>2
  <2>4. /\ e \in Seq(S) /\ Len(e) = Len(a) + 1 /\ e[Len(a) + 1] = x
        /\ \A i \in 1 .. Len(a) : e[i] = a[i]
    BY <2>1, AppendIs
  <2> HIDE DEF d, e
  <2>5. ASSUME NEW i \in 1 .. Len(d) PROVE d[i] = e[i]
    <3>1. CASE i = Len(m)
      BY <1>1, <2>1, <2>2, <2>3, <2>4, <3>1
    <3>2. CASE i # Len(m)
      <4>1. i \in 1 .. Len(m) - 1 /\ i \in 1 .. Len(a) /\ i + 1 \in 1 .. Len(m)
        BY <1>1, <2>1, <2>2, <3>2
      <4> QED
        BY <1>1, <2>1, <2>2, <2>3, <2>4, <4>1
    <3> QED
      BY <3>1, <3>2
  <2>6. d \in Seq(S) /\ Len(d) = Len(e)
    BY <1>1, <2>1, <2>2, <2>4
  <2>7. d = e
    BY <2>4, <2>5, <2>6, SameSeq
  <2>8. Fractional(n) = Fractional(m) + 1
    BY <1>1, <2>1, <2>2, <2>3
  <2> QED
    BY <1>4, <2>7, <2>8 DEF n, a, d, e
<1> QED
  BY <1>3, <1>4

(* What is no point, or not the first one, remains.                        *)
LEMMA OthersRemain ==
  ASSUME NEW S, NEW m \in Seq(S), NEW j \in 1 .. Len(m), m[j] # "." \/ Contains(SubSeq(m, 1, j - 1), ".")
  PROVE  \E i \in 1 .. Len(RemoveFirst(m, ".")) : RemoveFirst(m, ".")[i] = m[j]
<1>1. CASE ~Contains(m, ".")
  BY <1>1, WithoutPointType
<1>2. CASE Contains(m, ".")
  <2> DEFINE d == RemoveFirst(m, ".")
             h == SubSeq(m, 1, j - 1)
  <2>1. PICK p \in 1 .. Len(m) :
            /\ m[p] = "." /\ \A i \in 1 .. p - 1 : m[i] # "."
            /\ d \in Seq(S) /\ Len(d) = Len(m) - 1
            /\ \A i \in 1 .. Len(m) - 1 : d[i] = IF i < p THEN m[i] ELSE m[i + 1]
    BY <1>2, WithoutPoint
  <2>2. Len(h) = j - 1 /\ \A i \in 1 .. j - 1 : h[i] = m[i]
    BY PieceIs
  <2>3. Contains(h, ".") => \E i \in 1 .. j - 1 : m[i] = "."
    BY <2>2 DEF Contains
  <2> HIDE DEF d, h
  <2>4. p # j
    BY <2>1, <2>3 DEF h
  <2>5. CASE j < p
    <3>1. j \in 1 .. Len(m) - 1
      BY <2>1, <2>5
    <3> QED
      BY <2>1, <2>5, <3>1 DEF d
  <2>6. CASE j > p
    <3>1. j - 1 \in 1 .. Len(m) - 1 /\ ~(j - 1 < p) /\ (j - 1) + 1 = j
      BY <2>1, <2>6
    <3>2. d[j - 1] = m[(j - 1) + 1]
      BY <2>1, <3>1
    <3> QED
      BY <2>1, <3>1, <3>2 DEF d
  <2> QED
    BY <2>4, <2>5, <2>6
<1> QED
  BY <1>1, <1>2

(* The zeros in front, which do not count.                                 *)
LEMMA FirstThatCounts ==
  ASSUME NEW S, NEW ds \in Seq(S)
  PROVE  \E p \in 1 .. Len(ds) + 1 :
            /\ \A i \in 1 .. p - 1 : ds[i] = "0"
            /\ p <= Len(ds) => ds[p] # "0"
            /\ Significant(ds) = SubSeq(ds, p, Len(ds))
            /\ Significant(ds) = <<>> <=> p = Len(ds) + 1
<1> DEFINE I == {i \in 1 .. Len(ds) : ds[i] # "0"}
<1>1. I \subseteq Int /\ I \subseteq Nat /\ Len(ds) \in Nat
  OBVIOUS
<1>2. CASE I = {}
  <2>1. Significant(ds) = <<>>
    BY <1>2 DEF Significant, SelectInSeq
  <2>2. SubSeq(ds, Len(ds) + 1, Len(ds)) = <<>>
    <3>1. PICK a \in Nat \ {0} : a = Len(ds) + 1
      BY <1>1
    <3>2. PICK b \in Nat : b = Len(ds)
      BY <1>1
    <3>3. SubSeq(ds, a, b) \in Seq(S) /\ Len(SubSeq(ds, a, b)) = b - a + 1
      BY <3>1, <3>2, SliceIs
    <3>4. Len(SubSeq(ds, a, b)) = 0
      BY <3>1, <3>2, <3>3
    <3>5. SubSeq(ds, a, b) = <<>>
      BY <3>3, <3>4
    <3> QED
      BY <3>1, <3>2, <3>5
  <2>3. Len(ds) + 1 \in 1 .. Len(ds) + 1 /\ \A i \in 1 .. (Len(ds) + 1) - 1 : ds[i] = "0"
    BY <1>1, <1>2
  <2> QED
    BY <1>1, <2>1, <2>2, <2>3
<1>3. CASE I # {}
  <2>1. PICK p \in I : \A i \in I : p <= i
    BY <1>1, <1>3, LeastNatural
  <2>2. Min(I) = p
    <3> HIDE DEF I
    <3> QED
      BY <1>1, <2>1, SmallestOfSet
  <2>3. p \in 1 .. Len(ds) /\ ds[p] # "0" /\ \A i \in 1 .. p - 1 : ds[i] = "0"
    BY <2>1
  <2>4. Significant(ds) = SubSeq(ds, p, Len(ds))
    <3> DEFINE first == IF I # {} THEN Min(I) ELSE 0
    <3>1. Significant(ds) = IF first = 0 THEN <<>> ELSE SubSeq(ds, first, Len(ds))
      BY DEF Significant, SelectInSeq
    <3>2. first = p /\ p # 0
      BY <1>3, <2>2, <2>3
    <3> HIDE DEF first
    <3> QED
      BY <3>1, <3>2
  <2>5. SubSeq(ds, p, Len(ds)) # <<>>
    <3>1. PICK a \in Nat \ {0} : a = p
      BY <2>3
    <3>2. PICK b \in Nat : b = Len(ds)
      BY <1>1
    <3>3. SubSeq(ds, a, b) \in Seq(S) /\ Len(SubSeq(ds, a, b)) = b - a + 1
      BY <2>3, <3>1, <3>2, SliceIs
    <3>4. Len(SubSeq(ds, a, b)) # 0
      BY <2>3, <3>1, <3>2, <3>3
    <3>5. SubSeq(ds, a, b) # <<>>
      BY <3>3, <3>4
    <3> QED
      BY <3>1, <3>2, <3>5
  <2>6. p \in 1 .. Len(ds) + 1 /\ p # Len(ds) + 1
    BY <1>1, <2>3
  <2> QED
    BY <2>3, <2>4, <2>5, <2>6
<1> QED
  BY <1>2, <1>3

LEMMA SignificantIs ==
  ASSUME NEW S, NEW ds \in Seq(S)
  PROVE  LET z == Significant(ds)
         IN /\ z \in Seq(S) /\ Len(z) \in Nat /\ Len(z) <= Len(ds)
            /\ z # <<>> => Len(z) # 0 /\ z[1] # "0"
            /\ \A i \in 1 .. Len(z) : \E h \in 1 .. Len(ds) : z[i] = ds[h]
<1> DEFINE z == Significant(ds)
<1>1. PICK p \in 1 .. Len(ds) + 1 :
            /\ p <= Len(ds) => ds[p] # "0"
            /\ z = SubSeq(ds, p, Len(ds)) /\ (z = <<>> <=> p = Len(ds) + 1)
  BY FirstThatCounts
<1> HIDE DEF z
<1>2. PICK b \in Nat : b = Len(ds)
  OBVIOUS
<1>3. z \in Seq(S) /\ Len(z) = b - p + 1 /\ \A i \in 1 .. b - p + 1 : z[i] = ds[p + i - 1]
  <2>1. p \in Nat \ {0} /\ p <= b + 1 /\ b <= Len(ds) /\ z = SubSeq(ds, p, b)
    BY <1>1, <1>2
  <2> QED
    BY <2>1, SliceIs
<1>4. z # <<>> => Len(z) # 0 /\ z[1] # "0"
  <2> SUFFICES ASSUME z # <<>> PROVE Len(z) # 0 /\ z[1] # "0"
    OBVIOUS
  <2>1. p <= b /\ ds[p] # "0" /\ 1 \in 1 .. b - p + 1 /\ p + 1 - 1 = p
    BY <1>1, <1>2
  <2>2. z[1] = ds[p + 1 - 1]
    BY <1>3, <2>1
  <2> QED
    BY <1>2, <1>3, <2>1, <2>2
<1>5. \A i \in 1 .. Len(z) : p + i - 1 \in 1 .. Len(ds)
  BY <1>1, <1>2, <1>3
<1> QED
  BY <1>1, <1>2, <1>3, <1>4, <1>5 DEF z

LEMMA SignificantGrows ==
  ASSUME NEW S, NEW ds \in Seq(S), NEW x \in S
  PROVE  Significant(Append(ds, x))
            = IF Significant(ds) = <<>> /\ x = "0" THEN <<>> ELSE Append(Significant(ds), x)
<1> DEFINE n == Append(ds, x)
           z == Significant(ds)
<1>1. /\ n \in Seq(S) /\ Len(n) = Len(ds) + 1 /\ n[Len(ds) + 1] = x /\ Len(ds) \in Nat
      /\ \A i \in 1 .. Len(ds) : n[i] = ds[i]
  BY AppendIs
<1>2. PICK p \in 1 .. Len(ds) + 1 :
            /\ \A i \in 1 .. p - 1 : ds[i] = "0"
            /\ p <= Len(ds) => ds[p] # "0"
            /\ z = SubSeq(ds, p, Len(ds)) /\ (z = <<>> <=> p = Len(ds) + 1)
  BY FirstThatCounts
<1> HIDE DEF n, z
<1>3. PICK q \in 1 .. Len(n) + 1 :
            /\ \A i \in 1 .. q - 1 : n[i] = "0"
            /\ q <= Len(n) => n[q] # "0"
            /\ Significant(n) = SubSeq(n, q, Len(n))
            /\ (Significant(n) = <<>> <=> q = Len(n) + 1)
  BY <1>1, FirstThatCounts
<1>4. CASE z = <<>> /\ x = "0"
  <2>1. \A i \in 1 .. Len(n) : n[i] = "0"
    BY <1>1, <1>2, <1>4
  <2>2. q = Len(n) + 1
    BY <1>1, <1>3, <2>1
  <2> QED
    BY <1>3, <1>4, <2>2 DEF n, z
<1>5. CASE ~(z = <<>> /\ x = "0")
  <2>1. p <= Len(n) /\ n[p] # "0"
    BY <1>1, <1>2, <1>5
  <2>2. \A i \in 1 .. p - 1 : n[i] = "0"
    BY <1>1, <1>2, SMTT(30)
  <2>3. p = q
    <3>1. ASSUME p < q PROVE FALSE
      <4>1. p \in 1 .. q - 1
        BY <1>2, <1>3, <3>1
      <4> QED
        BY <1>3, <2>1, <4>1
    <3>2. ASSUME q < p PROVE FALSE
      <4>1. q \in 1 .. p - 1 /\ q <= Len(n)
        BY <1>1, <1>2, <1>3, <3>2
      <4> QED
        BY <1>3, <2>2, <4>1
    <3> QED
      BY <1>1, <1>2, <1>3, <3>1, <3>2
  <2>4. PICK b \in Nat : b = Len(ds)
    BY <1>1
  <2>5. p \in Nat \ {0} /\ p <= b + 1 /\ b + 1 <= Len(n) /\ b + 1 = Len(n) /\ b <= Len(ds)
    BY <1>1, <1>2, <2>4
  <2>6. SubSeq(n, p, b + 1) = Append(SubSeq(n, p, b), n[b + 1])
    BY <1>1, <2>5, SliceGrows
  <2>7. SubSeq(n, p, b) = SubSeq(ds, p, b)
    <3>1. \A i \in p .. b : n[i] = ds[i]
      BY <1>1, <2>4, <2>5
    <3>2. b <= Len(n)
      BY <2>5
    <3> QED
      BY <1>1, <2>5, <3>1, <3>2, SameSlice
  <2>8. Significant(n) = Append(z, x)
    BY <1>1, <1>2, <1>3, <2>3, <2>4, <2>5, <2>6, <2>7
  <2> QED
    BY <1>5, <2>8 DEF n, z
<1> QED
  BY <1>4, <1>5

LEMMA NothingSignificant == Significant(<<>>) = <<>>
<1>1. <<>> \in Seq({}) /\ Len(<<>>) = 0
  OBVIOUS
<1>2. PICK z : z = Significant(<<>>)
  OBVIOUS
<1>3. z \in Seq({}) /\ Len(z) <= 0 /\ Len(z) \in Nat
  BY <1>1, <1>2, SignificantIs
<1>4. z = <<>>
  BY <1>3
<1> QED
  BY <1>2, <1>4

(* What digits come to.                                                    *)
LEMMA NumeralAppended ==
  ASSUME NEW S, NEW ds \in Seq(S), NEW x, NEW r
  PROVE  Numeral(Append(ds, x), r) = Numeral(ds, r) * r + Val(x)
<1> DEFINE n == Append(ds, x)
<1>1. /\ n \in Seq(S \cup {x}) /\ Len(n) = Len(ds) + 1 /\ n[Len(ds) + 1] = x /\ Len(ds) \in Nat
      /\ \A i \in 1 .. Len(ds) : n[i] = ds[i]
  BY AppendIs
<1> HIDE DEF n
<1>2. PICK l \in Nat \ {0} : l = Len(ds) + 1
  BY <1>1
<1>3. DOMAIN n = 1 .. l /\ DOMAIN ds = 1 .. l - 1 /\ (\A i \in 1 .. l - 1 : ds[i] = n[i]) /\ n[l] = x
  BY <1>1, <1>2
<1>4. Numeral(n, r) = Numeral(ds, r) * r + Val(n[l])
  BY <1>3, NumeralStep
<1> QED
  BY <1>3, <1>4 DEF n

LEMMA NumeralIsNat ==
  ASSUME NEW S, NEW ds \in Seq(S), NEW r \in Nat \ {0}
  PROVE  /\ Numeral(ds, r) \in Nat
         /\ Len(ds) # 0 /\ Val(ds[1]) # 0 => Numeral(ds, r) # 0
<1> DEFINE V(n) == Numeral(SubSeq(ds, 1, n), r)
           Good(n) == V(n) \in Nat /\ (n # 0 /\ Val(ds[1]) # 0 => V(n) # 0)
           T == {n \in 0 .. Len(ds) : ~Good(n)}
<1>1. SubSeq(ds, 1, 0) = <<>> /\ SubSeq(ds, 1, Len(ds)) = ds /\ Len(ds) \in Nat
  OBVIOUS
<1>2. Good(0)
  <2>1. V(0) = 0
    BY <1>1, NumeralEmpty
  <2> HIDE DEF V
  <2> QED
    BY <2>1
<1>3. ASSUME NEW n \in Nat, n + 1 <= Len(ds), Good(n) PROVE Good(n + 1)
  <2>1. SubSeq(ds, 1, n + 1) = Append(SubSeq(ds, 1, n), ds[n + 1])
    BY <1>3, SliceGrows
  <2>2. SubSeq(ds, 1, n) \in Seq(S)
    <3>1. n \in 0 .. Len(ds)
      BY <1>1, <1>3
    <3> QED
      BY <3>1, PieceIs
  <2>3. V(n + 1) = V(n) * r + Val(ds[n + 1])
    BY <2>1, <2>2, NumeralAppended
  <2>4. Val(ds[n + 1]) \in Nat
    BY ValType
  <2> DEFINE a == V(n)
             v == Val(ds[n + 1])
  <2>5. a \in Nat /\ (n # 0 /\ Val(ds[1]) # 0 => a # 0) /\ (n = 0 /\ Val(ds[1]) # 0 => v # 0) /\ v \in Nat
    BY <1>3, <2>4
  <2>6. V(n + 1) = a * r + v
    BY <2>3
  <2> HIDE DEF a, v
  <2>7. a * r + v \in Nat
    BY <2>5
  <2>8. a # 0 \/ v # 0 => a * r + v # 0
    BY <2>5
  <2> HIDE DEF V
  <2> QED
    BY <2>5, <2>6, <2>7, <2>8
<1> HIDE DEF Good
<1>4. T = {}
  <2> SUFFICES ASSUME T # {} PROVE FALSE
    OBVIOUS
  <2>1. PICK m \in T : \A i \in T : m <= i
    <3>1. T \subseteq Nat
      OBVIOUS
    <3> HIDE DEF T
    <3> QED
      BY <3>1, LeastNatural
  <2>2. m # 0 /\ m - 1 \in Nat /\ (m - 1) + 1 = m /\ m <= Len(ds) /\ m - 1 \in 0 .. Len(ds)
    BY <1>1, <1>2, <2>1
  <2>3. Good(m - 1)
    BY <2>1, <2>2
  <2>4. Good((m - 1) + 1)
    BY <1>3, <2>2, <2>3
  <2> QED
    BY <2>1, <2>2, <2>4
<1>5. Good(Len(ds))
  BY <1>1, <1>4
<1> QED
  BY <1>1, <1>5 DEF Good

(* ---- the digits that are kept ----------------------------------------- *)

LEMMA DigitValues ==
  /\ Val("0") = 0 /\ Val(".") = 255 /\ Val(")") = 255 /\ Val("i") = 18 /\ Val("n") = 23
  /\ Val("p") = 25 /\ Val("e") = 14 /\ Val(EOF) = 255 /\ Val("+") = 255 /\ Val("-") = 255
  /\ \A ch : Val(ch) < 16 /\ ch # "0" => Val(ch) # 0
  /\ \A ch : Val(ch) \in Nat
  /\ EOF \notin {"0", ".", ")", "(", "i", "n", "p", "e", "x", "+", "-"} /\ EOF \notin WordChars
<1>1. /\ Val("0") = 0 /\ Val("i") = 18 /\ Val("n") = 23 /\ Val("p") = 25 /\ Val("e") = 14
  BY DEF Val, Digits
<1>2. Val(".") = 255 /\ Val(")") = 255
  BY DEF Val, Digits
<1>3. \A ch : Val(ch) < 16 /\ ch # "0" => Val(ch) # 0
  <2> SUFFICES ASSUME NEW ch, Val(ch) < 16, ch # "0" PROVE Val(ch) # 0
    OBVIOUS
  <2>1. ch \in DOMAIN Digits
    BY DEF Val
  <2>2. ch \in {"2", "5", "9", "a", "e", "f", "i", "n", "p", "t", "x", "y"}
    BY <2>1 DEF Digits
  <2> QED
    BY <2>1, <2>2 DEF Val, Digits
<1>4. EOF \notin {"0", ".", ")", "(", "i", "n", "p", "e", "x", "+", "-"} /\ EOF \notin WordChars
  BY EndAssumption DEF Digits, WordChars
<1> QED
  BY <1>1, <1>2, <1>3, <1>4, ValIs, ValType

Radixes == {10, 16}

KeptLen(l, r) == IF l < Kept[r] THEN l ELSE Kept[r]

(* What the digits kept of those that count come to, and whether there is  *)
(* more behind them.                                                       *)
Worth(z, r) == Numeral(SubSeq(z, 1, KeptLen(Len(z), r)), r)
More(z, r) == \E i \in KeptLen(Len(z), r) + 1 .. Len(z) : z[i] # "0"

LEMMA KeptIs ==
  ASSUME NEW r \in Radixes
  PROVE  Kept[r] \in Nat \ {0}
BY RadixAssumption DEF Radixes

(* The exponents between which a number is neither infinite nor zero.      *)
LEMMA RangeIs ==
  ASSUME NEW r \in Radixes, D.size \in Precisions
  PROVE  Top[r] \in Int /\ Bottom[r] \in Int /\ Bottom[r] < Top[r]
<1>1. PICK z \in Precisions : z = D.size
  OBVIOUS
<1>2. r \in {10, 16}
  BY DEF Radixes
<1>3. Largest[z] \in [{10, 16} -> Int] /\ Smallest[z] \in [{10, 16} -> Int]
  BY RadixAssumption
<1>4. Largest[z][r] \in Int /\ Smallest[z][r] \in Int /\ Smallest[z][r] < Largest[z][r]
  BY <1>2, <1>3, RadixAssumption
<1> QED
  BY <1>1, <1>4 DEF Top, Bottom

LEMMA KeptNothing ==
  ASSUME NEW r \in Radixes
  PROVE  Worth(<<>>, r) = 0 /\ ~More(<<>>, r)
<1>1. Kept[r] \in Nat \ {0} /\ Len(<<>>) = 0
  BY KeptIs
<1>2. KeptLen(0, r) = 0
  BY <1>1 DEF KeptLen
<1>3. SubSeq(<<>>, 1, 0) = <<>>
  OBVIOUS
<1>4. Worth(<<>>, r) = Numeral(<<>>, r)
  BY <1>1, <1>2, <1>3 DEF Worth
<1>5. ~More(<<>>, r)
  BY <1>1, <1>2 DEF More
<1> QED
  BY <1>4, <1>5, NumeralEmpty

LEMMA KeptGrows ==
  ASSUME NEW S, NEW z \in Seq(S), NEW x \in S, NEW r \in Radixes
  PROVE  /\ Worth(Append(z, x), r) = IF Len(z) < Kept[r] THEN Worth(z, r) * r + Val(x) ELSE Worth(z, r)
         /\ More(Append(z, x), r) <=> More(z, r) \/ (~(Len(z) < Kept[r]) /\ x # "0")
<1> DEFINE y == Append(z, x)
<1>1. PICK kept \in Nat \ {0} : kept = Kept[r]
  BY KeptIs
<1>2. PICK l \in Nat : l = Len(z)
  OBVIOUS
<1>3. /\ y \in Seq(S) /\ Len(y) = l + 1 /\ y[l + 1] = x
      /\ \A i \in 1 .. l : y[i] = z[i]
  BY <1>2, AppendIs
<1> HIDE DEF y
<1>4. CASE l < kept
  <2>1. KeptLen(l, r) = l /\ KeptLen(l + 1, r) = l + 1
    BY <1>1, <1>4 DEF KeptLen
  <2>2. SubSeq(y, 1, l + 1) = y /\ SubSeq(z, 1, l) = z
    <3>1. SubSeq(y, 1, Len(y)) = y /\ SubSeq(z, 1, Len(z)) = z
      BY <1>3
    <3> QED
      BY <1>2, <1>3, <3>1
  <2>3. Numeral(y, r) = Numeral(z, r) * r + Val(x)
    BY NumeralAppended DEF y
  <2>4. Worth(y, r) = Worth(z, r) * r + Val(x)
    BY <1>2, <1>3, <2>1, <2>2, <2>3 DEF Worth
  <2>5. ~More(y, r) /\ ~More(z, r)
    BY <1>2, <1>3, <2>1 DEF More
  <2> QED
    BY <1>1, <1>2, <1>4, <2>4, <2>5 DEF y
<1>5. CASE ~(l < kept)
  <2>1. KeptLen(l, r) = kept /\ KeptLen(l + 1, r) = kept /\ kept <= l
    BY <1>1, <1>5 DEF KeptLen
  <2>2. SubSeq(y, 1, kept) = SubSeq(z, 1, kept)
    <3>1. /\ 1 \in Nat \ {0} /\ kept \in Nat /\ 1 <= kept + 1 /\ kept <= Len(y) /\ kept <= Len(z)
          /\ \A i \in 1 .. kept : y[i] = z[i]
      BY <1>2, <1>3, <2>1
    <3> QED
      BY <1>3, <3>1, SameSlice
  <2>3. Worth(y, r) = Worth(z, r)
    BY <1>2, <1>3, <2>1, <2>2 DEF Worth
  <2>4. More(y, r) <=> More(z, r) \/ x # "0"
    <3>1. \A i \in kept + 1 .. l + 1 : i \in kept + 1 .. l \/ i = l + 1
      OBVIOUS
    <3>2. l + 1 \in kept + 1 .. l + 1 /\ \A i \in kept + 1 .. l : i \in kept + 1 .. l + 1 /\ i \in 1 .. l
      BY <2>1
    <3> QED
      BY <1>2, <1>3, <2>1, <3>1, <3>2 DEF More
  <2> QED
    BY <1>1, <1>2, <1>5, <2>3, <2>4 DEF y
<1> QED
  BY <1>4, <1>5

LEMMA WorthIsNat ==
  ASSUME NEW S, NEW z \in Seq(S), NEW r \in Radixes, z # <<>> => Val(z[1]) # 0
  PROVE  Worth(z, r) \in Nat /\ (Worth(z, r) = 0 <=> z = <<>>)
<1>1. CASE z = <<>>
  <2>1. Worth(z, r) = 0
    BY <1>1, KeptNothing
  <2> QED
    BY <1>1, <2>1
<1>2. CASE z # <<>>
  <2>1. PICK kept \in Nat \ {0} : kept = Kept[r]
    BY KeptIs
  <2>2. PICK n : n = KeptLen(Len(z), r)
    OBVIOUS
  <2>3. n \in 1 .. Len(z) /\ n \in 0 .. Len(z)
    <3>1. Len(z) \in Nat \ {0}
      BY <1>2
    <3> QED
      BY <2>1, <2>2, <3>1 DEF KeptLen
  <2>4. PICK ds : ds = SubSeq(z, 1, n)
    OBVIOUS
  <2>5. ds \in Seq(S) /\ Len(ds) = n /\ \A i \in 1 .. n : ds[i] = z[i]
    BY <2>3, <2>4, PieceIs
  <2>6. Len(ds) # 0 /\ Val(ds[1]) # 0
    BY <1>2, <2>3, <2>5
  <2>7. r \in Nat \ {0}
    BY DEF Radixes
  <2>8. Numeral(ds, r) \in Nat /\ Numeral(ds, r) # 0
    BY <2>5, <2>6, <2>7, NumeralIsNat
  <2>9. Worth(z, r) = Numeral(ds, r)
    BY <2>2, <2>4 DEF Worth
  <2> QED
    BY <1>2, <2>8, <2>9
<1> QED
  BY <1>1, <1>2

(* ---- what is a number, by positions ----------------------------------- *)

(* What may stand in a piece of a field, or be added to it.                *)
NumChars == Char \cup {"0", ")"}

Letter(u) == IF IsHex(u) THEN "p" ELSE "e"
DigitsStart(u) == IF IsHex(u) THEN 3 ELSE 1
RadixOf(u) == IF IsHex(u) THEN 16 ELSE 10

Agree(u, g, n) == n <= Len(u) /\ n <= Len(g) /\ \A i \in 1 .. n : u[i] = g[i]

LEMMA SplitType ==
  ASSUME NEW S, NEW u \in Seq(S)
  PROVE  /\ Split(u) \in 1 .. Len(u) + 1
         /\ Split(u) <= Len(u) => u[Split(u)] = Letter(u)
         /\ \A i \in 1 .. Split(u) - 1 : u[i] # Letter(u)
<1> DEFINE I == {i \in DOMAIN u : u[i] = Letter(u)}
<1>1. I \subseteq Int /\ I \subseteq Nat /\ DOMAIN u = 1 .. Len(u) /\ Len(u) \in Nat
  OBVIOUS
<1>2. Split(u) = IF I = {} THEN Len(u) + 1 ELSE Min(I)
  BY DEF Split, Letter
<1>3. CASE I = {}
  BY <1>1, <1>2, <1>3
<1>4. CASE I # {}
  <2>1. PICK p \in I : \A i \in I : p <= i
    BY <1>1, <1>4, LeastNatural
  <2>2. Min(I) = p
    <3> HIDE DEF I
    <3> QED
      BY <1>1, <2>1, SmallestOfSet
  <2>3. Split(u) = p
    BY <1>2, <1>4, <2>2
  <2> QED
    BY <1>1, <2>1, <2>3
<1> QED
  BY <1>3, <1>4

LEMMA SplitIs ==
  ASSUME NEW S, NEW u \in Seq(S), NEW p \in DigitsStart(u) .. Len(u) + 1,
         \A i \in DigitsStart(u) .. p - 1 : u[i] # Letter(u),
         p <= Len(u) => u[p] = Letter(u)
  PROVE  Split(u) = p
<1>1. Split(u) \in 1 .. Len(u) + 1 /\ (Split(u) <= Len(u) => u[Split(u)] = Letter(u))
      /\ \A i \in 1 .. Split(u) - 1 : u[i] # Letter(u)
  BY SplitType
<1>2. \A i \in 1 .. DigitsStart(u) - 1 : u[i] # Letter(u)
  BY DEF DigitsStart, Letter, IsHex
<1>3. Len(u) \in Nat /\ DigitsStart(u) \in {1, 3}
  BY DEF DigitsStart
<1>4. ASSUME Split(u) < p PROVE FALSE
  <2>1. Split(u) \in 1 .. DigitsStart(u) - 1 \/ Split(u) \in DigitsStart(u) .. p - 1
    BY <1>1, <1>3, <1>4
  <2>2. u[Split(u)] # Letter(u) /\ Split(u) <= Len(u)
    BY <1>1, <1>2, <1>3, <1>4, <2>1
  <2> QED
    BY <1>1, <2>2
<1>5. ASSUME p < Split(u) PROVE FALSE
  <2>1. p \in 1 .. Split(u) - 1 /\ p <= Len(u)
    BY <1>1, <1>3, <1>5
  <2> QED
    BY <1>1, <2>1
<1> QED
  BY <1>1, <1>3, <1>4, <1>5

(* The digits in front of the exponent, and those of the exponent.         *)
LEMMA NumberParts ==
  ASSUME NEW S, NEW u \in Seq(S), NEW p, Split(u) = p, NEW m, m = SubSeq(u, DigitsStart(u), p - 1)
  PROVE  /\ Mantissa(u) = m /\ Exponent(u) = SubSeq(u, p + 1, Len(u))
         /\ IsNumber(u) <=>
               /\ RemoveFirst(m, ".") # <<>>
               /\ \A i \in DOMAIN RemoveFirst(m, ".") : Val(RemoveFirst(m, ".")[i]) < RadixOf(u)
               /\ p <= Len(u) =>
                     /\ Unsigned(Exponent(u)) # <<>>
                     /\ \A i \in DOMAIN Unsigned(Exponent(u)) : Val(Unsigned(Exponent(u))[i]) < 10
<1>1. Mantissa(u) = m /\ Exponent(u) = SubSeq(u, p + 1, Len(u))
  BY DEF Mantissa, DigitsStart, Exponent
<1>2. PICK a : a = RemoveFirst(m, ".")
  OBVIOUS
<1>3. PICK e : e = Unsigned(Exponent(u))
  OBVIOUS
<1>4. IsNumber(u) <=>
        /\ a # <<>> /\ IF IsHex(u) THEN All(a, Hex) ELSE All(a, Dec)
        /\ p <= Len(u) => e # <<>> /\ All(e, Dec)
  BY <1>1, <1>2, <1>3 DEF IsNumber
<1>5. (IF IsHex(u) THEN All(a, Hex) ELSE All(a, Dec)) <=> \A i \in DOMAIN a : Val(a[i]) < RadixOf(u)
  BY DEF All, Hex, Dec, RadixOf
<1>6. All(e, Dec) <=> \A i \in DOMAIN e : Val(e[i]) < 10
  BY DEF All, Dec
<1> QED
  BY <1>1, <1>2, <1>3, <1>4, <1>5, <1>6

(* The digits of g before the j-th character, without the point.           *)
Foregoing(g, j) == SubSeq(g, DigitsStart(g), j - 1)
DigitsBefore(g, j) == RemoveFirst(Foregoing(g, j), ".")

(* Up to there, g is digits and a point at most.                           *)
FrontOK(g, j) ==
    /\ g \in Seq(Char) /\ j \in DigitsStart(g) .. Len(g) + 1
    /\ \A i \in DOMAIN DigitsBefore(g, j) : Val(DigitsBefore(g, j)[i]) < RadixOf(g)

LEMMA FrontIs ==
  ASSUME NEW g, NEW j, FrontOK(g, j)
  PROVE  /\ g \in Seq(Char) /\ Len(g) \in Nat /\ j \in Nat \ {0} /\ j <= Len(g) + 1
         /\ DigitsStart(g) \in {1, 3} /\ DigitsStart(g) <= j /\ RadixOf(g) \in Radixes
         /\ Foregoing(g, j) \in Seq(Char) /\ Len(Foregoing(g, j)) = j - DigitsStart(g)
         /\ \A i \in 1 .. j - DigitsStart(g) : Foregoing(g, j)[i] = g[DigitsStart(g) + i - 1]
         /\ DigitsBefore(g, j) \in Seq(Char) /\ Len(DigitsBefore(g, j)) <= Len(Foregoing(g, j))
<1>1. g \in Seq(Char) /\ j \in DigitsStart(g) .. Len(g) + 1 /\ DigitsStart(g) \in {1, 3}
      /\ RadixOf(g) \in Radixes /\ Len(g) \in Nat
  BY DEF FrontOK, DigitsStart, RadixOf, Radixes
<1>2. PICK a \in Nat \ {0} : a = DigitsStart(g)
  BY <1>1
<1>3. PICK b \in Nat : b = j - 1
  BY <1>1
<1>4. a <= b + 1 /\ b <= Len(g) /\ b - a + 1 = j - a
  BY <1>1, <1>2, <1>3
<1>5. PICK m : m = SubSeq(g, a, b)
  OBVIOUS
<1>6. m \in Seq(Char) /\ Len(m) = b - a + 1 /\ \A i \in 1 .. b - a + 1 : m[i] = g[a + i - 1]
  BY <1>1, <1>4, <1>5, SliceIs
<1>7. m = Foregoing(g, j)
  BY <1>2, <1>3, <1>5 DEF Foregoing
<1>8. RemoveFirst(m, ".") \in Seq(Char) /\ Len(RemoveFirst(m, ".")) <= Len(m)
  BY <1>6, WithoutPointType
<1> QED
  BY <1>1, <1>2, <1>4, <1>6, <1>7, <1>8, SMTT(30) DEF DigitsBefore

(* Every character of it is the point or a digit, and so no letter.        *)
LEMMA FrontChars ==
  ASSUME NEW g, NEW j, FrontOK(g, j), NEW i \in DigitsStart(g) .. j - 1
  PROVE  /\ g[i] = "." \/ Val(g[i]) < RadixOf(g)
         /\ g[i] # Letter(g)
<1>1. PICK m : m = Foregoing(g, j)
  OBVIOUS
<1>2. PICK d : d = DigitsBefore(g, j)
  OBVIOUS
<1>3. PICK a \in {1, 3} : a = DigitsStart(g)
  BY FrontIs
<1>4. /\ m \in Seq(Char) /\ Len(m) = j - a /\ j \in Nat
      /\ \A h \in 1 .. j - a : m[h] = g[a + h - 1]
      /\ d \in Seq(Char) /\ d = RemoveFirst(m, ".")
      /\ \A h \in 1 .. Len(d) : Val(d[h]) < RadixOf(g)
  <2>1. /\ m \in Seq(Char) /\ Len(m) = j - a /\ j \in Nat
        /\ \A h \in 1 .. j - a : m[h] = g[a + h - 1]
        /\ d \in Seq(Char)
    BY <1>1, <1>2, <1>3, FrontIs, SMTT(30)
  <2>2. d = RemoveFirst(m, ".")
    BY <1>1, <1>2 DEF DigitsBefore
  <2>3. \A h \in DOMAIN d : Val(d[h]) < RadixOf(g)
    BY <1>2 DEF FrontOK
  <2>4. DOMAIN d = 1 .. Len(d)
    BY <2>1
  <2> QED
    BY <2>1, <2>2, <2>3, <2>4
<1>5. i - a + 1 \in 1 .. j - a /\ a + (i - a + 1) - 1 = i /\ i - a + 1 \in 1 .. Len(m)
  BY <1>3, <1>4
<1>6. m[i - a + 1] = g[i]
  BY <1>4, <1>5
<1>7. g[i] = "." \/ Val(g[i]) < RadixOf(g)
  <2> SUFFICES ASSUME g[i] # "." PROVE Val(g[i]) < RadixOf(g)
    OBVIOUS
  <2>1. PICK n \in 1 .. Len(m) : n = i - a + 1
    BY <1>5
  <2>2. m[n] # "."
    BY <1>6, <2>1
  <2>3. \E h \in 1 .. Len(RemoveFirst(m, ".")) : RemoveFirst(m, ".")[h] = m[n]
    BY <1>4, <2>2, OthersRemain
  <2> QED
    BY <1>4, <1>6, <2>1, <2>3
<1> QED
  BY <1>7, DigitValues DEF RadixOf, Letter

(* A sequence that agrees with g as far as the digits go.                  *)
LEMMA NumberWith ==
  ASSUME NEW g, NEW p, FrontOK(g, p), NEW u \in Seq(NumChars), Agree(u, g, p - 1),
         IsHex(u) <=> IsHex(g), p <= Len(u) => u[p] = Letter(g)
  PROVE  /\ Split(u) = p /\ Mantissa(u) = Foregoing(g, p) /\ Exponent(u) = SubSeq(u, p + 1, Len(u))
         /\ IsNumber(u) <=>
               /\ DigitsBefore(g, p) # <<>>
               /\ p <= Len(u) =>
                     /\ Unsigned(Exponent(u)) # <<>>
                     /\ \A i \in DOMAIN Unsigned(Exponent(u)) : Val(Unsigned(Exponent(u))[i]) < 10
<1>1. /\ g \in Seq(Char) /\ Len(g) \in Nat /\ p \in Nat \ {0} /\ p <= Len(g) + 1
      /\ DigitsStart(g) \in {1, 3} /\ DigitsStart(g) <= p
  BY FrontIs
<1>2. DigitsStart(u) = DigitsStart(g) /\ Letter(u) = Letter(g) /\ RadixOf(u) = RadixOf(g)
  BY DEF DigitsStart, Letter, RadixOf
<1>3. Len(u) \in Nat /\ p - 1 <= Len(u) /\ \A i \in 1 .. p - 1 : u[i] = g[i]
  BY DEF Agree
<1>4. Split(u) = p
  <2>1. \A i \in DigitsStart(u) .. p - 1 : u[i] # Letter(u)
    BY <1>1, <1>2, <1>3, FrontChars
  <2>2. p \in DigitsStart(u) .. Len(u) + 1
    BY <1>1, <1>2, <1>3
  <2> QED
    BY <1>2, <2>1, <2>2, SplitIs
<1>5. PICK a \in Nat \ {0} : a = DigitsStart(g)
  BY <1>1
<1>6. PICK b \in Nat : b = p - 1
  BY <1>1
<1>7. SubSeq(u, a, b) = SubSeq(g, a, b)
  <2>1. a <= b + 1 /\ b <= Len(u) /\ b <= Len(g) /\ \A i \in a .. b : u[i] = g[i]
    BY <1>1, <1>3, <1>5, <1>6
  <2> QED
    BY <1>1, <2>1, SameSlice
<1>8. PICK m : m = SubSeq(u, DigitsStart(u), p - 1)
  OBVIOUS
<1>9. m = Foregoing(g, p) /\ RemoveFirst(m, ".") = DigitsBefore(g, p)
  BY <1>2, <1>5, <1>6, <1>7, <1>8 DEF Foregoing, DigitsBefore
<1>10. \A i \in DOMAIN RemoveFirst(m, ".") : Val(RemoveFirst(m, ".")[i]) < RadixOf(u)
  BY <1>2, <1>9 DEF FrontOK
<1>11. /\ Mantissa(u) = m /\ Exponent(u) = SubSeq(u, p + 1, Len(u))
       /\ IsNumber(u) <=>
               /\ RemoveFirst(m, ".") # <<>>
               /\ \A i \in DOMAIN RemoveFirst(m, ".") : Val(RemoveFirst(m, ".")[i]) < RadixOf(u)
               /\ p <= Len(u) =>
                     /\ Unsigned(Exponent(u)) # <<>>
                     /\ \A i \in DOMAIN Unsigned(Exponent(u)) : Val(Unsigned(Exponent(u))[i]) < 10
  BY <1>4, <1>8, NumberParts
<1> QED
  BY <1>4, <1>9, <1>10, <1>11

(* ---- the words --------------------------------------------------------- *)

NanParen == Append(Word.nan, "(")

WordLetters == {"i", "n", "f", "t", "y", "a", "("}

LEMMA WordsAre ==
  /\ Word.infinity \in Seq(WordLetters) /\ Len(Word.infinity) = 8
  /\ Word.infinity[1] = "i" /\ Word.infinity[2] = "n" /\ Word.infinity[3] = "f" /\ Word.infinity[4] = "i"
  /\ Word.infinity[5] = "n" /\ Word.infinity[6] = "i" /\ Word.infinity[7] = "t" /\ Word.infinity[8] = "y"
  /\ Word.nan \in Seq(WordLetters) /\ Len(Word.nan) = 3
  /\ Word.nan[1] = "n" /\ Word.nan[2] = "a" /\ Word.nan[3] = "n"
  /\ NanParen \in Seq(WordLetters) /\ Len(NanParen) = 4
  /\ NanParen[1] = "n" /\ NanParen[2] = "a" /\ NanParen[3] = "n" /\ NanParen[4] = "("
<1>1. /\ Word.infinity \in Seq(WordLetters) /\ Len(Word.infinity) = 8
      /\ Word.infinity[1] = "i" /\ Word.infinity[2] = "n" /\ Word.infinity[3] = "f" /\ Word.infinity[4] = "i"
      /\ Word.infinity[5] = "n" /\ Word.infinity[6] = "i" /\ Word.infinity[7] = "t" /\ Word.infinity[8] = "y"
  BY DEF Word, WordLetters
<1>2. /\ Word.nan \in Seq(WordLetters) /\ Len(Word.nan) = 3
      /\ Word.nan[1] = "n" /\ Word.nan[2] = "a" /\ Word.nan[3] = "n"
  BY DEF Word, WordLetters
<1>3. "(" \in WordLetters
  BY DEF WordLetters
<1>4. PICK n : n = Word.nan
  OBVIOUS
<1>5. /\ Append(n, "(") \in Seq(WordLetters) /\ Len(Append(n, "(")) = 4 /\ Append(n, "(")[4] = "("
      /\ \A i \in 1 .. 3 : Append(n, "(")[i] = n[i]
  <2>1. PICK x : x = "("
    OBVIOUS
  <2>2. n \in Seq(WordLetters) /\ Len(n) = 3 /\ 3 + 1 = 4 /\ x \in WordLetters
    BY <1>2, <1>3, <1>4, <2>1
  <2>3. PICK W : W = WordLetters
    OBVIOUS
  <2>4. n \in Seq(W) /\ x \in W
    BY <2>2, <2>3
  <2>5. Append(n, x) \in Seq(W) /\ Len(Append(n, x)) = Len(n) + 1
        /\ Append(n, x)[Len(n) + 1] = x /\ \A i \in 1 .. Len(n) : Append(n, x)[i] = n[i]
    BY <2>4, AppendIs
  <2> QED
    BY <2>1, <2>2, <2>3, <2>5
<1>6. NanParen = Append(n, "(")
  BY <1>4 DEF NanParen
<1> QED
  BY <1>1, <1>2, <1>4, <1>5, <1>6

LEMMA PrefixIs ==
  ASSUME NEW S, NEW u \in Seq(S), NEW R, NEW w \in Seq(R)
  PROVE  IsPrefix(u, w) <=> Agree(u, w, Len(u))
<1>1. Len(u) \in Nat /\ Len(w) \in Nat
  OBVIOUS
<1>2. CASE Len(u) <= Len(w)
  <2>1. PICK n \in Nat : n = Len(u)
    BY <1>1
  <2>2. /\ SubSeq(u, 1, n) \in Seq(S) /\ Len(SubSeq(u, 1, n)) = n /\ \A i \in 1 .. n : SubSeq(u, 1, n)[i] = u[i]
        /\ SubSeq(w, 1, n) \in Seq(R) /\ Len(SubSeq(w, 1, n)) = n /\ \A i \in 1 .. n : SubSeq(w, 1, n)[i] = w[i]
    <3>1. n \in 0 .. Len(u) /\ n \in 0 .. Len(w)
      BY <1>1, <1>2, <2>1
    <3> QED
      BY <3>1, PieceIs
  <2>3. SubSeq(u, 1, n) = SubSeq(w, 1, n) <=> \A i \in 1 .. n : u[i] = w[i]
    <3> DEFINE x == SubSeq(u, 1, n)
               y == SubSeq(w, 1, n)
    <3>1. /\ x \in Seq(S) /\ Len(x) = n /\ \A i \in 1 .. n : x[i] = u[i]
          /\ y \in Seq(R) /\ Len(y) = n /\ \A i \in 1 .. n : y[i] = w[i]
      BY <2>2
    <3> HIDE DEF x, y
    <3>2. ASSUME \A i \in 1 .. n : u[i] = w[i] PROVE x = y
      <4>1. \A i \in 1 .. Len(x) : x[i] = y[i]
        BY <3>1, <3>2
      <4> QED
        BY <3>1, <4>1, SameSeq
    <3>3. ASSUME x = y, NEW i \in 1 .. n PROVE u[i] = w[i]
      BY <3>1, <3>3
    <3> QED
      BY <3>2, <3>3 DEF x, y
  <2> QED
    BY <1>2, <2>1, <2>3 DEF IsPrefix, Agree
<1>3. CASE ~(Len(u) <= Len(w))
  BY <1>3 DEF IsPrefix, Agree
<1> QED
  BY <1>2, <1>3

LEMMA SliceEquals ==
  ASSUME NEW S, NEW u \in Seq(S), NEW R, NEW w \in Seq(R), Len(w) <= Len(u)
  PROVE  SubSeq(u, 1, Len(w)) = w <=> Agree(u, w, Len(w))
<1>1. Len(u) \in Nat /\ Len(w) \in Nat
  OBVIOUS
<1>2. PICK n \in Nat : n = Len(w)
  BY <1>1
<1>3. PICK x : x = SubSeq(u, 1, n)
  OBVIOUS
<1>4. x \in Seq(S) /\ Len(x) = n /\ \A i \in 1 .. n : x[i] = u[i]
  <2>1. n \in 0 .. Len(u)
    BY <1>1, <1>2
  <2> QED
    BY <1>3, <2>1, PieceIs
<1>5. ASSUME \A i \in 1 .. n : u[i] = w[i] PROVE x = w
  <2>1. Len(x) = Len(w) /\ \A i \in 1 .. Len(x) : x[i] = w[i]
    BY <1>2, <1>4, <1>5
  <2> QED
    BY <1>4, <2>1, SameSeq
<1>6. ASSUME x = w, NEW i \in 1 .. n PROVE u[i] = w[i]
  BY <1>4, <1>6
<1> QED
  BY <1>2, <1>3, <1>5, <1>6 DEF Agree

LEMMA WordEquals ==
  ASSUME NEW S, NEW u \in Seq(S), NEW R, NEW w \in Seq(R)
  PROVE  u = w <=> Len(u) = Len(w) /\ Agree(u, w, Len(w))
<1>1. ASSUME u = w PROVE Len(u) = Len(w) /\ Agree(u, w, Len(w))
  BY <1>1 DEF Agree
<1>2. ASSUME Len(u) = Len(w), Agree(u, w, Len(w)) PROVE u = w
  <2>1. \A i \in 1 .. Len(u) : u[i] = w[i]
    BY <1>2 DEF Agree
  <2> QED
    BY <1>2, <2>1, SameSeq
<1> QED
  BY <1>1, <1>2

InParensOf(u) ==
    Len(u) >= 5 /\ Agree(u, NanParen, 4) /\ u[Len(u)] = ")" /\ \A i \in 5 .. Len(u) - 1 : u[i] \in WordChars

LEMMA WordIs ==
  ASSUME NEW S, NEW u \in Seq(S)
  PROVE  IsWord(u) <=> \/ Len(u) = 3 /\ Agree(u, Word.nan, 3)
                       \/ Len(u) = 3 /\ Agree(u, Word.infinity, 3)
                       \/ Len(u) = 8 /\ Agree(u, Word.infinity, 8)
                       \/ InParensOf(u)
<1>1. u = Word.nan <=> Len(u) = 3 /\ Agree(u, Word.nan, 3)
  <2>1. PICK w : w = Word.nan
    OBVIOUS
  <2>2. w \in Seq(WordLetters) /\ Len(w) = 3
    BY <2>1, WordsAre
  <2>3. u = w <=> Len(u) = Len(w) /\ Agree(u, w, Len(w))
    BY <2>2, WordEquals
  <2> QED
    BY <2>1, <2>2, <2>3
<1>2. PICK w : w = Word.infinity
  OBVIOUS
<1>3. w \in Seq(WordLetters) /\ Len(w) = 8
  BY <1>2, WordsAre
<1>4. u = w <=> Len(u) = 8 /\ Agree(u, w, 8)
  <2>1. u = w <=> Len(u) = Len(w) /\ Agree(u, w, Len(w))
    BY <1>3, WordEquals
  <2> QED
    BY <1>3, <2>1
<1>5. u = SubSeq(w, 1, 3) <=> Len(u) = 3 /\ Agree(u, w, 3)
  <2>1. PICK x : x = SubSeq(w, 1, 3)
    OBVIOUS
  <2>2. x \in Seq(WordLetters) /\ Len(x) = 3 /\ \A i \in 1 .. 3 : x[i] = w[i]
    <3>1. 3 \in 0 .. Len(w)
      BY <1>3
    <3> QED
      BY <1>3, <2>1, <3>1, PieceIs
  <2>3. u = x <=> Len(u) = Len(x) /\ Agree(u, x, Len(x))
    BY <2>2, WordEquals
  <2>4. Agree(u, x, 3) <=> Agree(u, w, 3)
    BY <1>3, <2>2 DEF Agree
  <2> QED
    BY <2>1, <2>2, <2>3, <2>4
<1>6. ASSUME Len(u) >= 5
      PROVE  /\ SubSeq(u, 1, 4) = NanParen <=> Agree(u, NanParen, 4)
             /\ (\A i \in DOMAIN SubSeq(u, 5, Len(u) - 1) : SubSeq(u, 5, Len(u) - 1)[i] \in WordChars)
                  <=> \A i \in 5 .. Len(u) - 1 : u[i] \in WordChars
  <2>1. /\ SubSeq(u, 1, 4) = NanParen <=> Agree(u, NanParen, 4)
        /\ DOMAIN SubSeq(u, 5, Len(u) - 1) = 1 .. Len(u) - 5
        /\ \A i \in 1 .. Len(u) - 5 : SubSeq(u, 5, Len(u) - 1)[i] = u[i + 4]
    <3>1. PICK v : v = NanParen
      OBVIOUS
    <3>2. v \in Seq(WordLetters) /\ Len(v) = 4
      BY <3>1, WordsAre
    <3>8. Len(v) <= Len(u)
      BY <1>6, <3>2
    <3>3. SubSeq(u, 1, Len(v)) = v <=> Agree(u, v, Len(v))
      BY <3>2, <3>8, SliceEquals
    <3>4. PICK a \in Nat \ {0} : a = 5
      OBVIOUS
    <3>5. PICK b \in Nat : b = Len(u) - 1
      BY <1>6
    <3>6. a <= b + 1 /\ b <= Len(u) /\ b - a + 1 = Len(u) - 5 /\ \A i \in 1 .. Len(u) - 5 : a + i - 1 = i + 4
      BY <1>6, <3>4, <3>5
    <3>7. DOMAIN SubSeq(u, a, b) = 1 .. b - a + 1 /\ \A i \in 1 .. b - a + 1 : SubSeq(u, a, b)[i] = u[a + i - 1]
      BY <3>6, SliceIs
    <3> QED
      BY <3>1, <3>2, <3>3, <3>4, <3>5, <3>6, <3>7
  <2>2. (\A i \in 1 .. Len(u) - 5 : u[i + 4] \in WordChars) <=> \A i \in 5 .. Len(u) - 1 : u[i] \in WordChars
    <3>1. Len(u) \in Nat /\ (\A i \in 1 .. Len(u) - 5 : i + 4 \in 5 .. Len(u) - 1)
          /\ \A i \in 5 .. Len(u) - 1 : i - 4 \in 1 .. Len(u) - 5 /\ (i - 4) + 4 = i
      BY <1>6
    <3> QED
      BY <3>1
  <2> QED
    BY <2>1, <2>2
<1> QED
  BY <1>1, <1>2, <1>4, <1>5, <1>6 DEF IsWord, All, InParensOf, NanParen

(* ---- what is taken for a number --------------------------------------- *)

Float(u) == IsWord(u) \/ IsNumber(u)

Beginning(u) ==
    \/ Float(u) \/ Float(Append(u, "0")) \/ Float(Append(u, ")"))
    \/ IsPrefix(u, Word.infinity) \/ IsPrefix(u, NanParen)

(* No number and no word goes over the j-th character.                     *)
DeadAt(g, j) ==
    \A u \in Seq(NumChars) :
        Agree(u, g, j) => ~Float(u) /\ ~IsPrefix(u, Word.infinity) /\ ~IsPrefix(u, NanParen)

LEMMA PieceOf ==
  ASSUME NEW g \in Seq(Char), NEW n \in 0 .. Len(g), NEW x \in {"0", ")"}
  PROVE  LET u == SubSeq(g, 1, n)
         IN /\ u \in Seq(NumChars) /\ Len(u) = n /\ Agree(u, g, n)
            /\ Append(u, x) \in Seq(NumChars) /\ Len(Append(u, x)) = n + 1 /\ Agree(Append(u, x), g, n)
            /\ Append(u, x)[n + 1] = x
<1>1. PICK u : u = SubSeq(g, 1, n)
  OBVIOUS
<1>2. u \in Seq(Char) /\ Len(u) = n /\ \A i \in 1 .. n : u[i] = g[i]
  BY <1>1, PieceIs
<1>3. u \in Seq(NumChars) /\ x \in NumChars
  BY <1>2 DEF NumChars
<1>4. PICK W : W = NumChars
  OBVIOUS
<1>5. u \in Seq(W) /\ x \in W
  BY <1>3, <1>4
<1>6. PICK v : v = Append(u, x)
  OBVIOUS
<1>7. v \in Seq(W) /\ Len(v) = Len(u) + 1 /\ v[Len(u) + 1] = x /\ \A i \in 1 .. Len(u) : v[i] = u[i]
  <2>1. Append(u, x) \in Seq(W) /\ Len(Append(u, x)) = Len(u) + 1
        /\ Append(u, x)[Len(u) + 1] = x /\ \A i \in 1 .. Len(u) : Append(u, x)[i] = u[i]
    BY <1>5, AppendIs
  <2> QED
    BY <1>6, <2>1
<1>8. Agree(u, g, n) /\ Agree(v, g, n) /\ Len(v) = n + 1 /\ v[n + 1] = x
  BY <1>2, <1>7 DEF Agree
<1> QED
  BY <1>1, <1>2, <1>3, <1>4, <1>6, <1>7, <1>8

LEMMA DeadIsDead ==
  ASSUME NEW g \in Seq(Char), NEW j \in 1 .. Len(g), DeadAt(g, j), NEW n \in j .. Len(g)
  PROVE  ~Beginning(SubSeq(g, 1, n))
<1>1. PICK u : u = SubSeq(g, 1, n)
  OBVIOUS
<1>2. n \in 0 .. Len(g)
  OBVIOUS
<1>3. /\ u \in Seq(NumChars) /\ Agree(u, g, n)
      /\ \A x \in {"0", ")"} : Append(u, x) \in Seq(NumChars) /\ Agree(Append(u, x), g, n)
  BY <1>1, <1>2, PieceOf
<1>4. \A v : Agree(v, g, n) => Agree(v, g, j)
  BY DEF Agree
<1>5. ~Float(u) /\ ~IsPrefix(u, Word.infinity) /\ ~IsPrefix(u, NanParen)
  BY <1>3, <1>4 DEF DeadAt
<1>6. \A x \in {"0", ")"} : ~Float(Append(u, x))
  BY <1>3, <1>4 DEF DeadAt
<1> QED
  BY <1>1, <1>5, <1>6 DEF Beginning

LEMMA PieceUnsigned ==
  ASSUME NEW f \in Seq(Char), NEW n \in 0 .. Len(Unsigned(f))
  PROVE  LET s == SubSeq(f, 1, SignLen(f) + n)
             u == SubSeq(Unsigned(f), 1, n)
         IN /\ s \in Seq(Char) /\ Len(s) = SignLen(f) + n /\ Unsigned(s) = u
            /\ \A x \in {"0", ")"} : Unsigned(s \o <<x>>) = Append(u, x)
<1>1. PICK o \in {0, 1} : o = SignLen(f)
  BY DEF SignLen
<1>2. PICK g : g = Unsigned(f)
  OBVIOUS
<1>3. /\ g \in Seq(Char) /\ Len(g) = Len(f) - o /\ o <= Len(f) /\ Len(f) \in Nat
      /\ \A i \in 1 .. Len(f) - o : g[i] = f[o + i]
  BY <1>1, <1>2, UnsignedIs
<1>4. PICK l \in 0 .. Len(f) : l = o + n
  BY <1>2, <1>3
<1>5. PICK s : s = SubSeq(f, 1, l)
  OBVIOUS
<1>6. PICK u : u = SubSeq(g, 1, n)
  OBVIOUS
<1>7. s \in Seq(Char) /\ Len(s) = l /\ \A i \in 1 .. l : s[i] = f[i]
  BY <1>5, PieceIs
<1>8. u \in Seq(Char) /\ Len(u) = n /\ \A i \in 1 .. n : u[i] = g[i]
  <2>1. n \in 0 .. Len(g)
    BY <1>2
  <2> QED
    BY <1>3, <1>6, <2>1, PieceIs
<1>9. Unsigned(s) = u
  <2>1. SignLen(s) = o
    BY <1>1, <1>3, <1>4, <1>7 DEF SignLen
  <2>2. /\ Unsigned(s) \in Seq(Char) /\ Len(Unsigned(s)) = Len(s) - o
        /\ \A i \in 1 .. Len(s) - o : Unsigned(s)[i] = s[o + i]
    BY <1>7, <2>1, UnsignedIs
  <2>3. PICK v : v = Unsigned(s)
    OBVIOUS
  <2>4. /\ v \in Seq(Char) /\ Len(v) = n /\ \A i \in 1 .. n : v[i] = s[o + i]
    BY <1>4, <1>7, <2>2, <2>3
  <2>5. ASSUME NEW i \in 1 .. n PROVE v[i] = u[i]
    <3>1. o + i \in 1 .. l /\ i \in 1 .. Len(f) - o
      BY <1>2, <1>3, <1>4
    <3> QED
      BY <1>3, <1>7, <1>8, <2>4, <3>1
  <2>6. v = u
    BY <1>8, <2>4, <2>5, SameSeq
  <2> QED
    BY <2>3, <2>6
<1>10. ASSUME NEW x \in {"0", ")"} PROVE Unsigned(s \o <<x>>) = Append(u, x)
  <2>1. PICK h : h = s \o <<x>>
    OBVIOUS
  <2>2. /\ h \in Seq(Char \cup {x}) /\ Len(h) = l + 1 /\ h[l + 1] = x /\ \A i \in 1 .. l : h[i] = f[i]
    BY <1>5, <2>1, GrownIs
  <2>3. SignLen(h) = o
    <3>1. h # <<>> /\ x \notin {"+", "-"}
      BY <1>4, <2>2
    <3>2. CASE l = 0
      BY <1>1, <1>3, <1>4, <2>2, <3>1, <3>2 DEF SignLen
    <3>3. CASE l # 0
      <4>1. h[1] = f[1] /\ f # <<>>
        BY <1>4, <2>2, <3>3
      <4> QED
        BY <1>1, <3>1, <4>1 DEF SignLen
    <3> QED
      BY <3>2, <3>3
  <2>4. PICK v : v = Unsigned(h)
    OBVIOUS
  <2>5. v \in Seq(Char \cup {x}) /\ Len(v) = n + 1 /\ \A i \in 1 .. n + 1 : v[i] = h[o + i]
    <3>1. /\ v \in Seq(Char \cup {x}) /\ Len(v) = Len(h) - o /\ \A i \in 1 .. Len(h) - o : v[i] = h[o + i]
      BY <2>2, <2>3, <2>4, UnsignedIs
    <3> QED
      BY <1>4, <2>2, <3>1
  <2>6. PICK w : w = Append(u, x)
    OBVIOUS
  <2>7. w \in Seq(Char \cup {x}) /\ Len(w) = n + 1 /\ w[n + 1] = x /\ \A i \in 1 .. n : w[i] = u[i]
    <3>1. /\ Append(u, x) \in Seq(Char \cup {x}) /\ Len(Append(u, x)) = Len(u) + 1
          /\ Append(u, x)[Len(u) + 1] = x /\ \A i \in 1 .. Len(u) : Append(u, x)[i] = u[i]
      BY <1>8, AppendIs
    <3> QED
      BY <1>8, <2>6, <3>1
  <2>8. ASSUME NEW i \in 1 .. n + 1 PROVE v[i] = w[i]
    <3>1. CASE i <= n
      <4>1. i \in 1 .. n /\ o + i \in 1 .. l /\ i \in 1 .. Len(f) - o
        BY <1>2, <1>3, <1>4, <3>1
      <4> QED
        BY <1>3, <1>8, <2>2, <2>5, <2>7, <4>1, SMTT(30)
    <3>2. CASE ~(i <= n)
      <4>1. i = n + 1 /\ o + i = l + 1
        BY <1>4, <3>2
      <4> QED
        BY <2>2, <2>5, <2>7, <4>1
    <3> QED
      BY <3>1, <3>2
  <2>9. v = w
    BY <2>5, <2>7, <2>8, SameSeq
  <2> QED
    BY <2>1, <2>4, <2>6, <2>9
<1> QED
  BY <1>1, <1>2, <1>4, <1>5, <1>6, <1>7, <1>9, <1>10

LEMMA BeginsFloat ==
  ASSUME NEW f \in Seq(Char), NEW n \in 0 .. Len(Unsigned(f))
  PROVE  MayBecomeFloat(SubSeq(f, 1, SignLen(f) + n)) <=> Beginning(SubSeq(Unsigned(f), 1, n))
<1>1. PICK s : s = SubSeq(f, 1, SignLen(f) + n)
  OBVIOUS
<1>2. PICK u : u = SubSeq(Unsigned(f), 1, n)
  OBVIOUS
<1>3. s \in Seq(Char) /\ Unsigned(s) = u /\ \A x \in {"0", ")"} : Unsigned(s \o <<x>>) = Append(u, x)
  BY <1>1, <1>2, PieceUnsigned
<1>4. s \o <<>> = s
  BY <1>3, ConcatEmptySeq
<1>5. IsFloat(s \o <<>>) <=> Float(u)
  BY <1>3, <1>4 DEF IsFloat, Float
<1>6. \A x \in {"0", ")"} : IsFloat(s \o <<x>>) <=> Float(Append(u, x))
  BY <1>3 DEF IsFloat, Float
<1>7. (\E more \in {<<>>, <<"0">>, <<")">>} : IsFloat(s \o more))
        <=> Float(u) \/ Float(Append(u, "0")) \/ Float(Append(u, ")"))
  <2>1. IsFloat(s \o <<"0">>) <=> Float(Append(u, "0"))
    BY <1>6
  <2>2. IsFloat(s \o <<")">>) <=> Float(Append(u, ")"))
    BY <1>6
  <2> QED
    BY <1>5, <2>1, <2>2, Zenon
<1>8. MayBecomeFloat(s) <=> Beginning(u)
  BY <1>3, <1>7, Zenon DEF MayBecomeFloat, Beginning, NanParen
<1> QED
  BY <1>1, <1>2, <1>8

(* What is taken of a field: the longest piece that may begin a number.    *)
LEMMA ItemFloat ==
  ASSUME NEW f \in Seq(Char), NEW m \in 0 .. Len(Unsigned(f)), Beginning(SubSeq(Unsigned(f), 1, m)),
         m < Len(Unsigned(f)) => DeadAt(Unsigned(f), m + 1)
  PROVE  /\ FloatItem(f) = SubSeq(f, 1, SignLen(f) + m) /\ Len(FloatItem(f)) = SignLen(f) + m
         /\ Unsigned(FloatItem(f)) = SubSeq(Unsigned(f), 1, m)
         /\ IsFloat(FloatItem(f)) <=> Float(SubSeq(Unsigned(f), 1, m))
         /\ m # 0 => FloatItem(f)[1] = f[1]
<1> DEFINE S == {n \in 0 .. Len(f) : MayBecomeFloat(SubSeq(f, 1, n))}
<1>1. PICK o \in {0, 1} : o = SignLen(f)
  BY DEF SignLen
<1>2. PICK g : g = Unsigned(f)
  OBVIOUS
<1>3. g \in Seq(Char) /\ Len(g) = Len(f) - o /\ o <= Len(f) /\ Len(f) \in Nat
  BY <1>1, <1>2, UnsignedIs
<1>4. PICK l \in 0 .. Len(f) : l = o + m
  BY <1>2, <1>3
<1>5. l \in S
  BY <1>1, <1>4, BeginsFloat
<1>6. ASSUME NEW i \in S PROVE i <= l
  <2>1. i \in 0 .. Len(f) /\ MayBecomeFloat(SubSeq(f, 1, i))
    OBVIOUS
  <2>2. SUFFICES ASSUME ~(i <= l) PROVE FALSE
    OBVIOUS
  <2>3. PICK n \in 0 .. Len(g) : i = o + n /\ n \in m + 1 .. Len(g)
    <3>1. i - o \in m + 1 .. Len(g) /\ i - o \in 0 .. Len(g) /\ i = o + (i - o)
      BY <1>2, <1>3, <1>4, <2>1, <2>2
    <3> QED
      BY <3>1
  <2>4. PICK j \in 1 .. Len(g) : j = m + 1
    BY <1>2, <2>3
  <2>5. DeadAt(g, j) /\ n \in j .. Len(g)
    BY <1>2, <2>3, <2>4
  <2>6. ~Beginning(SubSeq(g, 1, n))
    BY <1>3, <2>5, DeadIsDead
  <2>7. MayBecomeFloat(SubSeq(f, 1, SignLen(f) + n)) <=> Beginning(SubSeq(g, 1, n))
    BY <1>2, BeginsFloat
  <2> QED
    BY <1>1, <2>1, <2>3, <2>6, <2>7
<1>7. S \subseteq Int
  OBVIOUS
<1>8. FloatItem(f) = SubSeq(f, 1, Max(S))
  BY DEF FloatItem, LongestPrefix
<1> HIDE DEF S
<1>9. Max(S) = l
  BY <1>5, <1>6, <1>7, GreatestOfSet
<1>10. PICK it : it = SubSeq(f, 1, l)
  OBVIOUS
<1>11. FloatItem(f) = it /\ Len(it) = l /\ \A i \in 1 .. l : it[i] = f[i]
  BY <1>8, <1>9, <1>10, PieceIs
<1>12. Unsigned(it) = SubSeq(g, 1, m)
  BY <1>1, <1>2, <1>4, <1>10, PieceUnsigned
<1>13. m # 0 => it[1] = f[1]
  BY <1>4, <1>11
<1> QED
  BY <1>1, <1>2, <1>4, <1>10, <1>11, <1>12, <1>13 DEF IsFloat, Float

LEMMA LettersNoNumber ==
  ASSUME NEW S, NEW u \in Seq(S), Len(u) # 0, u[1] \in {"i", "n"}
  PROVE  ~IsNumber(u)
<1>1. ~IsHex(u) /\ Letter(u) = "e" /\ DigitsStart(u) = 1 /\ RadixOf(u) = 10 /\ u[1] # "e" /\ u[1] # "."
  BY DEF IsHex, Letter, DigitsStart, RadixOf
<1>2. Len(u) \in Nat
  OBVIOUS
<1>3. PICK p \in 1 .. Len(u) + 1 : p = Split(u) /\ (p <= Len(u) => u[p] = "e")
  BY <1>1, SplitType
<1>4. p # 1
  BY <1>1, <1>2, <1>3
<1>5. PICK b \in Nat : b = p - 1
  BY <1>3
<1>6. PICK m : m = SubSeq(u, 1, b)
  OBVIOUS
<1>7. m \in Seq(S) /\ Len(m) = b /\ m[1] = u[1] /\ b # 0
  <2>1. b \in 0 .. Len(u)
    BY <1>2, <1>3, <1>5
  <2>2. m \in Seq(S) /\ Len(m) = b /\ \A i \in 1 .. b : m[i] = u[i]
    BY <1>6, <2>1, PieceIs
  <2> QED
    BY <1>3, <1>4, <1>5, <2>2
<1>8. \E i \in 1 .. Len(RemoveFirst(m, ".")) : RemoveFirst(m, ".")[i] = m[1]
  <2>1. 1 \in 1 .. Len(m) /\ m[1] # "."
    BY <1>1, <1>5, <1>7
  <2> QED
    BY <1>7, <2>1, OthersRemain
<1>9. RemoveFirst(m, ".") \in Seq(S)
  BY <1>7, WithoutPointType
<1>10. \E i \in DOMAIN RemoveFirst(m, ".") : ~(Val(RemoveFirst(m, ".")[i]) < 10)
  <2>1. ~(Val(m[1]) < 10)
    BY <1>7, DigitValues
  <2>2. DOMAIN RemoveFirst(m, ".") = 1 .. Len(RemoveFirst(m, "."))
    BY <1>9
  <2> QED
    BY <1>8, <2>1, <2>2
<1>11. m = SubSeq(u, DigitsStart(u), p - 1)
  BY <1>1, <1>5, <1>6
<1>12. IsNumber(u) => \A i \in DOMAIN RemoveFirst(m, ".") : Val(RemoveFirst(m, ".")[i]) < RadixOf(u)
  BY <1>3, <1>11, NumberParts
<1> QED
  BY <1>1, <1>10, <1>12

(* Which words begin with a letter.                                        *)
LEMMA FloatsAre ==
  ASSUME NEW S, NEW u \in Seq(S), Len(u) # 0
  PROVE  /\ u[1] = "i" =>
              /\ Float(u) <=> \/ Len(u) = 3 /\ Agree(u, Word.infinity, 3)
                              \/ Len(u) = 8 /\ Agree(u, Word.infinity, 8)
              /\ IsPrefix(u, Word.infinity) <=> Agree(u, Word.infinity, Len(u))
              /\ ~IsPrefix(u, NanParen)
         /\ u[1] = "n" =>
              /\ Float(u) <=> (Len(u) = 3 /\ Agree(u, NanParen, 3)) \/ InParensOf(u)
              /\ IsPrefix(u, NanParen) <=> Agree(u, NanParen, Len(u))
              /\ ~IsPrefix(u, Word.infinity)
         /\ u[1] \notin {"i", "n"} =>
              (Float(u) <=> IsNumber(u)) /\ ~IsPrefix(u, Word.infinity) /\ ~IsPrefix(u, NanParen)
<1>1. PICK w : w = Word.infinity
  OBVIOUS
<1>2. PICK v : v = NanParen
  OBVIOUS
<1>3. PICK n : n = Word.nan
  OBVIOUS
<1>4. /\ w \in Seq(WordLetters) /\ w[1] = "i" /\ v \in Seq(WordLetters) /\ v[1] = "n"
      /\ Len(w) = 8 /\ Len(v) = 4 /\ Len(n) = 3 /\ n[1] = "n"
      /\ \A i \in 1 .. 3 : v[i] = n[i]
  BY <1>1, <1>2, <1>3, WordsAre
<1>5. (IsPrefix(u, w) <=> Agree(u, w, Len(u))) /\ (IsPrefix(u, v) <=> Agree(u, v, Len(u)))
  BY <1>4, PrefixIs
<1>6. Len(u) \in Nat \ {0} /\ 1 \in 1 .. Len(u)
  OBVIOUS
<1>7. IsWord(u) <=> \/ Len(u) = 3 /\ Agree(u, n, 3)
                    \/ Len(u) = 3 /\ Agree(u, w, 3)
                    \/ Len(u) = 8 /\ Agree(u, w, 8)
                    \/ InParensOf(u)
  BY <1>1, <1>3, WordIs
<1>8. /\ Agree(u, w, Len(u)) \/ Agree(u, w, 3) \/ Agree(u, w, 8) => u[1] = "i"
      /\ Agree(u, v, Len(u)) \/ Agree(u, n, 3) \/ InParensOf(u) => u[1] = "n"
      /\ Agree(u, n, 3) <=> Agree(u, v, 3)
  BY <1>2, <1>4, <1>6 DEF Agree, InParensOf
<1>9. u[1] \in {"i", "n"} => ~IsNumber(u)
  BY LettersNoNumber
<1>10. Float(u) <=> IsWord(u) \/ IsNumber(u)
  BY DEF Float
<1>11. ASSUME u[1] = "i"
       PROVE  /\ Float(u) <=> (Len(u) = 3 /\ Agree(u, w, 3)) \/ (Len(u) = 8 /\ Agree(u, w, 8))
              /\ IsPrefix(u, w) <=> Agree(u, w, Len(u))
              /\ ~IsPrefix(u, v)
  BY <1>5, <1>7, <1>8, <1>9, <1>10, <1>11
<1>12. ASSUME u[1] = "n"
       PROVE  /\ Float(u) <=> (Len(u) = 3 /\ Agree(u, v, 3)) \/ InParensOf(u)
              /\ IsPrefix(u, v) <=> Agree(u, v, Len(u))
              /\ ~IsPrefix(u, w)
  BY <1>5, <1>7, <1>8, <1>9, <1>10, <1>12
<1>13. ASSUME u[1] \notin {"i", "n"}
       PROVE  (Float(u) <=> IsNumber(u)) /\ ~IsPrefix(u, w) /\ ~IsPrefix(u, v)
  BY <1>5, <1>7, <1>8, <1>10, <1>13
<1> QED
  BY <1>1, <1>2, <1>11, <1>12, <1>13

LEMMA InfinityBegins ==
  ASSUME NEW g \in Seq(Char), NEW n \in 0 .. 8, Agree(g, Word.infinity, n)
  PROVE  /\ n <= Len(g) /\ Beginning(SubSeq(g, 1, n))
         /\ n # 0 => (Float(SubSeq(g, 1, n)) <=> n \in {3, 8})
<1>1. PICK w : w = Word.infinity
  OBVIOUS
<1>2. w \in Seq(WordLetters) /\ Len(w) = 8 /\ w[1] = "i"
  BY <1>1, WordsAre
<1>3. n <= Len(g) /\ Len(g) \in Nat /\ \A i \in 1 .. n : g[i] = w[i]
  BY <1>1 DEF Agree
<1>4. PICK u : u = SubSeq(g, 1, n)
  OBVIOUS
<1>5. u \in Seq(Char) /\ Len(u) = n /\ \A i \in 1 .. n : u[i] = g[i]
  BY <1>3, <1>4, PieceIs
<1>6. Agree(u, w, n)
  <2>1. n <= Len(u) /\ n <= Len(w)
    BY <1>2, <1>5
  <2>2. \A i \in 1 .. n : u[i] = w[i]
    BY <1>3, <1>5
  <2> QED
    BY <2>1, <2>2 DEF Agree
<1>7. IsPrefix(u, w)
  BY <1>2, <1>5, <1>6, PrefixIs
<1>8. n # 0 => (Float(u) <=> n \in {3, 8})
  <2> SUFFICES ASSUME n # 0 PROVE Float(u) <=> n \in {3, 8}
    OBVIOUS
  <2>1. u[1] = "i" /\ Len(u) # 0
    BY <1>2, <1>3, <1>5
  <2>2. Float(u) <=> (Len(u) = 3 /\ Agree(u, w, 3)) \/ (Len(u) = 8 /\ Agree(u, w, 8))
    BY <1>1, <1>5, <2>1, FloatsAre
  <2> QED
    BY <1>5, <1>6, <2>2
<1> QED
  BY <1>1, <1>3, <1>4, <1>7, <1>8 DEF Beginning

LEMMA InfinityOver ==
  ASSUME NEW g \in Seq(Char), NEW n \in 1 .. 8, Agree(g, Word.infinity, n), n < Len(g),
         n < 8 => g[n + 1] # Word.infinity[n + 1]
  PROVE  DeadAt(g, n + 1)
<1>1. PICK w : w = Word.infinity
  OBVIOUS
<1>2. w \in Seq(WordLetters) /\ Len(w) = 8 /\ w[1] = "i"
  BY <1>1, WordsAre
<1>3. Len(g) \in Nat /\ n + 1 \in 1 .. Len(g) /\ g[1] = "i"
  BY <1>1, <1>2 DEF Agree
<1>4. ASSUME NEW u \in Seq(NumChars), Agree(u, g, n + 1)
      PROVE  ~Float(u) /\ ~IsPrefix(u, Word.infinity) /\ ~IsPrefix(u, NanParen)
  <2>1. Len(u) \in Nat /\ n + 1 <= Len(u) /\ u[1] = "i" /\ u[n + 1] = g[n + 1]
    BY <1>3, <1>4 DEF Agree
  <2>2. \A l \in n + 1 .. Len(u) : ~Agree(u, w, l)
    BY <1>1, <1>2, <2>1 DEF Agree
  <2>3. /\ Float(u) <=> (Len(u) = 3 /\ Agree(u, w, 3)) \/ (Len(u) = 8 /\ Agree(u, w, 8))
        /\ IsPrefix(u, w) <=> Agree(u, w, Len(u))
        /\ ~IsPrefix(u, NanParen)
    BY <1>1, <2>1, FloatsAre
  <2>4. Len(u) \in n + 1 .. Len(u)
    BY <2>1
  <2> QED
    BY <1>1, <2>2, <2>3, <2>4
<1> QED
  BY <1>4 DEF DeadAt

LEMMA NanBegins ==
  ASSUME NEW g \in Seq(Char), NEW n \in 1 .. 3, Agree(g, NanParen, n)
  PROVE  n <= Len(g) /\ Beginning(SubSeq(g, 1, n)) /\ (Float(SubSeq(g, 1, n)) <=> n = 3)
<1>1. PICK w : w = NanParen
  OBVIOUS
<1>2. w \in Seq(WordLetters) /\ Len(w) = 4 /\ w[1] = "n"
  BY <1>1, WordsAre
<1>3. n <= Len(g) /\ Len(g) \in Nat /\ \A i \in 1 .. n : g[i] = w[i]
  BY <1>1 DEF Agree
<1>4. PICK u : u = SubSeq(g, 1, n)
  OBVIOUS
<1>5. u \in Seq(Char) /\ Len(u) = n /\ \A i \in 1 .. n : u[i] = g[i]
  BY <1>3, <1>4, PieceIs
<1>6. Agree(u, w, n)
  BY <1>2, <1>3, <1>5 DEF Agree
<1>7. IsPrefix(u, w)
  BY <1>2, <1>5, <1>6, PrefixIs
<1>8. Float(u) <=> n = 3
  <2>1. u[1] = "n" /\ Len(u) # 0 /\ ~InParensOf(u)
    BY <1>2, <1>3, <1>5 DEF InParensOf
  <2>2. Float(u) <=> (Len(u) = 3 /\ Agree(u, w, 3)) \/ InParensOf(u)
    BY <1>1, <1>5, <2>1, FloatsAre
  <2> QED
    BY <1>5, <1>6, <2>1, <2>2
<1> QED
  BY <1>1, <1>3, <1>4, <1>7, <1>8 DEF Beginning

LEMMA NanOver ==
  ASSUME NEW g \in Seq(Char), NEW n \in 1 .. 3, Agree(g, NanParen, n), n < Len(g),
         g[n + 1] # NanParen[n + 1]
  PROVE  DeadAt(g, n + 1)
<1>1. PICK w : w = NanParen
  OBVIOUS
<1>2. w \in Seq(WordLetters) /\ Len(w) = 4 /\ w[1] = "n"
  BY <1>1, WordsAre
<1>3. Len(g) \in Nat /\ n + 1 \in 1 .. Len(g) /\ g[1] = "n"
  BY <1>1, <1>2 DEF Agree
<1>4. ASSUME NEW u \in Seq(NumChars), Agree(u, g, n + 1)
      PROVE  ~Float(u) /\ ~IsPrefix(u, Word.infinity) /\ ~IsPrefix(u, NanParen)
  <2>1. Len(u) \in Nat /\ n + 1 <= Len(u) /\ u[1] = "n" /\ u[n + 1] = g[n + 1]
    BY <1>3, <1>4 DEF Agree
  <2>2. \A l \in Int : l >= n + 1 => ~Agree(u, w, l)
    BY <1>1, <1>2, <2>1 DEF Agree
  <2>3. /\ Float(u) <=> (Len(u) = 3 /\ Agree(u, w, 3)) \/ InParensOf(u)
        /\ IsPrefix(u, w) <=> Agree(u, w, Len(u))
        /\ ~IsPrefix(u, Word.infinity)
    BY <1>1, <2>1, FloatsAre
  <2>4. ~InParensOf(u)
    BY <1>1, <2>2 DEF InParensOf
  <2> QED
    BY <1>1, <2>1, <2>2, <2>3, <2>4
<1> QED
  BY <1>4 DEF DeadAt

(* nan( and what may stand in the parentheses, before the j-th character.  *)
Opened(g, j) ==
    /\ g \in Seq(Char) /\ j \in 5 .. Len(g) + 1
    /\ Agree(g, NanParen, 4) /\ \A i \in 5 .. j - 1 : g[i] \in WordChars

LEMMA NoWordChar == "(" \notin WordChars /\ ")" \notin WordChars
BY DEF WordChars, Digits

LEMMA ParenBegins ==
  ASSUME NEW g, NEW j, Opened(g, j)
  PROVE  Beginning(SubSeq(g, 1, j - 1)) /\ ~Float(SubSeq(g, 1, j - 1))
<1>1. PICK w : w = NanParen
  OBVIOUS
<1>2. w \in Seq(WordLetters) /\ Len(w) = 4 /\ w[1] = "n" /\ w[4] = "("
  BY <1>1, WordsAre
<1>3. /\ g \in Seq(Char) /\ Len(g) \in Nat /\ j \in 5 .. Len(g) + 1 /\ \A i \in 1 .. 4 : g[i] = w[i]
      /\ \A i \in 5 .. j - 1 : g[i] \in WordChars
  BY <1>1, <1>2 DEF Opened, Agree
<1>4. PICK n \in 0 .. Len(g) : n = j - 1
  BY <1>3
<1>5. PICK u : u = SubSeq(g, 1, n)
  OBVIOUS
<1>6. PICK v : v = Append(u, ")")
  OBVIOUS
<1>7. u \in Seq(Char) /\ Len(u) = n /\ \A i \in 1 .. n : u[i] = g[i]
  BY <1>3, <1>5, PieceIs
<1>8. v \in Seq(Char \cup {")"}) /\ Len(v) = n + 1 /\ v[n + 1] = ")" /\ \A i \in 1 .. n : v[i] = g[i]
  <2>1. /\ Append(u, ")") \in Seq(Char \cup {")"}) /\ Len(Append(u, ")")) = Len(u) + 1
        /\ Append(u, ")")[Len(u) + 1] = ")" /\ \A i \in 1 .. Len(u) : Append(u, ")")[i] = u[i]
    BY <1>7, AppendIs
  <2> QED
    BY <1>6, <1>7, <2>1
<1>9. InParensOf(v) /\ Len(v) # 0 /\ v[1] = "n"
  BY <1>1, <1>2, <1>3, <1>4, <1>8 DEF InParensOf, Agree
<1>10. Float(v)
  BY <1>8, <1>9, FloatsAre
<1>11. ~Float(u)
  <2>1. Len(u) # 0 /\ u[1] = "n" /\ Len(u) # 3
    BY <1>2, <1>3, <1>4, <1>7
  <2>2. u[Len(u)] # ")"
    <3>1. n \in 4 .. j - 1 /\ n \in 1 .. n /\ u[n] = g[n] /\ Len(u) = n
      BY <1>3, <1>4, <1>7
    <3>2. CASE n = 4
      BY <1>2, <1>3, <3>1, <3>2
    <3>3. CASE n # 4
      <4>1. n \in 5 .. j - 1
        BY <1>3, <3>1, <3>3
      <4> QED
        BY <1>3, <3>1, <4>1, NoWordChar
    <3> QED
      BY <3>2, <3>3
  <2> QED
    BY <1>7, <2>1, <2>2, FloatsAre DEF InParensOf
<1> QED
  BY <1>4, <1>5, <1>6, <1>10, <1>11 DEF Beginning

LEMMA ParenOver ==
  ASSUME NEW g, NEW j, Opened(g, j), j <= Len(g), g[j] \notin WordChars \cup {")"}
  PROVE  DeadAt(g, j)
<1>1. PICK w : w = NanParen
  OBVIOUS
<1>2. w \in Seq(WordLetters) /\ Len(w) = 4 /\ w[1] = "n"
  BY <1>1, WordsAre
<1>3. /\ g \in Seq(Char) /\ Len(g) \in Nat /\ j \in 5 .. Len(g) /\ \A i \in 1 .. 4 : g[i] = w[i]
  BY <1>1, <1>2 DEF Opened, Agree
<1>4. ASSUME NEW u \in Seq(NumChars), Agree(u, g, j)
      PROVE  ~Float(u) /\ ~IsPrefix(u, Word.infinity) /\ ~IsPrefix(u, NanParen)
  <2>1. Len(u) \in Nat /\ j <= Len(u) /\ u[1] = "n" /\ u[j] = g[j]
    BY <1>2, <1>3, <1>4 DEF Agree
  <2>2. ~Agree(u, w, Len(u)) /\ Len(u) # 3 /\ ~InParensOf(u)
    <3>1. ~Agree(u, w, Len(u)) /\ Len(u) # 3
      BY <1>2, <1>3, <2>1 DEF Agree
    <3>2. j = Len(u) \/ j \in 5 .. Len(u) - 1
      BY <1>3, <2>1
    <3> QED
      BY <2>1, <3>1, <3>2 DEF InParensOf
  <2> QED
    <3>1. Len(u) # 0
      BY <1>3, <2>1
    <3>2. /\ Float(u) <=> (Len(u) = 3 /\ Agree(u, w, 3)) \/ InParensOf(u)
          /\ IsPrefix(u, w) <=> Agree(u, w, Len(u))
          /\ ~IsPrefix(u, Word.infinity)
      BY <1>1, <2>1, <3>1, FloatsAre
    <3> QED
      BY <1>1, <2>2, <3>2
<1> QED
  BY <1>4 DEF DeadAt

LEMMA ParenCloses ==
  ASSUME NEW g, NEW j, Opened(g, j), j <= Len(g), g[j] = ")"
  PROVE  Float(SubSeq(g, 1, j)) /\ (j < Len(g) => DeadAt(g, j + 1))
<1>1. PICK w : w = NanParen
  OBVIOUS
<1>2. w \in Seq(WordLetters) /\ Len(w) = 4 /\ w[1] = "n"
  BY <1>1, WordsAre
<1>3. /\ g \in Seq(Char) /\ Len(g) \in Nat /\ j \in 5 .. Len(g) /\ \A i \in 1 .. 4 : g[i] = w[i]
      /\ \A i \in 5 .. j - 1 : g[i] \in WordChars
  BY <1>1, <1>2 DEF Opened, Agree
<1>4. Float(SubSeq(g, 1, j))
  <2>1. PICK u : u = SubSeq(g, 1, j)
    OBVIOUS
  <2>2. u \in Seq(Char) /\ Len(u) = j /\ \A i \in 1 .. j : u[i] = g[i]
    BY <1>3, <2>1, PieceIs
  <2>3. InParensOf(u) /\ Len(u) # 0 /\ u[1] = "n"
    BY <1>1, <1>2, <1>3, <2>2 DEF InParensOf, Agree
  <2> QED
    BY <2>1, <2>2, <2>3, FloatsAre
<1>5. ASSUME NEW u \in Seq(NumChars), Agree(u, g, j + 1)
      PROVE  ~Float(u) /\ ~IsPrefix(u, Word.infinity) /\ ~IsPrefix(u, NanParen)
  <2>1. Len(u) \in Nat /\ j + 1 <= Len(u) /\ u[1] = "n" /\ u[j] = ")"
    BY <1>2, <1>3, <1>5 DEF Agree
  <2>2. ~Agree(u, w, Len(u)) /\ Len(u) # 3 /\ ~InParensOf(u)
    <3>1. ~Agree(u, w, Len(u)) /\ Len(u) # 3
      BY <1>2, <1>3, <2>1 DEF Agree
    <3>2. j \in 5 .. Len(u) - 1
      BY <1>3, <2>1
    <3> QED
      BY <2>1, <3>1, <3>2, NoWordChar DEF InParensOf
  <2> QED
    <3>1. Len(u) # 0
      BY <1>3, <2>1
    <3>2. /\ Float(u) <=> (Len(u) = 3 /\ Agree(u, w, 3)) \/ InParensOf(u)
          /\ IsPrefix(u, w) <=> Agree(u, w, Len(u))
          /\ ~IsPrefix(u, Word.infinity)
      BY <1>1, <2>1, <3>1, FloatsAre
    <3> QED
      BY <1>1, <2>2, <3>2
<1> QED
  BY <1>4, <1>5 DEF DeadAt

LEMMA HexAgrees ==
  ASSUME NEW S, NEW u \in Seq(S), NEW R, NEW g \in Seq(R), NEW n \in Nat, n >= 2, Agree(u, g, n)
  PROVE  IsHex(u) <=> IsHex(g)
BY DEF Agree, IsHex

LEMMA FrontHex ==
  ASSUME NEW g, NEW j, FrontOK(g, j), NEW S, NEW u \in Seq(S), Agree(u, g, j - 1),
         j >= 2 \/ Len(u) <= 1, j <= Len(u) => u[j] # "x"
  PROVE  IsHex(u) <=> IsHex(g)
<1>1. g \in Seq(Char) /\ Len(g) \in Nat /\ j \in Nat \ {0} /\ DigitsStart(g) <= j
  BY FrontIs
<1>2. CASE j >= 3
  <2>1. PICK n \in Nat : n = j - 1
    BY <1>1
  <2>2. n >= 2 /\ Agree(u, g, n)
    BY <1>1, <1>2, <2>1
  <2> QED
    BY <1>1, <2>2, HexAgrees
<1>3. CASE ~(j >= 3)
  <2>1. ~IsHex(g)
    BY <1>1, <1>3 DEF DigitsStart
  <2>2. ~IsHex(u)
    <3>1. Len(u) \in Nat
      OBVIOUS
    <3>2. CASE j = 1
      BY <1>1, <3>1, <3>2 DEF IsHex
    <3>3. CASE j = 2
      BY <1>1, <3>1, <3>3 DEF IsHex
    <3> QED
      BY <1>1, <1>3, <3>2, <3>3
  <2> QED
    BY <2>1, <2>2
<1> QED
  BY <1>2, <1>3

LEMMA SignGrows ==
  ASSUME NEW S, NEW e \in Seq(S), NEW x, x \notin {"+", "-"} \/ e # <<>>
  PROVE  /\ Unsigned(Append(e, x)) = Append(Unsigned(e), x)
         /\ Unsigned(e) \in Seq(S) /\ SignLen(Append(e, x)) = SignLen(e)
<1>1. PICK v : v = Append(e, x)
  OBVIOUS
<1>2. v \in Seq(S \cup {x}) /\ Len(v) = Len(e) + 1 /\ v[Len(e) + 1] = x
      /\ (\A i \in 1 .. Len(e) : v[i] = e[i]) /\ v # <<>>
  <2>1. Append(e, x) \in Seq(S \cup {x}) /\ Len(Append(e, x)) = Len(e) + 1
        /\ Append(e, x)[Len(e) + 1] = x
        /\ (\A i \in 1 .. Len(e) : Append(e, x)[i] = e[i]) /\ Append(e, x) # <<>>
    BY AppendIs
  <2> QED
    BY <1>1, <2>1
<1>3. Len(e) \in Nat
  OBVIOUS
<1>4. PICK o \in {0, 1} : o = SignLen(e)
  BY DEF SignLen
<1>5. SignLen(v) = o
  <2>1. CASE e = <<>>
    BY <1>2, <1>4, <2>1 DEF SignLen
  <2>2. CASE e # <<>>
    <3>1. v[1] = e[1]
      BY <1>2, <1>3, <2>2
    <3> QED
      BY <1>2, <1>4, <2>2, <3>1 DEF SignLen
  <2> QED
    BY <2>1, <2>2
<1>6. PICK d : d = Unsigned(e)
  OBVIOUS
<1>7. PICK w : w = Unsigned(v)
  OBVIOUS
<1>8. d \in Seq(S) /\ Len(d) = Len(e) - o /\ o <= Len(e) /\ \A i \in 1 .. Len(e) - o : d[i] = e[o + i]
  BY <1>4, <1>6, UnsignedIs
<1>9. w \in Seq(S \cup {x}) /\ Len(w) = Len(v) - o /\ \A i \in 1 .. Len(v) - o : w[i] = v[o + i]
  BY <1>2, <1>5, <1>7, UnsignedIs
<1>10. PICK z : z = Append(d, x)
  OBVIOUS
<1>11. z \in Seq(S \cup {x}) /\ Len(z) = Len(d) + 1 /\ z[Len(d) + 1] = x /\ \A i \in 1 .. Len(d) : z[i] = d[i]
  <2>1. Append(d, x) \in Seq(S \cup {x}) /\ Len(Append(d, x)) = Len(d) + 1
        /\ Append(d, x)[Len(d) + 1] = x /\ \A i \in 1 .. Len(d) : Append(d, x)[i] = d[i]
    BY <1>8, AppendIs
  <2> QED
    BY <1>10, <2>1
<1>12. ASSUME NEW i \in 1 .. Len(w) PROVE w[i] = z[i]
  <2>1. CASE i <= Len(d)
    <3>1. i \in 1 .. Len(e) - o /\ o + i \in 1 .. Len(e) /\ i \in 1 .. Len(v) - o /\ i \in 1 .. Len(d)
      BY <1>2, <1>3, <1>8, <1>9, <2>1
    <3> QED
      BY <1>2, <1>8, <1>9, <1>11, <3>1
  <2>2. CASE ~(i <= Len(d))
    <3>1. i = Len(d) + 1 /\ o + i = Len(e) + 1 /\ i \in 1 .. Len(v) - o
      BY <1>2, <1>3, <1>8, <1>9, <2>2
    <3> QED
      BY <1>2, <1>9, <1>11, <3>1
  <2> QED
    BY <2>1, <2>2
<1>13. w = z
  <2>1. Len(w) = Len(z)
    BY <1>2, <1>8, <1>9, <1>11
  <2> QED
    BY <1>9, <1>11, <1>12, <2>1, SameSeq
<1> QED
  BY <1>1, <1>4, <1>5, <1>6, <1>7, <1>8, <1>10, <1>13

(* No number goes over a character that is none of its own.                *)
LEMMA MantissaOver ==
  ASSUME NEW g, NEW j, FrontOK(g, j), j <= Len(g), g[1] \notin {"i", "n"}, ~(Val(g[j]) < RadixOf(g)),
         g[j] = "." => Contains(Foregoing(g, j), "."),
         g[j] = Letter(g) => DigitsBefore(g, j) = <<>>
  PROVE  DeadAt(g, j)
<1>1. /\ g \in Seq(Char) /\ Len(g) \in Nat /\ j \in Nat \ {0} /\ DigitsStart(g) \in {1, 3}
      /\ DigitsStart(g) <= j /\ RadixOf(g) \in {10, 16}
  BY FrontIs DEF Radixes
<1>2. ASSUME NEW u \in Seq(NumChars), Agree(u, g, j)
      PROVE  ~IsNumber(u) /\ Len(u) # 0 /\ u[1] \notin {"i", "n"}
  <2>1. Len(u) \in Nat /\ j <= Len(u) /\ \A i \in 1 .. j : u[i] = g[i]
    BY <1>2 DEF Agree
  <2>2. IsHex(u) <=> IsHex(g)
    <3>1. CASE j >= 2
      BY <1>1, <1>2, <3>1, HexAgrees
    <3>2. CASE j = 1
      <4>1. ~IsHex(g) /\ RadixOf(g) = 10
        BY <1>1, <3>2 DEF DigitsStart, RadixOf
      <4>2. u[1] # "0"
        BY <1>1, <2>1, <3>2, <4>1, DigitValues
      <4> QED
        BY <4>1, <4>2 DEF IsHex
    <3> QED
      BY <1>1, <3>1, <3>2
  <2>3. DigitsStart(u) = DigitsStart(g) /\ Letter(u) = Letter(g) /\ RadixOf(u) = RadixOf(g)
    BY <2>2 DEF DigitsStart, Letter, RadixOf
  <2>4. Agree(u, g, j - 1)
    BY <1>1, <1>2 DEF Agree
  <2>5. CASE g[j] = Letter(g)
    <3>1. j <= Len(u) => u[j] = Letter(g)
      BY <1>1, <2>1, <2>5
    <3> QED
      BY <1>1, <2>1, <2>2, <2>4, <2>5, <3>1, NumberWith
  <2>6. CASE g[j] # Letter(g)
    <3>1. PICK p \in 1 .. Len(u) + 1 : p = Split(u) /\ (p <= Len(u) => u[p] = Letter(u))
      BY SplitType
    <3>2. p > j
      <4> SUFFICES ASSUME ~(p > j) PROVE FALSE
        OBVIOUS
      <4>1. u[p] = Letter(g) /\ u[p] = g[p] /\ p \in 1 .. j
        BY <1>1, <2>1, <2>3, <3>1
      <4>2. p # j
        BY <2>6, <4>1
      <4>3. CASE p >= DigitsStart(g)
        <5>1. p \in DigitsStart(g) .. j - 1
          BY <1>1, <4>1, <4>2, <4>3
        <5> QED
          BY <4>1, <5>1, FrontChars
      <4>4. CASE ~(p >= DigitsStart(g))
        <5>1. IsHex(g) /\ p \in {1, 2}
          BY <1>1, <4>1, <4>4 DEF DigitsStart
        <5> QED
          BY <4>1, <5>1 DEF IsHex, Letter
      <4> QED
        BY <4>3, <4>4
    <3>3. PICK a \in {1, 3} : a = DigitsStart(g)
      BY <1>1
    <3>4. PICK b \in Nat : b = p - 1
      BY <3>1
    <3>5. PICK n \in Nat : n = j - a + 1
      BY <1>1, <3>3
    <3>20. PICK l \in Nat : l = Len(u)
      BY <2>1
    <3>21. j \in Nat /\ p \in Nat /\ a <= j /\ j < p /\ p <= l + 1
      BY <1>1, <3>1, <3>2, <3>3, <3>20
    <3>6. a <= b + 1 /\ b <= l /\ n >= 1 /\ n <= b - a + 1 /\ a + n - 1 = j /\ a \in Nat \ {0}
      BY <3>4, <3>5, <3>21
    <3>7. PICK m : m = SubSeq(u, a, b)
      OBVIOUS
    <3>8. m \in Seq(NumChars) /\ Len(m) = b - a + 1 /\ \A i \in 1 .. b - a + 1 : m[i] = u[a + i - 1]
      BY <3>6, <3>7, <3>20, SliceIs, SMTT(30)
    <3>9. n \in 1 .. Len(m) /\ m[n] = g[j]
      <4>1. n \in 1 .. b - a + 1 /\ j \in 1 .. j
        BY <3>5, <3>6, <3>21
      <4> QED
        BY <2>1, <3>6, <3>8, <4>1
    <3>10. SubSeq(m, 1, n - 1) = Foregoing(g, j)
      <4>1. PICK q \in 0 .. Len(m) : q = n - 1
        BY <3>6, <3>8
      <4>2. PICK x : x = SubSeq(m, 1, q)
        OBVIOUS
      <4>3. x \in Seq(NumChars) /\ Len(x) = q /\ \A i \in 1 .. q : x[i] = m[i]
        BY <3>8, <4>2, PieceIs
      <4>4. PICK y : y = Foregoing(g, j)
        OBVIOUS
      <4>5. y \in Seq(Char) /\ Len(y) = j - a /\ \A i \in 1 .. j - a : y[i] = g[a + i - 1]
        <5>1. /\ Foregoing(g, j) \in Seq(Char) /\ Len(Foregoing(g, j)) = j - DigitsStart(g)
              /\ \A i \in 1 .. j - DigitsStart(g) : Foregoing(g, j)[i] = g[DigitsStart(g) + i - 1]
          BY FrontIs
        <5> QED
          BY <3>3, <4>4, <5>1
      <4>6. ASSUME NEW i \in 1 .. q PROVE x[i] = y[i]
        <5>1. i \in 1 .. j - a /\ i \in 1 .. b - a + 1 /\ a + i - 1 \in 1 .. j
          BY <3>4, <3>5, <3>6, <3>21, <4>1
        <5> QED
          BY <2>1, <3>8, <4>3, <4>5, <5>1, ZenonT(60)
      <4>7. Len(x) = Len(y)
        BY <1>1, <3>3, <3>5, <4>1, <4>3, <4>5, SMTT(30)
      <4>8. x = y
        BY <4>3, <4>5, <4>6, <4>7, SameSeq
      <4> QED
        BY <4>1, <4>2, <4>4, <4>8
    <3>11. \E i \in 1 .. Len(RemoveFirst(m, ".")) : RemoveFirst(m, ".")[i] = m[n]
      <4>1. m[n] # "." \/ Contains(SubSeq(m, 1, n - 1), ".")
        BY <3>9, <3>10
      <4> QED
        BY <3>8, <3>9, <4>1, OthersRemain
    <3>12. RemoveFirst(m, ".") \in Seq(NumChars)
      BY <3>8, WithoutPointType
    <3>13. \E i \in DOMAIN RemoveFirst(m, ".") : ~(Val(RemoveFirst(m, ".")[i]) < RadixOf(u))
      <4>1. DOMAIN RemoveFirst(m, ".") = 1 .. Len(RemoveFirst(m, "."))
        BY <3>12
      <4> QED
        BY <2>3, <3>9, <3>11, <4>1
    <3>14. m = SubSeq(u, DigitsStart(u), p - 1)
      BY <2>3, <3>3, <3>4, <3>7
    <3>15. IsNumber(u) => \A i \in DOMAIN RemoveFirst(m, ".") : Val(RemoveFirst(m, ".")[i]) < RadixOf(u)
      BY <3>1, <3>14, NumberParts
    <3>16. ~IsNumber(u)
      BY <3>13, <3>15
    <3> QED
      BY <1>1, <2>1, <3>16
  <2>7. Len(u) # 0 /\ u[1] \notin {"i", "n"}
    BY <1>1, <2>1
  <2> QED
    BY <2>5, <2>6, <2>7
<1> QED
  BY <1>2, FloatsAre DEF DeadAt

LEMMA NoWordEmpty == ~IsWord(<<>>)
<1>1. Word.nan # <<>> /\ Word.infinity # <<>>
  BY DEF Word
<1>2. SubSeq(Word.infinity, 1, 3) # <<>>
  <2>1. Word.infinity \in Seq({"i", "n", "f", "t", "y"}) /\ Len(Word.infinity) = 8
    BY DEF Word
  <2>2. 3 \in 0 .. Len(Word.infinity)
    BY <2>1
  <2>3. PICK x : x = SubSeq(Word.infinity, 1, 3)
    OBVIOUS
  <2>4. Len(x) # Len(<<>>)
    BY <2>1, <2>2, <2>3, PieceIs
  <2> QED
    BY <2>3, <2>4
<1>3. Len(<<>>) = 0
  OBVIOUS
<1> QED
  BY <1>1, <1>2, <1>3 DEF IsWord

LEMMA FloatIsNumber ==
  ASSUME NEW S, NEW u \in Seq(S), Len(u) # 0 => u[1] \notin {"i", "n"}
  PROVE  Float(u) <=> IsNumber(u)
<1>1. CASE Len(u) = 0
  <2>1. u = <<>>
    BY <1>1
  <2> QED
    BY <2>1, NoWordEmpty DEF Float
<1>2. CASE Len(u) # 0
  BY <1>2, FloatsAre
<1> QED
  BY <1>1, <1>2

(* The digits so far, or with one more, are a number.                      *)
LEMMA MantissaBegins ==
  ASSUME NEW g, NEW j, FrontOK(g, j), j # 1 => g[1] \notin {"i", "n"}
  PROVE  LET u == SubSeq(g, 1, j - 1)
         IN /\ Beginning(u) /\ (Float(u) <=> DigitsBefore(g, j) # <<>>)
            /\ Mantissa(u) = Foregoing(g, j) /\ Exponent(u) = <<>> /\ (IsHex(u) <=> IsHex(g))
<1>1. /\ g \in Seq(Char) /\ Len(g) \in Nat /\ j \in Nat \ {0} /\ j <= Len(g) + 1
      /\ DigitsStart(g) \in {1, 3} /\ DigitsStart(g) <= j /\ RadixOf(g) \in {10, 16}
  BY FrontIs DEF Radixes
<1>2. PICK n \in 0 .. Len(g) : n = j - 1
  BY <1>1
<1>3. PICK u : u = SubSeq(g, 1, n)
  OBVIOUS
<1>4. PICK x : x = "0"
  OBVIOUS
<1>5. PICK v : v = Append(u, x)
  OBVIOUS
<1>6. /\ u \in Seq(NumChars) /\ Len(u) = n /\ Agree(u, g, n)
      /\ v \in Seq(NumChars) /\ Len(v) = n + 1 /\ Agree(v, g, n) /\ v[n + 1] = x
  <2>1. x \in {"0", ")"}
    BY <1>4
  <2> QED
    BY <1>1, <1>3, <1>5, <2>1, PieceOf
<1>7. /\ Agree(u, g, j - 1) /\ Agree(v, g, j - 1) /\ ~(j <= Len(u)) /\ Len(v) = j /\ v[j] = "0"
      /\ j >= 2 \/ (Len(u) <= 1 /\ Len(v) <= 1)
  BY <1>1, <1>2, <1>4, <1>6
<1>8. IsHex(u) <=> IsHex(g)
  BY <1>6, <1>7, FrontHex
<1>9. /\ Mantissa(u) = Foregoing(g, j) /\ Exponent(u) = SubSeq(u, j + 1, Len(u))
      /\ IsNumber(u) <=> DigitsBefore(g, j) # <<>>
  BY <1>6, <1>7, <1>8, NumberWith
<1>10. SubSeq(u, j + 1, Len(u)) = <<>>
  <2>1. j + 1 \in Int /\ Len(u) \in Int /\ Len(u) < j + 1
    BY <1>1, <1>2, <1>6
  <2> QED
    BY <2>1, SubSeqEmpty
<1>11. Len(u) # 0 => u[1] = g[1] /\ j # 1
  BY <1>1, <1>2, <1>6 DEF Agree
<1>12. Float(u) <=> IsNumber(u)
  BY <1>6, <1>11, FloatIsNumber
<1>13. ASSUME DigitsBefore(g, j) = <<>> PROVE Float(v)
  <2>1. IsHex(v) <=> IsHex(g)
    BY <1>6, <1>7, FrontHex
  <2>2. DigitsStart(v) = DigitsStart(g) /\ Letter(v) = Letter(g) /\ RadixOf(v) = RadixOf(g)
    BY <2>1 DEF DigitsStart, Letter, RadixOf
  <2>3. PICK a \in Nat \ {0} : a = DigitsStart(g)
    BY <1>1
  <2>4. SubSeq(v, a, n) = Foregoing(g, j)
    <3>1. a <= n + 1 /\ n <= Len(v) /\ n <= Len(g) /\ \A i \in a .. n : v[i] = g[i]
      BY <1>1, <1>2, <1>6, <2>3 DEF Agree
    <3>2. SubSeq(v, a, n) = SubSeq(g, a, n)
      BY <1>1, <1>6, <3>1, SameSlice
    <3> QED
      BY <1>2, <2>3, <3>2 DEF Foregoing
  <2>5. PICK m : m = Foregoing(g, j)
    OBVIOUS
  <2>6. PICK y : y = SubSeq(v, a, n + 1)
    OBVIOUS
  <2>7. y = Append(m, x)
    <3>1. a <= n + 1 /\ n + 1 <= Len(v) /\ n \in Nat
      BY <1>1, <1>2, <1>6, <2>3
    <3>2. SubSeq(v, a, n + 1) = Append(SubSeq(v, a, n), v[n + 1])
      BY <1>6, <3>1, SliceGrows
    <3> QED
      BY <1>6, <2>4, <2>5, <2>6, <3>2
  <2>8. RemoveFirst(y, ".") = <<x>>
    <3>1. m \in Seq(Char)
      BY <2>5, FrontIs
    <3>2. m \in Seq(NumChars) /\ x \in NumChars /\ x # "."
      BY <1>4, <3>1 DEF NumChars
    <3>3. RemoveFirst(Append(m, x), ".") = Append(RemoveFirst(m, "."), x)
      BY <3>2, DigitAppended
    <3>4. RemoveFirst(m, ".") = <<>>
      BY <1>13, <2>5 DEF DigitsBefore
    <3>5. RemoveFirst(y, ".") = Append(<<>>, x)
      BY <2>7, <3>3, <3>4
    <3>6. Append(<<>>, x) = <<x>>
      OBVIOUS
    <3> QED
      BY <3>5, <3>6
  <2>9. Split(v) = j + 1
    <3>1. ASSUME NEW i \in DigitsStart(v) .. j PROVE v[i] # Letter(v)
      <4>1. CASE i = j
        BY <1>7, <4>1 DEF Letter
      <4>2. CASE i # j
        <5>1. i \in DigitsStart(g) .. j - 1 /\ v[i] = g[i]
          BY <1>1, <1>2, <1>6, <2>2, <4>2 DEF Agree
        <5> QED
          BY <2>2, <5>1, FrontChars
      <4> QED
        BY <4>1, <4>2
    <3>2. PICK p : p = j + 1
      OBVIOUS
    <3>3. p \in DigitsStart(v) .. Len(v) + 1 /\ p - 1 = j /\ ~(p <= Len(v))
      BY <1>1, <1>7, <2>2, <3>2
    <3>4. \A i \in DigitsStart(v) .. p - 1 : v[i] # Letter(v)
      BY <3>1, <3>3
    <3>5. Split(v) = p
      BY <1>6, <3>3, <3>4, SplitIs
    <3> QED
      BY <3>2, <3>5
  <2>10. PICK p : p = j + 1
    OBVIOUS
  <2>11. y = SubSeq(v, DigitsStart(v), p - 1) /\ ~(p <= Len(v))
    BY <1>1, <1>2, <1>7, <2>2, <2>3, <2>6, <2>10
  <2>12. IsNumber(v) <=>
               /\ RemoveFirst(y, ".") # <<>>
               /\ \A i \in DOMAIN RemoveFirst(y, ".") : Val(RemoveFirst(y, ".")[i]) < RadixOf(v)
               /\ p <= Len(v) =>
                     /\ Unsigned(Exponent(v)) # <<>>
                     /\ \A i \in DOMAIN Unsigned(Exponent(v)) : Val(Unsigned(Exponent(v))[i]) < 10
    BY <1>6, <2>9, <2>10, <2>11, NumberParts
  <2>13. Val(x) < RadixOf(v)
    BY <1>1, <1>4, <2>2, DigitValues
  <2>14. IsNumber(v)
    <3>1. PICK d : d = RemoveFirst(y, ".")
      OBVIOUS
    <3>2. d = <<x>>
      BY <2>8, <3>1
    <3>3. d # <<>> /\ DOMAIN d = {1} /\ d[1] = x
      BY <3>2
    <3>4. \A i \in DOMAIN d : Val(d[i]) < RadixOf(v)
      BY <2>13, <3>3
    <3> QED
      BY <2>11, <2>12, <3>1, <3>3, <3>4
  <2> QED
    BY <2>14 DEF Float
<1>14. Beginning(u)
  BY <1>4, <1>5, <1>9, <1>12, <1>13 DEF Beginning
<1> QED
  BY <1>2, <1>3, <1>8, <1>9, <1>10, <1>12, <1>14

LEMMA ExponentOver ==
  ASSUME NEW g, NEW p, FrontOK(g, p), p <= Len(g), g[p] = Letter(g), g[1] \notin {"i", "n"},
         NEW j \in p + 1 .. Len(g), ~(Val(g[j]) < 10), j = p + 1 => g[j] \notin {"+", "-"}
  PROVE  DeadAt(g, j)
<1>1. g \in Seq(Char) /\ Len(g) \in Nat /\ p \in Nat \ {0} /\ j \in Nat /\ p < j /\ j <= Len(g)
  BY FrontIs
<1>2. ASSUME NEW u \in Seq(NumChars), Agree(u, g, j)
      PROVE  ~IsNumber(u) /\ Len(u) # 0 /\ u[1] \notin {"i", "n"}
  <2>1. Len(u) \in Nat /\ j <= Len(u) /\ \A i \in 1 .. j : u[i] = g[i]
    BY <1>2 DEF Agree
  <2>2. IsHex(u) <=> IsHex(g)
    <3>1. j >= 2
      BY <1>1
    <3> QED
      BY <1>1, <1>2, <3>1, HexAgrees
  <2>3. Agree(u, g, p - 1) /\ u[p] = Letter(g) /\ p <= Len(u)
    BY <1>1, <2>1 DEF Agree
  <2>4. PICK e : e = Exponent(u)
    OBVIOUS
  <2>5. /\ Exponent(u) = SubSeq(u, p + 1, Len(u))
        /\ IsNumber(u) => \A i \in DOMAIN Unsigned(e) : Val(Unsigned(e)[i]) < 10
    BY <2>2, <2>3, <2>4, NumberWith
  <2>6. PICK a \in Nat \ {0} : a = p + 1
    BY <1>1
  <2>7. PICK b \in Nat : b = Len(u)
    BY <2>1
  <2>8. e \in Seq(NumChars) /\ Len(e) = b - p /\ \A i \in 1 .. b - p : e[i] = u[p + i]
    <3>1. a <= b + 1 /\ b - a + 1 = b - p /\ \A i \in 1 .. b - p : a + i - 1 = p + i
      BY <1>1, <2>1, <2>6, <2>7
    <3>2. SubSeq(u, a, b) \in Seq(NumChars) /\ Len(SubSeq(u, a, b)) = b - a + 1
          /\ \A i \in 1 .. b - a + 1 : SubSeq(u, a, b)[i] = u[a + i - 1]
      BY <2>7, <3>1, SliceIs, SMTT(30)
    <3>3. e = SubSeq(u, a, b)
      BY <2>4, <2>5, <2>6, <2>7
    <3> QED
      BY <3>1, <3>2, <3>3
  <2>9. PICK o \in {0, 1} : o = SignLen(e)
    BY DEF SignLen
  <2>10. PICK h \in Nat : h = j - p - o /\ h # 0 /\ h <= b - p - o
    <3>1. j = p + 1 => o = 0
      <4> SUFFICES ASSUME j = p + 1 PROVE o = 0
        OBVIOUS
      <4>1. 1 \in 1 .. b - p /\ p + 1 \in 1 .. j
        BY <1>1, <2>1, <2>7
      <4>2. e[1] = g[j]
        BY <2>1, <2>8, <4>1
      <4> QED
        BY <2>9, <4>2 DEF SignLen
    <3>2. j - p - o \in Nat /\ j - p - o # 0 /\ j - p - o <= b - p - o
      BY <1>1, <2>1, <2>7, <3>1
    <3> QED
      BY <3>2
  <2>11. Unsigned(e)[h] = g[j] /\ h \in DOMAIN Unsigned(e)
    <3>1. /\ Unsigned(e) \in Seq(NumChars) /\ Len(Unsigned(e)) = Len(e) - o
          /\ \A i \in 1 .. Len(e) - o : Unsigned(e)[i] = e[o + i]
      BY <2>8, <2>9, UnsignedIs
    <3>2. h \in 1 .. Len(e) - o /\ o + h = j - p /\ j - p \in 1 .. b - p /\ p + (j - p) = j /\ j \in 1 .. j
      BY <1>1, <2>1, <2>7, <2>8, <2>10
    <3>3. Unsigned(e)[h] = e[j - p] /\ e[j - p] = u[j]
      BY <2>8, <3>1, <3>2
    <3>4. DOMAIN Unsigned(e) = 1 .. Len(e) - o
      BY <3>1
    <3> QED
      BY <2>1, <3>2, <3>3, <3>4
  <2>12. ~IsNumber(u)
    BY <2>5, <2>11
  <2>13. Len(u) # 0 /\ u[1] \notin {"i", "n"}
    BY <1>1, <2>1
  <2> QED
    BY <2>12, <2>13
<1> QED
  BY <1>2, FloatsAre DEF DeadAt

(* What is between the p-th character and the j-th.                        *)
Between(g, p, j) == SubSeq(g, p + 1, j - 1)

(* An exponent begins behind the p-th character; y is g up to the n-th.    *)
AtExponent(g, p) == FrontOK(g, p) /\ p <= Len(g) /\ g[p] = Letter(g) /\ DigitsBefore(g, p) # <<>>
CutIn(g, p, n, y) ==
    AtExponent(g, p) /\ n \in Nat /\ p <= n /\ n <= Len(g) /\ y \in Seq(NumChars) /\ Agree(y, g, n)

LEMMA ExponentPart ==
  ASSUME NEW g, NEW p, NEW n, NEW y, CutIn(g, p, n, y)
  PROVE  /\ Mantissa(y) = Foregoing(g, p) /\ Exponent(y) = SubSeq(y, p + 1, Len(y)) /\ (IsHex(y) <=> IsHex(g))
         /\ IsNumber(y) <=> /\ Unsigned(Exponent(y)) # <<>>
                            /\ \A i \in DOMAIN Unsigned(Exponent(y)) : Val(Unsigned(Exponent(y))[i]) < 10
         /\ p >= 2 /\ Between(y, p, n + 1) = Between(g, p, n + 1)
<1>0. /\ FrontOK(g, p) /\ p <= Len(g) /\ g[p] = Letter(g) /\ DigitsBefore(g, p) # <<>>
      /\ n \in Nat /\ p <= n /\ n <= Len(g) /\ y \in Seq(NumChars) /\ Agree(y, g, n)
  BY DEF CutIn, AtExponent
<1>1. /\ g \in Seq(Char) /\ Len(g) \in Nat /\ p \in Nat \ {0} /\ DigitsStart(g) \in {1, 3}
      /\ Len(Foregoing(g, p)) = p - DigitsStart(g) /\ DigitsBefore(g, p) \in Seq(Char)
      /\ Len(DigitsBefore(g, p)) <= Len(Foregoing(g, p))
  BY <1>0, FrontIs
<1>2. p >= 2
  <2>1. PICK d \in Seq(Char) : d = DigitsBefore(g, p)
    BY <1>0, <1>1
  <2>2. Len(d) # 0 /\ Len(d) \in Nat
    BY <1>0, <2>1
  <2>3. PICK l \in Nat : l = Len(d)
    BY <2>2
  <2>4. l # 0 /\ l <= p - DigitsStart(g)
    BY <1>0, <1>1, <2>1, <2>2, <2>3
  <2> QED
    BY <1>0, <1>1, <2>4
<1>3. Len(y) \in Nat /\ n <= Len(y) /\ \A i \in 1 .. n : y[i] = g[i]
  BY <1>0 DEF Agree
<1>4. IsHex(y) <=> IsHex(g)
  <2>1. n >= 2
    BY <1>0, <1>1, <1>2
  <2> QED
    BY <1>0, <1>1, <2>1, HexAgrees
<1>5. Agree(y, g, p - 1) /\ y[p] = Letter(g) /\ p <= Len(y)
  BY <1>0, <1>1, <1>3 DEF Agree
<1>6. SubSeq(y, p + 1, n) = SubSeq(g, p + 1, n)
  <2>1. PICK a \in Nat \ {0} : a = p + 1
    BY <1>0, <1>1
  <2>2. a <= n + 1 /\ n <= Len(g) /\ n <= Len(y) /\ \A i \in a .. n : y[i] = g[i]
    BY <1>0, <1>1, <1>3, <2>1
  <2>3. SubSeq(y, a, n) = SubSeq(g, a, n)
    BY <1>0, <1>1, <2>2, SameSlice
  <2> QED
    BY <2>1, <2>3
<1>7. Between(y, p, n + 1) = Between(g, p, n + 1)
  <2>1. (n + 1) - 1 = n
    BY <1>0
  <2> QED
    BY <1>6, <2>1 DEF Between
<1> QED
  BY <1>0, <1>2, <1>4, <1>5, <1>7, NumberWith

LEMMA ExponentNumber ==
  ASSUME NEW g, NEW p, NEW n, NEW e, e = Between(g, p, n + 1),
         \A i \in DOMAIN Unsigned(e) : Val(Unsigned(e)[i]) < 10,
         NEW u, CutIn(g, p, n, u), Len(u) = n,
         NEW x, x = "0", NEW v, CutIn(g, p, n, v), Len(v) = n + 1, v[n + 1] = x
  PROVE  /\ Mantissa(u) = Foregoing(g, p) /\ Exponent(u) = e /\ (IsHex(u) <=> IsHex(g))
         /\ IsNumber(u) <=> Unsigned(e) # <<>>
         /\ Unsigned(e) = <<>> => IsNumber(v)
<1>1. /\ g \in Seq(Char) /\ Len(g) \in Nat /\ p \in Nat \ {0} /\ n \in Nat /\ p <= n /\ n <= Len(g)
      /\ v \in Seq(NumChars)
  BY FrontIs DEF CutIn, AtExponent
<1>2. /\ Mantissa(u) = Foregoing(g, p) /\ Exponent(u) = SubSeq(u, p + 1, Len(u)) /\ (IsHex(u) <=> IsHex(g))
      /\ IsNumber(u) <=> /\ Unsigned(Exponent(u)) # <<>>
                         /\ \A i \in DOMAIN Unsigned(Exponent(u)) : Val(Unsigned(Exponent(u))[i]) < 10
      /\ Between(u, p, n + 1) = e
  BY ExponentPart
<1>3. Exponent(u) = e
  BY <1>1, <1>2 DEF Between
<1>4. IsNumber(u) <=> Unsigned(e) # <<>>
  BY <1>2, <1>3
<1>5. ASSUME Unsigned(e) = <<>> PROVE IsNumber(v)
  <2>1. /\ Exponent(v) = SubSeq(v, p + 1, Len(v)) /\ Between(v, p, n + 1) = e
        /\ IsNumber(v) <=> /\ Unsigned(Exponent(v)) # <<>>
                           /\ \A i \in DOMAIN Unsigned(Exponent(v)) : Val(Unsigned(Exponent(v))[i]) < 10
    BY ExponentPart
  <2>3. Exponent(v) = Append(e, x)
    <3>1. PICK a \in Nat \ {0} : a = p + 1
      BY <1>1
    <3>2. a <= n + 1 /\ n + 1 <= Len(v)
      BY <1>1, <3>1
    <3>3. SubSeq(v, a, n + 1) = Append(SubSeq(v, a, n), v[n + 1])
      BY <1>1, <3>1, <3>2, SliceGrows
    <3>4. (n + 1) - 1 = n
      BY <1>1
    <3> QED
      BY <2>1, <3>1, <3>3, <3>4 DEF Between
  <2>4. e \in Seq(Char)
    <3>1. PICK a \in Nat \ {0} : a = p + 1
      BY <1>1
    <3>2. a <= n + 1 /\ n <= Len(g)
      BY <1>1, <3>1
    <3>3. SubSeq(g, a, n) \in Seq(Char)
      BY <1>1, <3>1, <3>2, SliceIs
    <3>4. (n + 1) - 1 = n
      BY <1>1
    <3> QED
      BY <3>1, <3>3, <3>4 DEF Between
  <2>5. PICK d : d = Unsigned(Exponent(v))
    OBVIOUS
  <2>6. d = <<x>>
    <3>1. Unsigned(Append(e, x)) = Append(Unsigned(e), x)
      BY <2>4, SignGrows
    <3>2. Append(<<>>, x) = <<x>>
      OBVIOUS
    <3> QED
      BY <1>5, <2>3, <2>5, <3>1, <3>2
  <2>7. d # <<>> /\ DOMAIN d = {1} /\ d[1] = x
    BY <2>6
  <2>8. Val(x) < 10
    BY DigitValues
  <2>9. \A i \in DOMAIN d : Val(d[i]) < 10
    BY <2>7, <2>8
  <2> QED
    BY <2>1, <2>5, <2>7, <2>9
<1> QED
  BY <1>2, <1>3, <1>4, <1>5

LEMMA ExponentBegins ==
  ASSUME NEW g, NEW p, AtExponent(g, p), g[1] \notin {"i", "n"}, NEW j \in p + 1 .. Len(g) + 1, NEW e, e = Between(g, p, j),
         \A i \in DOMAIN Unsigned(e) : Val(Unsigned(e)[i]) < 10
  PROVE  LET u == SubSeq(g, 1, j - 1)
         IN /\ Beginning(u) /\ (Float(u) <=> Unsigned(e) # <<>>)
            /\ Mantissa(u) = Foregoing(g, p) /\ Exponent(u) = e /\ (IsHex(u) <=> IsHex(g))
<1>1. g \in Seq(Char) /\ Len(g) \in Nat /\ p \in Nat \ {0}
  BY FrontIs DEF AtExponent
<1>2. PICK n \in 0 .. Len(g) : n = j - 1 /\ p <= n
  BY <1>1
<1>3. PICK u : u = SubSeq(g, 1, n)
  OBVIOUS
<1>4. PICK x : x = "0"
  OBVIOUS
<1>5. PICK v : v = Append(u, x)
  OBVIOUS
<1>6. /\ u \in Seq(NumChars) /\ Len(u) = n /\ Agree(u, g, n)
      /\ v \in Seq(NumChars) /\ Len(v) = n + 1 /\ Agree(v, g, n) /\ v[n + 1] = x
  <2>1. x \in {"0", ")"}
    BY <1>4
  <2> QED
    BY <1>1, <1>3, <1>5, <2>1, PieceOf
<1>7. n \in Nat /\ n <= Len(g) /\ e = Between(g, p, n + 1)
  BY <1>1, <1>2
<1>11. CutIn(g, p, n, u) /\ CutIn(g, p, n, v)
  BY <1>2, <1>6, <1>7 DEF CutIn
<1>8. /\ Mantissa(u) = Foregoing(g, p) /\ Exponent(u) = e /\ (IsHex(u) <=> IsHex(g))
      /\ IsNumber(u) <=> Unsigned(e) # <<>>
      /\ Unsigned(e) = <<>> => IsNumber(v)
  BY <1>2, <1>4, <1>6, <1>7, <1>11, ExponentNumber
<1>9. Float(u) <=> IsNumber(u)
  <2>1. u[1] = g[1]
    BY <1>1, <1>2, <1>6 DEF Agree
  <2> QED
    BY <1>6, <2>1, FloatIsNumber
<1>10. Beginning(u)
  BY <1>4, <1>5, <1>8, <1>9 DEF Beginning, Float
<1> QED
  BY <1>2, <1>3, <1>8, <1>9, <1>10

(* ---- what fffloatscan knows at each of its steps ----------------------- *)

(* A character has been put back, and j of the field are read.             *)
Held(w, j) ==
    /\ j \in 0 .. Len(Field(pos, w))
    /\ CountsFrom = pos /\ shlim = w /\ Consumed = pos + j

(* The j-th character behind the sign is the current one.                  *)
At(f, w, j) == j \in Nat /\ Read(w, SignLen(f) + j)

(* Nothing of a number has been met.                                       *)
Fresh ==
    /\ flt.hex = FALSE /\ flt.dig = FALSE /\ flt.rad = FALSE /\ flt.tail = FALSE
    /\ flt.num = 0 /\ flt.cnt = 0 /\ flt.point = 0 /\ flt.exp = 0

(* What is known of the digits before the j-th character, and of the point. *)
Gathered(g, j, m) ==
    LET z == Significant(DigitsBefore(g, j))
    IN /\ FrontOK(g, j) /\ (Len(g) # 0 => g[1] \notin {"i", "n"})
       /\ m.hex = IsHex(g)
       /\ m.dig <=> DigitsBefore(g, j) # <<>>
       /\ m.rad <=> Contains(Foregoing(g, j), ".")
       /\ m.cnt = Len(z)
       /\ m.num = Worth(z, RadixOf(g)) /\ m.tail = More(z, RadixOf(g))
       /\ m.point = IF m.rad THEN m.cnt - Fractional(Foregoing(g, j)) ELSE 0

(* The exponent behind the letter at p, up to the j-th character.          *)
ExpSoFar(g, p, j) ==
    LET e == Between(g, p, j)
    IN /\ AtExponent(g, p) /\ j \in p + 1 .. Len(g) + 1
       /\ \A i \in DOMAIN Unsigned(e) : Val(Unsigned(e)[i]) < 10
       /\ e = <<>> => c \notin {"+", "-"}
       /\ flt.eneg <=> e # <<>> /\ e[1] = "-"
       /\ flt.exp = Numeral(Unsigned(e), 10)
          \/ (flt.exp \in Nat /\ flt.exp >= ExpBound /\ Numeral(Unsigned(e), 10) >= ExpBound)

InWords(f, w) ==
    LET g == Unsigned(f)
    IN /\ pc = "fsigned" => Read(w, 1) /\ SignLen(f) = 1 /\ Fresh /\ flt.i = 0
       /\ pc = "infinity" => /\ Fresh /\ flt.i \in 0 .. 8 /\ Agree(g, Word.infinity, flt.i)
                             /\ At(f, w, IF flt.i < 8 THEN flt.i + 1 ELSE 8)
       /\ pc = "nan" => /\ Fresh /\ flt.i \in 0 .. 3 /\ Agree(g, NanParen, flt.i)
                        /\ At(f, w, IF flt.i < 3 THEN flt.i + 1 ELSE 3)
                        /\ flt.i = 0 => c # "i"
       /\ pc = "paren" => Agree(g, NanParen, 3) /\ At(f, w, 3)
       /\ pc = "nanback" => Agree(g, NanParen, 3) /\ At(f, w, 4) /\ c # "("
       /\ pc = "inparens" => \E j \in Nat : At(f, w, j) /\ Opened(g, j + 1)
       /\ pc \in {"wrong", "rewound"} => ~IsFloat(FloatItem(f))

InDigits(f, w) ==
    LET g == Unsigned(f)
    IN /\ pc = "zero" => Fresh /\ At(f, w, 1) /\ c \notin {"i", "n"}
       /\ pc = "zeroback" => Fresh /\ At(f, w, 2) /\ ~IsHex(g) /\ Len(g) # 0 /\ g[1] = "0"
       /\ pc = "decfloat" => Fresh /\ Held(w, SignLen(f) + 1) /\ ~IsHex(g) /\ Len(g) # 0 /\ g[1] = "0"
       /\ pc = "hexfloat" => Fresh /\ At(f, w, 2) /\ IsHex(g)
       /\ pc \in {"zeros", "fraction", "digit"} =>
             \E j \in Nat : /\ At(f, w, j) /\ Gathered(g, j, flt) /\ flt.exp = 0
                            /\ pc = "zeros" => ~flt.rad /\ flt.cnt = 0
                            /\ pc = "fraction" => flt.rad /\ flt.cnt = 0
                            /\ pc = "digit" /\ flt.cnt = 0 => c # "0" /\ (c = "." => flt.rad)

InExponent(f, w) ==
    LET g == Unsigned(f)
    IN /\ pc = "scanexp" =>
             \E p \in Nat : At(f, w, p) /\ Gathered(g, p, flt) /\ AtExponent(g, p) /\ flt.exp = 0
       /\ pc = "esigned" =>
             \E p \in Nat : /\ At(f, w, p + 1) /\ Gathered(g, p, flt) /\ AtExponent(g, p) /\ flt.exp = 0
                            /\ c \in {"+", "-"} /\ (flt.eneg <=> c = "-")
       /\ pc \in {"expfirst", "exponent"} =>
             \E p \in Nat, j \in Nat :
                /\ At(f, w, j) /\ Gathered(g, p, flt) /\ ExpSoFar(g, p, j)
                /\ pc = "expfirst" => Unsigned(Between(g, p, j)) = <<>>
                /\ pc = "exponent" /\ Unsigned(Between(g, p, j)) = <<>> => Val(c) < 10

FloatGot(f) ==
    LET item == FloatItem(f)
    IN IF IsFloat(item)
       THEN /\ Count = Len(item)
            /\ flt.val = FloatValue(item, D.size)
            /\ flt.val.class \in {"over", "under"} => errno = "ERANGE"
       ELSE Count = 0

FloatAt(f, w) ==
    IF pc = "floated" THEN FloatGot(f)
    ELSE /\ DOMAIN flt = DOMAIN FloatStart /\ neg = (f[1] = "-")
         /\ InWords(f, w) /\ InDigits(f, w) /\ InExponent(f, w)

FloatOK ==
    pc \in FloatPcs =>
        IF D.size \in Precisions THEN FloatAt(Field(pos, D.width), D.width) ELSE pc = "floated" /\ FloatRead

(* What every step may take for granted of the field f and its width w.    *)
FloatNow(f, w) ==
    /\ ScanInv /\ PosOK /\ text \in Texts[fmt] /\ f = Field(pos, w) /\ w \in Nat
    /\ pc \in FloatPcs /\ pc # "floated" /\ D.size \in Precisions /\ FloatAt(f, w)

LEMMA FloatFacts ==
  ASSUME NEW f, NEW w, FloatNow(f, w)
  PROVE  /\ Started /\ Typed /\ w \in Nat /\ f \in Seq(Char) /\ Len(f) \in Nat
         /\ f = Field(pos, w) /\ PosOK /\ ScanInv /\ SignLen(f) \in {0, 1}
         /\ Unsigned(f) \in Seq(Char) /\ Len(Unsigned(f)) \in Nat
         /\ Len(f) = SignLen(f) + Len(Unsigned(f))
         /\ \A i \in 1 .. Len(Unsigned(f)) : Unsigned(f)[i] = f[SignLen(f) + i]
         /\ DOMAIN flt = DOMAIN FloatStart /\ neg = (f[1] = "-")
<1>1. Started /\ Typed /\ f = Field(pos, w) /\ PosOK /\ ScanInv /\ w \in Nat
  BY DEF FloatNow, ScanInv, FloatPcs
<1>2. f \in Seq(Char)
  BY <1>1, FieldIs DEF PosOK
<1>3. Len(f) \in Nat
  BY <1>2
<1>4. PICK g : g = Unsigned(f)
  OBVIOUS
<1>5. PICK o \in {0, 1} : o = SignLen(f)
  BY DEF SignLen
<1>6. /\ g \in Seq(Char) /\ Len(g) = Len(f) - o /\ o <= Len(f)
      /\ \A i \in 1 .. Len(f) - o : g[i] = f[o + i]
  BY <1>2, <1>4, <1>5, UnsignedIs
<1>7. Len(g) \in Nat /\ Len(f) = o + Len(g)
  BY <1>3, <1>6
<1>8. DOMAIN flt = DOMAIN FloatStart /\ neg = (f[1] = "-")
  BY DEF FloatNow, FloatAt
<1> QED
  BY <1>1, <1>2, <1>3, <1>4, <1>5, <1>6, <1>7, <1>8

LEMMA CurrentIn ==
  ASSUME NEW f, NEW w, FloatNow(f, w), NEW j, At(f, w, j), j # 0
  PROVE  /\ j \in 1 .. Len(Unsigned(f)) + 1
         /\ c = IF j <= Len(Unsigned(f)) THEN Unsigned(f)[j] ELSE EOF
         /\ (c = EOF) <=> (j = Len(Unsigned(f)) + 1)
<1>1. PICK g : g = Unsigned(f)
  OBVIOUS
<1>2. PICK o \in {0, 1} : o = SignLen(f)
  BY FloatFacts
<1>3. /\ f = Field(pos, w) /\ Typed /\ PosOK /\ w \in Nat /\ Len(g) \in Nat /\ Len(f) = o + Len(g)
      /\ \A i \in 1 .. Len(g) : g[i] = f[o + i]
  BY <1>1, <1>2, FloatFacts
<1>4. PICK h \in Nat : h = o + j /\ j \in Nat /\ Read(w, h)
  BY <1>2 DEF At
<1>5. h # 0
  BY <1>4
<1>6. h \in 1 .. Len(f) + 1 /\ c = (IF h <= Len(f) THEN f[h] ELSE EOF) /\ ((c = EOF) <=> (h = Len(f) + 1))
  BY <1>3, <1>4, <1>5, Current
<1>7. j \in 1 .. Len(g) + 1 /\ (h <= Len(f) <=> j <= Len(g)) /\ (h = Len(f) + 1 <=> j = Len(g) + 1)
  BY <1>3, <1>4, <1>6
<1>8. j <= Len(g) => g[j] = f[h]
  BY <1>3, <1>4, <1>7
<1> QED
  BY <1>1, <1>6, <1>7, <1>8

LEMMA HeldGet ==
  ASSUME ScanInv, Started, ShGetC, PosOK, pos' = pos, NEW w \in Nat, NEW j, Held(w, j)
  PROVE  Read(w, j + 1)' /\ Field(pos, w)' = Field(pos, w)
<1>0. Reader!Get
  BY GetSteps DEF ScanInv
<1>1. text' = text /\ CountsFrom' = CountsFrom /\ shlim' = shlim
  BY <1>0 DEF Reader!Get
<1>2. PICK f : f = Field(pos, w)
  OBVIOUS
<1>3. Field(pos, w)' = f
  BY <1>1, <1>2 DEF Field
<1>4. /\ Len(f) = FieldLen(pos, w) /\ FieldLen(pos, w) \in 0 .. Len(text) - pos
      /\ Len(text) \in Nat /\ \A i \in 1 .. Len(f) : f[i] = text[pos + i]
  <2>1. /\ Len(f) = FieldLen(pos, w) /\ Len(text) \in Nat /\ \A i \in 1 .. Len(f) : f[i] = text[pos + i]
    BY <1>2, FieldNow
  <2>2. FieldLen(pos, w) \in 0 .. Len(text) - pos
    BY FieldIs DEF PosOK, ScanInv
  <2> QED
    BY <2>1, <2>2
<1>5. j \in 0 .. Len(f) /\ CountsFrom = pos /\ shlim = w /\ Consumed = pos + j
  BY <1>2 DEF Held
<1>6. Reader!Exhausted <=> j >= Len(f)
  BY <1>4, <1>5 DEF Reader!Exhausted, PosOK, FieldLen
<1>7. CASE j = Len(f)
  <2>1. Consumed' = Consumed /\ c' = EOF
    BY <1>0, <1>4, <1>5, <1>6, <1>7 DEF Reader!Get
  <2>2. j + 1 \in 0 .. Len(f) + 1 /\ j + 1 # 0 /\ ~(j + 1 <= Len(f)) /\ Consumed' = pos + Len(f)
    BY <1>4, <1>5, <1>7, <2>1
  <2> QED
    BY <1>1, <1>2, <1>3, <1>5, <2>1, <2>2 DEF Read
<1>8. CASE j # Len(f)
  <2>1. Consumed' = Consumed + 1 /\ c' = text[Consumed + 1]
    BY <1>0, <1>4, <1>5, <1>6, <1>8 DEF Reader!Get
  <2>2. j + 1 \in 1 .. Len(f) /\ j + 1 \in 0 .. Len(f) + 1 /\ j + 1 # 0
    BY <1>4, <1>5, <1>8
  <2>3. c' = text[pos + (j + 1)] /\ Consumed' = pos + (j + 1)
    BY <1>4, <1>5, <2>1 DEF PosOK
  <2>4. c' = f[j + 1]
    BY <1>4, <2>2, <2>3
  <2> QED
    BY <1>1, <1>2, <1>3, <1>5, <2>2, <2>3, <2>4 DEF Read
<1> QED
  BY <1>2, <1>3, <1>7, <1>8

(* The character behind the j-th one, or the end.                          *)
Following(f, j) == IF j + 1 <= Len(Unsigned(f)) THEN Unsigned(f)[j + 1] ELSE EOF

LEMMA NewRead ==
  ASSUME NEW f, NEW w, FloatNow(f, w), NEW j \in Nat, j <= Len(Unsigned(f)),
         NEW h, h = SignLen(f) + j + 1, Read(w, h)', Field(pos, w)' = f
  PROVE  At(f, w, j + 1)' /\ c' = Following(f, j)
<1>1. PICK g : g = Unsigned(f)
  OBVIOUS
<1>2. PICK o \in {0, 1} : o = SignLen(f)
  BY FloatFacts
<1>3. /\ Len(g) \in Nat /\ Len(f) = o + Len(g) /\ \A i \in 1 .. Len(g) : g[i] = f[o + i]
  BY <1>1, <1>2, FloatFacts
<1>4. h \in Nat /\ h = o + (j + 1) /\ h # 0 /\ j + 1 \in Nat
  BY <1>2
<1>5. c' = IF h <= Len(f) THEN f[h] ELSE EOF
  BY <1>4 DEF Read
<1>6. h <= Len(f) <=> j + 1 <= Len(g)
  BY <1>3, <1>4
<1>7. j + 1 <= Len(g) => g[j + 1] = f[h]
  BY <1>3, <1>4
<1>8. c' = IF j + 1 <= Len(g) THEN g[j + 1] ELSE EOF
  BY <1>5, <1>6, <1>7
<1> QED
  BY <1>1, <1>2, <1>4, <1>8 DEF At, Following

LEMMA GotIn ==
  ASSUME NEW f, NEW w, FloatNow(f, w), ShGetC, pos' = pos, NEW j, At(f, w, j), j <= Len(Unsigned(f))
  PROVE  At(f, w, j + 1)' /\ Field(pos, w)' = f /\ c' = Following(f, j)
<1>1. PICK o \in {0, 1} : o = SignLen(f)
  BY FloatFacts
<1>2. /\ f = Field(pos, w) /\ ScanInv /\ Started /\ PosOK /\ w \in Nat /\ Len(f) = o + Len(Unsigned(f))
      /\ Len(Unsigned(f)) \in Nat
  BY <1>1, FloatFacts
<1>3. j \in Nat /\ Read(w, o + j)
  BY <1>1 DEF At
<1>4. PICK h : h = o + j + 1
  OBVIOUS
<1>5. h = IF o + j <= Len(Field(pos, w)) THEN (o + j) + 1 ELSE o + j
  BY <1>1, <1>2, <1>3, <1>4
<1>6. Read(w, h)' /\ Field(pos, w)' = f
  BY <1>2, <1>3, <1>5, Got
<1> QED
  BY <1>1, <1>3, <1>4, <1>6, NewRead

LEMMA HeldIn ==
  ASSUME NEW f, NEW w, FloatNow(f, w), ShGetC, pos' = pos, NEW j \in Nat, Held(w, SignLen(f) + j),
         j <= Len(Unsigned(f))
  PROVE  At(f, w, j + 1)' /\ Field(pos, w)' = f /\ c' = Following(f, j)
<1>1. PICK o \in {0, 1} : o = SignLen(f)
  BY FloatFacts
<1>2. f = Field(pos, w) /\ ScanInv /\ Started /\ PosOK /\ w \in Nat
  BY <1>1, FloatFacts
<1>3. PICK h : h = o + j + 1
  OBVIOUS
<1>4. Read(w, (o + j) + 1)' /\ Field(pos, w)' = f
  BY <1>1, <1>2, HeldGet
<1> QED
  BY <1>1, <1>3, <1>4, NewRead

LEMMA GivenIn ==
  ASSUME NEW f, NEW w, FloatNow(f, w), ShUnget, pos' = pos, NEW j, At(f, w, j), j # 0
  PROVE  /\ Count' = SignLen(f) + (j - 1) /\ Held(w, SignLen(f) + (j - 1))' /\ Field(pos, w)' = f
         /\ j \in Nat
<1>1. PICK o \in {0, 1} : o = SignLen(f)
  BY FloatFacts
<1>2. f = Field(pos, w) /\ ScanInv /\ Started /\ PosOK /\ w \in Nat
  BY <1>1, FloatFacts
<1>3. j \in Nat /\ Read(w, o + j) /\ o + j # 0 /\ (o + j) - 1 = o + (j - 1)
  BY <1>1 DEF At
<1>4. /\ Count' = (o + j) - 1 /\ Consumed' = pos + ((o + j) - 1) /\ CountsFrom' = pos
      /\ shlim' = w /\ text' = text /\ (o + j) - 1 \in 0 .. Len(Field(pos, w))
  BY <1>2, <1>3, Given
<1>5. Field(pos, w)' = f
  BY <1>2, <1>4 DEF Field
<1>6. Held(w, o + (j - 1))'
  BY <1>2, <1>3, <1>4, <1>5 DEF Held
<1> QED
  BY <1>1, <1>3, <1>4, <1>5, <1>6

LEMMA StillIn ==
  ASSUME NEW f, NEW w, FloatNow(f, w), UNCHANGED file, pos' = pos
  PROVE  /\ Field(pos, w)' = f /\ c' = c /\ Count' = Count
         /\ \A j : At(f, w, j) => At(f, w, j)'
<1>1. f = Field(pos, w)
  BY FloatFacts
<1>2. text' = text /\ c' = c /\ Count' = Count
  BY SameFile
<1>3. Field(pos, w)' = f
  BY <1>1, <1>2 DEF Field
<1>4. ASSUME NEW j, At(f, w, j) PROVE At(f, w, j)'
  BY <1>4, StillRead DEF At
<1> QED
  BY <1>2, <1>3, <1>4

(* How many characters have been read when the j-th is the current one.    *)
LEMMA CountIn ==
  ASSUME NEW f, NEW w, FloatNow(f, w), NEW j, At(f, w, j), j <= Len(Unsigned(f))
  PROVE  Count = SignLen(f) + j
<1>1. PICK o \in {0, 1} : o = SignLen(f)
  BY FloatFacts
<1>2. f = Field(pos, w) /\ ScanInv /\ Started /\ PosOK /\ Len(f) = o + Len(Unsigned(f)) /\ Len(Unsigned(f)) \in Nat
  BY <1>1, FloatFacts
<1>3. j \in Nat /\ Consumed = pos + (o + j) /\ CountsFrom = pos
  BY <1>1, <1>2 DEF At, Read
<1>4. Count = Consumed - CountsFrom
  BY <1>2, CountIs DEF ScanInv
<1>5. pos \in Nat
  BY <1>2 DEF PosOK, ScanInv, Typed
<1> QED
  BY <1>1, <1>3, <1>4, <1>5

(* ---- the words, step by step ------------------------------------------- *)

LEMMA WordOf ==
  /\ DOMAIN Word = {"infinity", "nan"} /\ Word["infinity"] = Word.infinity /\ Word["nan"] = Word.nan
BY DEF Word

LEMMA CountsOn ==
  ASSUME DOMAIN flt = DOMAIN FloatStart, Fresh, flt' = [flt EXCEPT !.i = @ + 1]
  PROVE  DOMAIN flt' = DOMAIN FloatStart /\ Fresh' /\ flt'.i = flt.i + 1
BY DEF Fresh, FloatStart

LEMMA AfterFloatSignOK ==
  ASSUME NEW f, NEW w, FloatNow(f, w), AfterFloatSign
  PROVE  FloatAt(f, w)' /\ Field(pos, w)' = f
<1>1. Read(w, 1) /\ SignLen(f) = 1 /\ Fresh /\ flt.i = 0
  BY DEF FloatNow, FloatAt, InWords, AfterFloatSign
<1>2. ShGetC /\ pos' = pos /\ flt' = flt /\ neg' = neg /\ pc' = "infinity"
  BY DEF AfterFloatSign, Within, args
<1>3. At(f, w, 0) /\ 0 <= Len(Unsigned(f))
  BY <1>1, FloatFacts DEF At
<1>4. At(f, w, 1)' /\ Field(pos, w)' = f
  <2>1. At(f, w, 0 + 1)' /\ Field(pos, w)' = f
    BY <1>2, <1>3, GotIn
  <2>2. 0 + 1 = 1
    OBVIOUS
  <2> QED
    BY <2>1, <2>2
<1>5. Agree(Unsigned(f), Word.infinity, 0)
  BY WordsAre, FloatFacts DEF Agree
<1>6. DOMAIN flt' = DOMAIN FloatStart /\ neg' = (f[1] = "-") /\ Fresh' /\ flt'.i = 0
  BY <1>1, <1>2, FloatFacts DEF Fresh
<1>7. InWords(f, w)'
  BY <1>2, <1>4, <1>5, <1>6 DEF InWords
<1> QED
  BY <1>2, <1>4, <1>6, <1>7 DEF FloatAt, InDigits, InExponent

LEMMA InfinityCharOK ==
  ASSUME NEW f, NEW w, FloatNow(f, w), WordChar, pc = "infinity"
  PROVE  FloatAt(f, w)' /\ Field(pos, w)' = f
<1>1. PICK i \in 0 .. 8 : i = flt.i
  BY DEF FloatNow, FloatAt, InWords
<1>2. PICK g : g = Unsigned(f)
  OBVIOUS
<1>3. Fresh /\ Agree(g, Word.infinity, i) /\ At(f, w, IF i < 8 THEN i + 1 ELSE 8)
  BY <1>1, <1>2 DEF FloatNow, FloatAt, InWords
<1>4. /\ i < 8 /\ c = Word.infinity[i + 1] /\ pc' = "infinity" /\ neg' = neg /\ pos' = pos
      /\ flt' = [flt EXCEPT !.i = @ + 1] /\ IF i + 1 < 8 THEN ShGetC ELSE UNCHANGED file
  BY <1>1, WordOf, WordsAre DEF WordChar, InWord, Within, args
<1>5. g \in Seq(Char) /\ Len(g) \in Nat /\ DOMAIN flt = DOMAIN FloatStart /\ neg = (f[1] = "-")
  BY <1>2, FloatFacts
<1>6. PICK j \in Nat : j = i + 1 /\ j # 0 /\ j <= 8
  BY <1>4
<1>7. At(f, w, j)
  BY <1>3, <1>4, <1>6
<1>8. j <= Len(g) /\ c = g[j]
  <2>1. c # EOF
    <3>1. c \in {"i", "n", "f", "t", "y"}
      <4>1. i \in {0, 1, 2, 3, 4, 5, 6, 7}
        BY <1>4
      <4> QED
        BY <1>4, <4>1, WordsAre, SMTT(30)
    <3>2. EOF \notin {"i", "n", "f", "t", "y"}
      BY EndAssumption DEF Digits
    <3> QED
      BY <3>1, <3>2
  <2> QED
    BY <1>2, <1>6, <1>7, <2>1, CurrentIn
<1>9. Agree(g, Word.infinity, j)
  <2>1. ASSUME NEW h \in 1 .. j PROVE g[h] = Word.infinity[h]
    <3>1. CASE h = j
      BY <1>4, <1>6, <1>8, <3>1
    <3>2. CASE h # j
      BY <1>3, <1>6, <3>2 DEF Agree
    <3> QED
      BY <3>1, <3>2
  <2> QED
    BY <1>6, <1>8, <2>1, WordsAre DEF Agree
<1>10. DOMAIN flt' = DOMAIN FloatStart /\ Fresh' /\ flt'.i = j
  BY <1>1, <1>3, <1>4, <1>5, <1>6, CountsOn
<1>11. At(f, w, IF j < 8 THEN j + 1 ELSE 8)' /\ Field(pos, w)' = f
  <2>1. CASE j < 8
    <3>1. At(f, w, j + 1)' /\ Field(pos, w)' = f
      BY <1>2, <1>4, <1>6, <1>7, <1>8, <2>1, GotIn
    <3> QED
      BY <2>1, <3>1
  <2>2. CASE ~(j < 8)
    <3>1. j = 8
      BY <1>6, <2>2
    <3>2. At(f, w, j)' /\ Field(pos, w)' = f
      BY <1>4, <1>6, <1>7, <2>2, StillIn
    <3> QED
      BY <2>2, <3>1, <3>2
  <2> QED
    BY <2>1, <2>2
<1>12. InWords(f, w)'
  BY <1>2, <1>4, <1>6, <1>9, <1>10, <1>11 DEF InWords
<1> QED
  BY <1>4, <1>5, <1>10, <1>11, <1>12 DEF FloatAt, InDigits, InExponent

LEMMA NanCharOK ==
  ASSUME NEW f, NEW w, FloatNow(f, w), WordChar, pc = "nan"
  PROVE  FloatAt(f, w)' /\ Field(pos, w)' = f
<1>1. PICK i \in 0 .. 3 : i = flt.i
  BY DEF FloatNow, FloatAt, InWords
<1>2. PICK g : g = Unsigned(f)
  OBVIOUS
<1>3. Fresh /\ Agree(g, NanParen, i) /\ At(f, w, IF i < 3 THEN i + 1 ELSE 3)
  BY <1>1, <1>2 DEF FloatNow, FloatAt, InWords
<1>4. /\ i < 3 /\ c = Word.nan[i + 1] /\ pc' = "nan" /\ neg' = neg /\ pos' = pos
      /\ flt' = [flt EXCEPT !.i = @ + 1] /\ IF i + 1 < 3 THEN ShGetC ELSE UNCHANGED file
  BY <1>1, WordOf, WordsAre DEF WordChar, InWord, Within, args
<1>5. g \in Seq(Char) /\ Len(g) \in Nat /\ DOMAIN flt = DOMAIN FloatStart /\ neg = (f[1] = "-")
  BY <1>2, FloatFacts
<1>6. PICK j \in Nat : j = i + 1 /\ j # 0 /\ j <= 3
  BY <1>4
<1>7. At(f, w, j)
  BY <1>3, <1>4, <1>6
<1>8. j <= Len(g) /\ c = g[j] /\ c = NanParen[j]
  <2>1. c \in {"n", "a"} /\ c = NanParen[j]
    <3>1. i \in {0, 1, 2}
      BY <1>4
    <3> QED
      BY <1>4, <1>6, <3>1, WordsAre, SMTT(30)
  <2>2. EOF \notin {"n", "a"}
    BY EndAssumption DEF Digits
  <2> QED
    BY <1>2, <1>6, <1>7, <2>1, <2>2, CurrentIn
<1>9. Agree(g, NanParen, j)
  <2>1. ASSUME NEW h \in 1 .. j PROVE g[h] = NanParen[h]
    <3>1. CASE h = j
      BY <1>8, <3>1
    <3>2. CASE h # j
      BY <1>3, <1>6, <3>2 DEF Agree
    <3> QED
      BY <3>1, <3>2
  <2> QED
    BY <1>6, <1>8, <2>1, WordsAre DEF Agree
<1>10. DOMAIN flt' = DOMAIN FloatStart /\ Fresh' /\ flt'.i = j
  BY <1>1, <1>3, <1>4, <1>5, <1>6, CountsOn
<1>11. At(f, w, IF j < 3 THEN j + 1 ELSE 3)' /\ Field(pos, w)' = f
  <2>1. CASE j < 3
    <3>1. At(f, w, j + 1)' /\ Field(pos, w)' = f
      BY <1>2, <1>4, <1>6, <1>7, <1>8, <2>1, GotIn
    <3> QED
      BY <2>1, <3>1
  <2>2. CASE ~(j < 3)
    <3>1. j = 3
      BY <1>6, <2>2
    <3>2. At(f, w, j)' /\ Field(pos, w)' = f
      BY <1>4, <1>6, <1>7, <2>2, StillIn
    <3> QED
      BY <2>2, <3>1, <3>2
  <2> QED
    BY <2>1, <2>2
<1>12. InWords(f, w)'
  BY <1>2, <1>4, <1>6, <1>9, <1>10, <1>11 DEF InWords
<1> QED
  BY <1>4, <1>5, <1>10, <1>11, <1>12 DEF FloatAt, InDigits, InExponent

(* The piece that is taken is none of a number or a word ...               *)
LEMMA NothingTaken ==
  ASSUME NEW f \in Seq(Char), NEW m \in Nat, m <= Len(Unsigned(f)), Beginning(SubSeq(Unsigned(f), 1, m)),
         m + 1 <= Len(Unsigned(f)) => DeadAt(Unsigned(f), m + 1), ~Float(SubSeq(Unsigned(f), 1, m))
  PROVE  ~IsFloat(FloatItem(f))
<1>1. PICK n \in Nat : n = Len(Unsigned(f))
  BY UnsignedIs
<1>2. m \in 0 .. Len(Unsigned(f)) /\ (m < Len(Unsigned(f)) => DeadAt(Unsigned(f), m + 1))
  BY <1>1
<1> QED
  BY <1>2, ItemFloat

(* ... or one, with the value that it has.                                 *)
LEMMA SomeTaken ==
  ASSUME NEW f, NEW w, FloatNow(f, w), NEW m \in Nat, m # 0, m <= Len(Unsigned(f)),
         Float(SubSeq(Unsigned(f), 1, m)),
         m + 1 <= Len(Unsigned(f)) => DeadAt(Unsigned(f), m + 1),
         pc' = "floated", D' = D, Count' = SignLen(f) + m,
         \A s : /\ Unsigned(s) = SubSeq(Unsigned(f), 1, m) /\ s[1] = f[1]
                => flt'.val = FloatValue(s, D.size),
         flt'.val.class \in {"over", "under"} => errno' = "ERANGE"
  PROVE  FloatAt(f, w)'
<1>1. f \in Seq(Char) /\ Len(Unsigned(f)) \in Nat
  BY FloatFacts
<1>2. m \in 0 .. Len(Unsigned(f)) /\ (m < Len(Unsigned(f)) => DeadAt(Unsigned(f), m + 1))
  BY <1>1
<1>3. Beginning(SubSeq(Unsigned(f), 1, m))
  BY DEF Beginning
<1>4. PICK s : s = FloatItem(f)
  OBVIOUS
<1>5. /\ Len(s) = SignLen(f) + m /\ Unsigned(s) = SubSeq(Unsigned(f), 1, m) /\ s[1] = f[1]
      /\ IsFloat(s)
  BY <1>1, <1>2, <1>3, <1>4, ItemFloat
<1>6. flt'.val = FloatValue(s, D.size)
  BY <1>5
<1>7. FloatGot(f)'
  BY <1>4, <1>5, <1>6 DEF FloatGot
<1> QED
  BY <1>7 DEF FloatAt

LEMMA WordTaken ==
  ASSUME NEW f, NEW w, FloatNow(f, w), NEW m \in Nat, m # 0, m <= Len(Unsigned(f)),
         Float(SubSeq(Unsigned(f), 1, m)),
         m + 1 <= Len(Unsigned(f)) => DeadAt(Unsigned(f), m + 1),
         pc' = "floated", D' = D, Count' = SignLen(f) + m,
         \/ Unsigned(f)[1] = "i" /\ flt' = [flt EXCEPT !.val = [class |-> "inf", neg |-> neg]]
         \/ Unsigned(f)[1] = "n" /\ flt' = [flt EXCEPT !.val = [class |-> "nan", neg |-> FALSE]]
  PROVE  FloatAt(f, w)'
<1>1. PICK g \in Seq(Char) : g = Unsigned(f) /\ Len(g) \in Nat
  BY FloatFacts
<1>2. m \in 0 .. Len(g) /\ 1 \in 1 .. m
  BY <1>1
<1>3. DOMAIN flt = DOMAIN FloatStart /\ neg = (f[1] = "-")
  BY FloatFacts
<1>4. "val" \in DOMAIN flt
  BY <1>3 DEF FloatStart
<1>5. \/ g[1] = "i" /\ flt'.val = [class |-> "inf", neg |-> f[1] = "-"]
      \/ g[1] = "n" /\ flt'.val = [class |-> "nan", neg |-> FALSE]
  BY <1>1, <1>3, <1>4
<1>6. PICK u : u = SubSeq(g, 1, m)
  OBVIOUS
<1>7. u[1] = g[1]
  BY <1>1, <1>2, <1>6, PieceIs
<1>8. ASSUME NEW s, Unsigned(s) = u, s[1] = f[1] PROVE flt'.val = FloatValue(s, D.size)
  BY <1>5, <1>7, <1>8 DEF FloatValue
<1>9. flt'.val.class \notin {"over", "under"}
  BY <1>5
<1> QED
  BY <1>1, <1>6, <1>8, <1>9, SomeTaken

LEMMA InfiniteOK ==
  ASSUME NEW f, NEW w, FloatNow(f, w), Infinite
  PROVE  FloatAt(f, w)' /\ Field(pos, w)' = f
<1>1. PICK i \in {3, 8} : i = flt.i
  BY DEF Infinite
<1>2. PICK g : g = Unsigned(f)
  OBVIOUS
<1>3. Agree(g, Word.infinity, i) /\ At(f, w, IF i < 8 THEN i + 1 ELSE 8)
  BY <1>1, <1>2 DEF FloatNow, FloatAt, InWords, Infinite
<1>4. /\ i < 8 => c # Word.infinity[i + 1]
      /\ pc' = "floated" /\ pos' = pos /\ flt' = [flt EXCEPT !.val = [class |-> "inf", neg |-> neg]]
      /\ D' = D /\ IF i = 8 THEN UNCHANGED file ELSE ShUnget
  BY <1>1, WordOf, WordsAre DEF Infinite, InWord, Gives, Within, args, D
<1>5. g \in Seq(Char) /\ Len(g) \in Nat
  BY <1>2, FloatFacts
<1>6. i \in Nat /\ i # 0 /\ i \in 1 .. 8 /\ i \in 0 .. 8 /\ i <= Len(g) /\ g[1] = "i"
  <2>1. i \in Nat /\ i # 0 /\ i \in 1 .. 8 /\ i \in 0 .. 8 /\ 1 \in 1 .. i
    BY <1>1
  <2>2. i <= Len(g) /\ g[1] = Word.infinity[1]
    BY <1>3, <2>1 DEF Agree
  <2> QED
    BY <2>1, <2>2, WordsAre
<1>7. Float(SubSeq(g, 1, i))
  BY <1>3, <1>5, <1>6, InfinityBegins
<1>8. i + 1 <= Len(g) => DeadAt(g, i + 1)
  <2> SUFFICES ASSUME i + 1 <= Len(g) PROVE DeadAt(g, i + 1)
    OBVIOUS
  <2>1. i < Len(g)
    BY <1>5, <1>6
  <2>2. i < 8 => g[i + 1] # Word.infinity[i + 1]
    <3> SUFFICES ASSUME i < 8 PROVE g[i + 1] # Word.infinity[i + 1]
      OBVIOUS
    <3>1. At(f, w, i + 1) /\ i + 1 # 0
      BY <1>3, <1>6
    <3>2. c = g[i + 1]
      BY <1>2, <3>1, CurrentIn
    <3> QED
      BY <1>4, <3>2
  <2> QED
    BY <1>3, <1>5, <1>6, <2>1, <2>2, InfinityOver
<1>9. Count' = SignLen(f) + i /\ Field(pos, w)' = f
  <2>1. CASE i = 8
    <3>1. At(f, w, 8) /\ 8 <= Len(g)
      BY <1>3, <1>6, <2>1
    <3>2. Count = SignLen(f) + 8
      BY <1>2, <3>1, CountIn
    <3> QED
      BY <1>4, <2>1, <3>2, StillIn
  <2>2. CASE i = 3
    <3>1. At(f, w, 4) /\ ShUnget
      <4>1. i < 8 /\ i + 1 = 4
        BY <2>2
      <4> QED
        BY <1>3, <1>4, <2>2, <4>1
    <3>2. Count' = SignLen(f) + (4 - 1) /\ Field(pos, w)' = f
      BY <1>4, <3>1, GivenIn
    <3> QED
      BY <2>2, <3>2
  <2> QED
    BY <1>1, <2>1, <2>2
<1>10. FloatAt(f, w)'
  BY <1>2, <1>4, <1>6, <1>7, <1>8, <1>9, WordTaken
<1> QED
  BY <1>9, <1>10

LEMMA InfinityEndsOK ==
  ASSUME NEW f, NEW w, FloatNow(f, w), WordEnds, pc = "infinity"
  PROVE  FloatAt(f, w)' /\ Field(pos, w)' = f
<1>1. PICK i \in 0 .. 8 : i = flt.i
  BY DEF FloatNow, FloatAt, InWords
<1>2. PICK g : g = Unsigned(f)
  OBVIOUS
<1>3. Fresh /\ Agree(g, Word.infinity, i) /\ At(f, w, IF i < 8 THEN i + 1 ELSE 8)
  BY <1>1, <1>2 DEF FloatNow, FloatAt, InWords
<1>4. /\ i \notin {3, 8} /\ c # Word.infinity[i + 1]
      /\ pc' = IF i = 0 THEN "nan" ELSE "wrong"
      /\ pos' = pos /\ flt' = flt /\ neg' = neg /\ UNCHANGED file
  <2>1. i \notin {3, 8} /\ pc' = IF i = 0 THEN "nan" ELSE "wrong"
    BY <1>1 DEF WordEnds, Wrong
  <2>2. pos' = pos /\ flt' = flt /\ neg' = neg /\ UNCHANGED file /\ ~InWord
    BY DEF WordEnds, Within, args
  <2>3. i < 8
    BY <2>1
  <2>4. c # Word.infinity[i + 1]
    BY <1>1, <2>2, <2>3, WordOf, WordsAre DEF InWord
  <2> QED
    BY <2>1, <2>2, <2>4
<1>5. g \in Seq(Char) /\ Len(g) \in Nat /\ DOMAIN flt' = DOMAIN FloatStart /\ neg' = (f[1] = "-")
  BY <1>2, <1>4, FloatFacts
<1>6. i \in Nat /\ i < 8 /\ At(f, w, i + 1) /\ i + 1 # 0
  BY <1>3, <1>4
<1>7. Field(pos, w)' = f /\ c' = c /\ At(f, w, i + 1)'
  BY <1>4, <1>6, StillIn
<1>8. CASE i = 0
  <2>1. c # "i" /\ At(f, w, 1)'
    BY <1>4, <1>7, <1>8, WordsAre
  <2>2. Agree(g, NanParen, 0)
    BY <1>5, WordsAre DEF Agree
  <2>3. Fresh' /\ flt'.i = 0 /\ pc' = "nan"
    BY <1>1, <1>3, <1>4, <1>8 DEF Fresh
  <2>4. InWords(f, w)'
    BY <1>2, <1>7, <2>1, <2>2, <2>3 DEF InWords
  <2> QED
    BY <1>5, <1>7, <2>3, <2>4 DEF FloatAt, InDigits, InExponent
<1>9. CASE i # 0
  <2>1. i \in 1 .. 8 /\ i \in 0 .. 8 /\ i <= Len(g)
    BY <1>3, <1>6, <1>9 DEF Agree
  <2>2. Beginning(SubSeq(g, 1, i)) /\ ~Float(SubSeq(g, 1, i))
    BY <1>3, <1>4, <1>5, <1>9, <2>1, InfinityBegins
  <2>3. i + 1 <= Len(g) => DeadAt(g, i + 1)
    <3> SUFFICES ASSUME i + 1 <= Len(g) PROVE DeadAt(g, i + 1)
      OBVIOUS
    <3>1. i < Len(g)
      BY <1>5, <1>6
    <3>2. c = g[i + 1]
      BY <1>2, <1>6, CurrentIn
    <3>3. g[i + 1] # Word.infinity[i + 1]
      BY <1>4, <3>2
    <3> QED
      BY <1>3, <1>5, <2>1, <3>1, <3>3, InfinityOver
  <2>4. ~IsFloat(FloatItem(f))
    BY <1>2, <1>6, <2>1, <2>2, <2>3, NothingTaken, FloatFacts
  <2>5. pc' = "wrong"
    BY <1>4, <1>9
  <2>6. InWords(f, w)'
    BY <2>4, <2>5 DEF InWords
  <2> QED
    BY <1>5, <1>7, <2>5, <2>6 DEF FloatAt, InDigits, InExponent
<1> QED
  BY <1>8, <1>9

LEMMA NanEndsOK ==
  ASSUME NEW f, NEW w, FloatNow(f, w), WordEnds, pc = "nan"
  PROVE  FloatAt(f, w)' /\ Field(pos, w)' = f
<1>1. PICK i \in 0 .. 3 : i = flt.i
  BY DEF FloatNow, FloatAt, InWords
<1>2. PICK g : g = Unsigned(f)
  OBVIOUS
<1>3. Fresh /\ Agree(g, NanParen, i) /\ At(f, w, IF i < 3 THEN i + 1 ELSE 3) /\ (i = 0 => c # "i")
  BY <1>1, <1>2 DEF FloatNow, FloatAt, InWords
<1>4. /\ i < 3 => c # Word.nan[i + 1]
      /\ pc' = CASE i = 0 -> "zero" [] i = 3 -> "paren" [] OTHER -> "wrong"
      /\ pos' = pos /\ flt' = flt /\ neg' = neg /\ UNCHANGED file
  <2>1. pc' = CASE i = 0 -> "zero" [] i = 3 -> "paren" [] OTHER -> "wrong"
    BY <1>1 DEF WordEnds, Wrong
  <2>2. pos' = pos /\ flt' = flt /\ neg' = neg /\ UNCHANGED file /\ ~InWord
    BY DEF WordEnds, Within, args
  <2>3. i < 3 => c # Word.nan[i + 1]
    BY <1>1, <2>2, WordOf, WordsAre DEF InWord
  <2> QED
    BY <2>1, <2>2, <2>3
<1>5. g \in Seq(Char) /\ Len(g) \in Nat /\ DOMAIN flt' = DOMAIN FloatStart /\ neg' = (f[1] = "-")
  BY <1>2, <1>4, FloatFacts
<1>6. PICK j \in Nat : j = (IF i < 3 THEN i + 1 ELSE 3) /\ j # 0 /\ At(f, w, j)
  BY <1>3
<1>7. Field(pos, w)' = f /\ c' = c /\ At(f, w, j)'
  BY <1>4, <1>6, StillIn
<1>8. CASE i = 0
  <2>1. c \notin {"i", "n"} /\ At(f, w, 1)'
    BY <1>3, <1>4, <1>6, <1>7, <1>8, WordsAre
  <2>2. Fresh' /\ pc' = "zero"
    BY <1>1, <1>3, <1>4, <1>8 DEF Fresh
  <2>3. InDigits(f, w)'
    BY <1>2, <1>7, <2>1, <2>2 DEF InDigits
  <2> QED
    BY <1>5, <1>7, <2>2, <2>3 DEF FloatAt, InWords, InExponent
<1>9. CASE i = 3
  <2>1. pc' = "paren" /\ At(f, w, 3)' /\ Agree(g, NanParen, 3)
    BY <1>3, <1>4, <1>6, <1>7, <1>9
  <2>2. InWords(f, w)'
    BY <1>2, <2>1 DEF InWords
  <2> QED
    BY <1>5, <1>7, <2>1, <2>2 DEF FloatAt, InDigits, InExponent
<1>10. CASE i \notin {0, 3}
  <2>1. i \in 1 .. 3 /\ i <= Len(g) /\ i \in Nat /\ i < 3 /\ j = i + 1
    BY <1>3, <1>6, <1>10 DEF Agree
  <2>2. Beginning(SubSeq(g, 1, i)) /\ ~Float(SubSeq(g, 1, i))
    BY <1>3, <1>5, <1>10, <2>1, NanBegins
  <2>3. i + 1 <= Len(g) => DeadAt(g, i + 1)
    <3> SUFFICES ASSUME i + 1 <= Len(g) PROVE DeadAt(g, i + 1)
      OBVIOUS
    <3>1. i < Len(g)
      BY <1>5, <2>1
    <3>2. c = g[i + 1]
      BY <1>2, <1>6, <2>1, CurrentIn
    <3>3. Word.nan[i + 1] = NanParen[i + 1]
      <4>1. i \in {1, 2}
        BY <2>1
      <4> QED
        BY <4>1, WordsAre, SMTT(30)
    <3>4. g[i + 1] # NanParen[i + 1]
      BY <1>4, <2>1, <3>2, <3>3
    <3> QED
      BY <1>3, <1>5, <2>1, <3>1, <3>4, NanOver
  <2>4. ~IsFloat(FloatItem(f))
    BY <1>2, <2>1, <2>2, <2>3, NothingTaken, FloatFacts
  <2>5. pc' = "wrong"
    BY <1>4, <1>10
  <2>6. InWords(f, w)'
    BY <2>4, <2>5 DEF InWords
  <2> QED
    BY <1>5, <1>7, <2>5, <2>6 DEF FloatAt, InDigits, InExponent
<1> QED
  BY <1>8, <1>9, <1>10

LEMMA ParenOK ==
  ASSUME NEW f, NEW w, FloatNow(f, w), Paren
  PROVE  FloatAt(f, w)' /\ Field(pos, w)' = f
<1>1. PICK g : g = Unsigned(f)
  OBVIOUS
<1>2. Agree(g, NanParen, 3) /\ At(f, w, 3)
  BY <1>1 DEF FloatNow, FloatAt, InWords, Paren
<1>3. /\ ShGetC /\ pc' = IF c' = "(" THEN "inparens" ELSE "nanback"
      /\ pos' = pos /\ flt' = flt /\ neg' = neg
  BY DEF Paren, Within, args
<1>4. g \in Seq(Char) /\ Len(g) \in Nat /\ DOMAIN flt' = DOMAIN FloatStart /\ neg' = (f[1] = "-")
  BY <1>1, <1>3, FloatFacts
<1>5. 3 <= Len(g) /\ \A i \in 1 .. 3 : g[i] = NanParen[i]
  BY <1>2 DEF Agree
<1>6. At(f, w, 4)' /\ Field(pos, w)' = f /\ c' = Following(f, 3)
  <2>1. At(f, w, 3 + 1)' /\ Field(pos, w)' = f /\ c' = Following(f, 3)
    BY <1>1, <1>2, <1>3, <1>5, GotIn
  <2>2. 3 + 1 = 4
    OBVIOUS
  <2> QED
    BY <2>1, <2>2
<1>7. CASE c' = "("
  <2>1. 4 <= Len(g) /\ g[4] = "("
    <3>1. c' = IF 4 <= Len(g) THEN g[4] ELSE EOF
      BY <1>1, <1>6 DEF Following
    <3> QED
      BY <1>7, <3>1, DigitValues
  <2>2. Agree(g, NanParen, 4)
    <3>1. ASSUME NEW i \in 1 .. 4 PROVE g[i] = NanParen[i]
      <4>1. CASE i = 4
        BY <2>1, <4>1, WordsAre
      <4>2. CASE i # 4
        BY <1>5, <4>2
      <4> QED
        BY <4>1, <4>2
    <3> QED
      BY <2>1, <3>1, WordsAre DEF Agree
  <2>3. Opened(g, 4 + 1)
    BY <1>4, <2>1, <2>2 DEF Opened
  <2>4. pc' = "inparens" /\ 4 \in Nat
    BY <1>3, <1>7
  <2>5. \E j \in Nat : At(f, w, j)' /\ Opened(g, j + 1)
    BY <1>6, <2>3, <2>4
  <2>6. InWords(f, w)'
    BY <1>1, <2>4, <2>5 DEF InWords
  <2> QED
    BY <1>4, <1>6, <2>4, <2>6 DEF FloatAt, InDigits, InExponent
<1>8. CASE c' # "("
  <2>1. pc' = "nanback"
    BY <1>3, <1>8
  <2>2. InWords(f, w)'
    BY <1>1, <1>2, <1>6, <1>8, <2>1 DEF InWords
  <2> QED
    BY <1>4, <1>6, <2>1, <2>2 DEF FloatAt, InDigits, InExponent
<1> QED
  BY <1>7, <1>8

LEMMA NanBackOK ==
  ASSUME NEW f, NEW w, FloatNow(f, w), NanBack
  PROVE  FloatAt(f, w)' /\ Field(pos, w)' = f
<1>1. PICK g : g = Unsigned(f)
  OBVIOUS
<1>2. Agree(g, NanParen, 3) /\ At(f, w, 4) /\ c # "("
  BY <1>1 DEF FloatNow, FloatAt, InWords, NanBack
<1>3. /\ ShUnget /\ pc' = "floated" /\ pos' = pos /\ D' = D
      /\ flt' = [flt EXCEPT !.val = [class |-> "nan", neg |-> FALSE]]
  BY DEF NanBack, Gives, Within, args, D
<1>4. g \in Seq(Char) /\ Len(g) \in Nat
  BY <1>1, FloatFacts
<1>5. 3 <= Len(g) /\ g[1] = "n"
  <2>1. 3 <= Len(g) /\ \A i \in 1 .. 3 : g[i] = NanParen[i]
    BY <1>2 DEF Agree
  <2>2. 1 \in 1 .. 3
    OBVIOUS
  <2> QED
    BY <2>1, <2>2, WordsAre
<1>6. 3 \in 1 .. 3
  OBVIOUS
<1>7. Float(SubSeq(g, 1, 3))
  BY <1>2, <1>4, <1>6, NanBegins
<1>8. 3 + 1 <= Len(g) => DeadAt(g, 3 + 1)
  <2> SUFFICES ASSUME 3 + 1 <= Len(g) PROVE DeadAt(g, 3 + 1)
    OBVIOUS
  <2>1. 3 < Len(g) /\ 4 <= Len(g) /\ 3 + 1 = 4
    BY <1>4
  <2>2. c = g[4]
    BY <1>1, <1>2, <2>1, CurrentIn
  <2>3. g[3 + 1] # NanParen[3 + 1]
    BY <1>2, <2>1, <2>2, WordsAre
  <2> QED
    BY <1>2, <1>4, <1>6, <2>1, <2>3, NanOver
<1>9. Count' = SignLen(f) + 3 /\ Field(pos, w)' = f
  <2>1. Count' = SignLen(f) + (4 - 1) /\ Field(pos, w)' = f
    BY <1>2, <1>3, GivenIn
  <2> QED
    BY <2>1
<1>10. FloatAt(f, w)'
  BY <1>1, <1>3, <1>5, <1>7, <1>8, <1>9, WordTaken
<1> QED
  BY <1>9, <1>10

(* How many have been read when the one behind the j-th has been, too.     *)
LEMMA GotCount ==
  ASSUME NEW f, NEW w, FloatNow(f, w), ShGetC, pos' = pos, NEW j, At(f, w, j), j + 1 <= Len(Unsigned(f))
  PROVE  Count' = SignLen(f) + (j + 1)
<1>1. PICK o \in {0, 1} : o = SignLen(f)
  BY FloatFacts
<1>2. /\ ScanInv /\ Started /\ Len(f) = o + Len(Unsigned(f)) /\ Len(Unsigned(f)) \in Nat /\ PosOK
  BY <1>1, FloatFacts
<1>3. j \in Nat /\ j <= Len(Unsigned(f))
  BY <1>2 DEF At
<1>4. PICK h \in Nat : h = j + 1
  BY <1>3
<1>5. At(f, w, h)' /\ Field(pos, w)' = f
  BY <1>3, <1>4, GotIn
<1>6. Consumed' = pos' + (o + h) /\ CountsFrom' = pos'
  <2>1. Read(w, o + h)'
    BY <1>1, <1>5 DEF At
  <2>2. o + h <= Len(f)
    BY <1>1, <1>2, <1>4
  <2> QED
    BY <1>5, <2>1, <2>2 DEF Read
<1>7. FileOK' /\ Started'
  BY <1>2, CallKeeps
<1>8. Count' = Consumed' - CountsFrom'
  BY <1>7, CountIsNext
<1>9. pos \in Nat
  BY <1>2 DEF PosOK, ScanInv, Typed
<1> QED
  BY <1>1, <1>4, <1>6, <1>8, <1>9

LEMMA InParensOK ==
  ASSUME NEW f, NEW w, FloatNow(f, w), InParens
  PROVE  FloatAt(f, w)' /\ Field(pos, w)' = f
<1>1. PICK g : g = Unsigned(f)
  OBVIOUS
<1>2. PICK j \in Nat : At(f, w, j) /\ Opened(g, j + 1)
  BY <1>1 DEF FloatNow, FloatAt, InWords, InParens
<1>3. /\ ShGetC /\ pos' = pos /\ neg' = neg /\ D' = D
      /\ \/ c' \in WordChars /\ pc' = "inparens" /\ flt' = flt
         \/ /\ c' = ")" /\ pc' = "floated" /\ flt' = [flt EXCEPT !.val = [class |-> "nan", neg |-> FALSE]]
         \/ c' \notin WordChars \cup {")"} /\ pc' = "wrong" /\ flt' = flt
  BY DEF InParens, Gives, Wrong, Within, args, D
<1>4. g \in Seq(Char) /\ Len(g) \in Nat /\ DOMAIN flt = DOMAIN FloatStart /\ neg' = (f[1] = "-")
  BY <1>1, <1>3, FloatFacts
<1>5. PICK h \in Nat : h = j + 1 /\ h - 1 = j
  BY <1>2
<1>6. /\ h \in 5 .. Len(g) + 1 /\ j <= Len(g) /\ Opened(g, h)
      /\ Agree(g, NanParen, 4) /\ \A i \in 5 .. j : g[i] \in WordChars
  BY <1>2, <1>4, <1>5 DEF Opened
<1>7. At(f, w, h)' /\ Field(pos, w)' = f /\ c' = IF h <= Len(g) THEN g[h] ELSE EOF
  <2>1. At(f, w, j + 1)' /\ Field(pos, w)' = f /\ c' = Following(f, j)
    BY <1>1, <1>2, <1>3, <1>6, GotIn
  <2> QED
    BY <1>1, <1>5, <2>1 DEF Following
<1>8. CASE c' \in WordChars /\ pc' = "inparens" /\ flt' = flt
  <2>1. h <= Len(g) /\ g[h] \in WordChars
    BY <1>7, <1>8, DigitValues
  <2>2. Opened(g, h + 1)
    <3>1. h + 1 \in 5 .. Len(g) + 1 /\ (h + 1) - 1 = h
      BY <1>4, <1>6, <2>1
    <3>2. ASSUME NEW i \in 5 .. (h + 1) - 1 PROVE g[i] \in WordChars
      <4>1. CASE i = h
        BY <2>1, <4>1
      <4>2. CASE i # h
        BY <1>5, <1>6, <4>2
      <4> QED
        BY <4>1, <4>2
    <3> QED
      BY <1>4, <1>6, <3>1, <3>2 DEF Opened
  <2>3. \E i \in Nat : At(f, w, i)' /\ Opened(g, i + 1)
    BY <1>5, <1>7, <2>2
  <2>4. InWords(f, w)'
    BY <1>1, <1>8, <2>3 DEF InWords
  <2> QED
    BY <1>4, <1>7, <1>8, <2>4 DEF FloatAt, InDigits, InExponent
<1>9. CASE c' = ")" /\ pc' = "floated" /\ flt' = [flt EXCEPT !.val = [class |-> "nan", neg |-> FALSE]]
  <2>1. h <= Len(g) /\ g[h] = ")"
    BY <1>7, <1>9, DigitValues
  <2>2. Float(SubSeq(g, 1, h)) /\ (h < Len(g) => DeadAt(g, h + 1))
    BY <1>6, <2>1, ParenCloses
  <2>3. h + 1 <= Len(g) => DeadAt(g, h + 1)
    BY <1>4, <1>5, <2>2
  <2>4. g[1] = "n" /\ h # 0
    <3>1. 1 \in 1 .. 4 /\ h # 0
      BY <1>6
    <3>2. g[1] = NanParen[1]
      BY <1>6, <3>1 DEF Agree
    <3> QED
      BY <3>1, <3>2, WordsAre
  <2>5. Count' = SignLen(f) + h
    BY <1>1, <1>2, <1>3, <1>5, <2>1, GotCount
  <2>6. FloatAt(f, w)'
    BY <1>1, <1>3, <1>5, <1>9, <2>1, <2>2, <2>3, <2>4, <2>5, WordTaken
  <2> QED
    BY <1>7, <2>6
<1>10. CASE c' \notin WordChars \cup {")"} /\ pc' = "wrong" /\ flt' = flt
  <2>1. Beginning(SubSeq(g, 1, j)) /\ ~Float(SubSeq(g, 1, j))
    <3>1. Beginning(SubSeq(g, 1, h - 1)) /\ ~Float(SubSeq(g, 1, h - 1))
      BY <1>6, ParenBegins
    <3> QED
      BY <1>5, <3>1
  <2>2. j + 1 <= Len(g) => DeadAt(g, j + 1)
    <3> SUFFICES ASSUME h <= Len(g) PROVE DeadAt(g, h)
      BY <1>5
    <3>1. g[h] \notin WordChars \cup {")"}
      BY <1>7, <1>10
    <3> QED
      BY <1>6, <3>1, ParenOver
  <2>3. ~IsFloat(FloatItem(f))
    BY <1>1, <1>2, <1>6, <2>1, <2>2, NothingTaken, FloatFacts
  <2>4. InWords(f, w)'
    BY <1>10, <2>3 DEF InWords
  <2> QED
    BY <1>4, <1>7, <1>10, <2>4 DEF FloatAt, InDigits, InExponent
<1> QED
  BY <1>3, <1>8, <1>9, <1>10

LEMMA FloatRejectOK ==
  ASSUME NEW f, NEW w, FloatNow(f, w), FloatReject \/ FloatRejected
  PROVE  FloatAt(f, w)' /\ Field(pos, w)' = f
<1>1. ~IsFloat(FloatItem(f)) /\ f = Field(pos, w) /\ ScanInv /\ Started
  <2>1. pc \in {"wrong", "rewound"}
    BY DEF FloatReject, FloatRejected
  <2> QED
    BY <2>1, FloatFacts DEF FloatNow, FloatAt, InWords
<1>2. CASE FloatReject
  <2>1. ShUnget /\ pc' = "rewound" /\ pos' = pos /\ neg' = neg /\ flt' = flt
    BY <1>2 DEF FloatReject, Within, args
  <2>2. text' = text
    BY <1>1, <2>1, CallKeeps
  <2>3. Field(pos, w)' = f
    BY <1>1, <2>1, <2>2 DEF Field
  <2>4. DOMAIN flt' = DOMAIN FloatStart /\ neg' = (f[1] = "-")
    BY <2>1, FloatFacts
  <2>5. InWords(f, w)'
    BY <1>1, <2>1 DEF InWords
  <2> QED
    BY <2>1, <2>3, <2>4, <2>5 DEF FloatAt, InDigits, InExponent
<1>3. CASE FloatRejected
  <2>1. ShLim(0) /\ pc' = "floated" /\ pos' = pos
    BY <1>3 DEF FloatRejected, Within, args
  <2>2. Count' = 0 /\ text' = text
    BY <1>1, <2>1, LimitCount
  <2>3. Field(pos, w)' = f
    BY <1>1, <2>1, <2>2 DEF Field
  <2> QED
    BY <1>1, <2>1, <2>2, <2>3 DEF FloatAt, FloatGot
<1> QED
  BY <1>2, <1>3

(* ---- the digits, step by step ------------------------------------------ *)

LEMMA FrontGrows ==
  ASSUME NEW g, NEW j, FrontOK(g, j), j <= Len(g),
         (g[j] = "." /\ ~Contains(Foregoing(g, j), ".")) \/ Val(g[j]) < RadixOf(g)
  PROVE  /\ FrontOK(g, j + 1) /\ j + 1 \in Nat
         /\ Contains(Foregoing(g, j + 1), ".") <=> Contains(Foregoing(g, j), ".") \/ g[j] = "."
         /\ g[j] = "." => /\ DigitsBefore(g, j + 1) = DigitsBefore(g, j)
                          /\ Fractional(Foregoing(g, j + 1)) = 0
         /\ g[j] # "." => /\ DigitsBefore(g, j + 1) = Append(DigitsBefore(g, j), g[j])
                          /\ Fractional(Foregoing(g, j + 1))
                                = IF Contains(Foregoing(g, j), ".") THEN Fractional(Foregoing(g, j)) + 1 ELSE 0
<1>1. /\ g \in Seq(Char) /\ Len(g) \in Nat /\ j \in Nat \ {0}
      /\ DigitsStart(g) \in {1, 3} /\ DigitsStart(g) <= j /\ RadixOf(g) \in {10, 16}
      /\ Foregoing(g, j) \in Seq(Char) /\ DigitsBefore(g, j) \in Seq(Char)
  BY FrontIs DEF Radixes
<1>2. PICK m \in Seq(Char) : m = Foregoing(g, j)
  BY <1>1
<1>3. PICK x \in Char : x = g[j]
  BY <1>1
<1>4. PICK n : n = Foregoing(g, j + 1)
  OBVIOUS
<1>5. n = Append(m, x)
  <2>1. PICK a \in Nat \ {0} : a = DigitsStart(g)
    BY <1>1
  <2>2. PICK b \in Nat : b = j - 1
    BY <1>1
  <2>3. a <= b + 1 /\ b + 1 <= Len(g) /\ b + 1 = j /\ (j + 1) - 1 = b + 1
    BY <1>1, <2>1, <2>2
  <2>4. SubSeq(g, a, b + 1) = Append(SubSeq(g, a, b), g[b + 1])
    BY <1>1, <2>1, <2>2, <2>3, SliceGrows
  <2> QED
    BY <1>2, <1>3, <1>4, <2>1, <2>2, <2>3, <2>4 DEF Foregoing
<1>6. Contains(n, ".") <=> Contains(m, ".") \/ x = "."
  BY <1>5, ContainsGrows
<1>7. DigitsBefore(g, j) = RemoveFirst(m, ".") /\ DigitsBefore(g, j + 1) = RemoveFirst(n, ".")
  BY <1>2, <1>4 DEF DigitsBefore
<1>8. x = "." => DigitsBefore(g, j + 1) = DigitsBefore(g, j) /\ Fractional(n) = 0
  <2> SUFFICES ASSUME x = "." PROVE DigitsBefore(g, j + 1) = DigitsBefore(g, j) /\ Fractional(n) = 0
    OBVIOUS
  <2>1. ~Contains(m, ".")
    BY <1>1, <1>2, <1>3, DigitValues, SMTT(30)
  <2>2. RemoveFirst(Append(m, "."), ".") = m /\ Fractional(Append(m, ".")) = 0
    BY <2>1, PointAppended
  <2>3. RemoveFirst(m, ".") = m
    BY <2>1, WithoutPointType
  <2> QED
    BY <1>5, <1>7, <2>2, <2>3
<1>9. x # "." => /\ DigitsBefore(g, j + 1) = Append(DigitsBefore(g, j), x)
                 /\ Fractional(n) = IF Contains(m, ".") THEN Fractional(m) + 1 ELSE 0
  <2> SUFFICES ASSUME x # "."
               PROVE  /\ DigitsBefore(g, j + 1) = Append(DigitsBefore(g, j), x)
                      /\ Fractional(n) = IF Contains(m, ".") THEN Fractional(m) + 1 ELSE 0
    OBVIOUS
  <2>1. /\ RemoveFirst(Append(m, x), ".") = Append(RemoveFirst(m, "."), x)
        /\ Fractional(Append(m, x)) = IF Contains(m, ".") THEN Fractional(m) + 1 ELSE 0
    BY DigitAppended
  <2> QED
    BY <1>5, <1>7, <2>1
<1>10. FrontOK(g, j + 1)
  <2>1. j + 1 \in DigitsStart(g) .. Len(g) + 1
    BY <1>1
  <2>2. PICK d : d = DigitsBefore(g, j + 1)
    OBVIOUS
  <2>3. PICK e \in Seq(Char) : e = DigitsBefore(g, j)
    BY <1>1
  <2>4. \A i \in DOMAIN e : Val(e[i]) < RadixOf(g)
    BY <2>3 DEF FrontOK
  <2>5. \A i \in DOMAIN d : Val(d[i]) < RadixOf(g)
    <3>1. CASE x = "."
      BY <1>8, <2>2, <2>3, <2>4, <3>1
    <3>2. CASE x # "."
      <4>1. d = Append(e, x) /\ Val(x) < RadixOf(g)
        BY <1>3, <1>9, <2>2, <2>3, <3>2
      <4>2. /\ d \in Seq(Char) /\ Len(d) = Len(e) + 1 /\ d[Len(e) + 1] = x
            /\ \A i \in 1 .. Len(e) : d[i] = e[i]
        BY <4>1, AppendIs
      <4>3. DOMAIN d = 1 .. Len(e) + 1 /\ DOMAIN e = 1 .. Len(e) /\ Len(e) \in Nat
        BY <4>2
      <4>4. ASSUME NEW i \in 1 .. Len(e) + 1 PROVE Val(d[i]) < RadixOf(g)
        <5>1. CASE i = Len(e) + 1
          BY <4>1, <4>2, <5>1
        <5>2. CASE i # Len(e) + 1
          <6>1. i \in 1 .. Len(e)
            BY <4>3, <5>2
          <6> QED
            BY <2>4, <4>2, <4>3, <6>1
        <5> QED
          BY <5>1, <5>2
      <4> QED
        BY <4>3, <4>4
    <3> QED
      BY <3>1, <3>2
  <2> QED
    BY <1>1, <2>1, <2>2, <2>5 DEF FrontOK
<1> QED
  BY <1>1, <1>2, <1>3, <1>4, <1>6, <1>8, <1>9, <1>10

(* Nothing is gathered before the digits begin.                            *)
LEMMA GatheredStart ==
  ASSUME NEW g \in Seq(Char), Len(g) # 0 => g[1] \notin {"i", "n"}, NEW m,
         m.hex = IsHex(g), m.dig = FALSE, m.rad = FALSE, m.tail = FALSE,
         m.num = 0, m.cnt = 0, m.point = 0
  PROVE  /\ Gathered(g, DigitsStart(g), m)
         /\ Foregoing(g, DigitsStart(g)) = <<>> /\ DigitsBefore(g, DigitsStart(g)) = <<>>
<1>1. PICK j \in {1, 3} : j = DigitsStart(g)
  BY DEF DigitsStart
<1>2. Len(g) \in Nat /\ j \in j .. Len(g) + 1
  BY <1>1 DEF DigitsStart, IsHex
<1>3. PICK q : q = Foregoing(g, j)
  OBVIOUS
<1>4. q = <<>>
  <2>1. q = SubSeq(g, j, j - 1)
    BY <1>1, <1>3 DEF Foregoing
  <2> QED
    BY <1>1, <1>2, <2>1
<1>5. ~Contains(q, ".")
  BY <1>4 DEF Contains
<1>6. DigitsBefore(g, j) = <<>>
  <2>1. q \in Seq(Char)
    BY <1>4
  <2> QED
    BY <1>3, <1>4, <1>5, <2>1, WithoutPointType DEF DigitsBefore
<1>7. FrontOK(g, j)
  BY <1>1, <1>2, <1>6 DEF FrontOK
<1>8. PICK r \in Radixes : r = RadixOf(g)
  BY DEF Radixes, RadixOf
<1>9. PICK z : z = Significant(DigitsBefore(g, j))
  OBVIOUS
<1>10. z = <<>> /\ Worth(z, r) = 0 /\ More(z, r) = FALSE
  BY <1>6, <1>9, NothingSignificant, KeptNothing
<1>11. Gathered(g, j, m)
  <2>1. Len(z) = 0
    BY <1>10
  <2>2. (m.dig <=> DigitsBefore(g, j) # <<>>) /\ (m.rad <=> Contains(Foregoing(g, j), "."))
    BY <1>3, <1>5, <1>6
  <2>3. m.cnt = Len(z) /\ m.num = Worth(z, r) /\ m.tail = More(z, r)
    BY <1>10, <2>1
  <2>4. m.point = IF m.rad THEN m.cnt - Fractional(Foregoing(g, j)) ELSE 0
    OBVIOUS
  <2> QED
    BY <1>7, <1>8, <1>9, <2>2, <2>3, <2>4 DEF Gathered
<1> QED
  BY <1>1, <1>3, <1>4, <1>6, <1>11

LEMMA GatheredIs ==
  ASSUME NEW g, NEW j, NEW m, Gathered(g, j, m), NEW r, r = RadixOf(g), NEW d, d = DigitsBefore(g, j),
         NEW z, z = Significant(d), NEW q, q = Foregoing(g, j)
  PROVE  /\ g \in Seq(Char) /\ Len(g) \in Nat /\ j \in Nat \ {0} /\ j <= Len(g) + 1 /\ FrontOK(g, j)
         /\ (Len(g) # 0 => g[1] \notin {"i", "n"}) /\ r \in Radixes /\ d \in Seq(Char)
         /\ z \in Seq(Char) /\ Len(z) \in Nat
         /\ m.hex = IsHex(g) /\ (m.dig <=> d # <<>>) /\ (m.rad <=> Contains(q, "."))
         /\ m.cnt = Len(z) /\ m.num = Worth(z, r) /\ m.tail = More(z, r)
         /\ m.point = (IF m.rad THEN m.cnt - Fractional(q) ELSE 0)
         /\ Fractional(q) \in Nat
<1>1. FrontOK(g, j)
  BY DEF Gathered
<1>2. /\ g \in Seq(Char) /\ Len(g) \in Nat /\ j \in Nat \ {0} /\ j <= Len(g) + 1
      /\ r \in Radixes /\ d \in Seq(Char) /\ q \in Seq(Char)
  BY <1>1, FrontIs
<1>3. Fractional(q) \in Nat
  <2>1. Fractional(q) \in 0 .. Len(q)
    BY <1>2, WithoutPointType
  <2>2. Len(q) \in Nat
    BY <1>2
  <2> QED
    BY <2>1, <2>2
<1>4. z \in Seq(Char) /\ Len(z) \in Nat
  BY <1>2, SignificantIs
<1> QED
  BY <1>1, <1>2, <1>3, <1>4 DEF Gathered

LEMMA ZeroAdded ==
  ASSUME NEW S, NEW d \in Seq(S), NEW x \in S, x = "0", Significant(d) = <<>>
  PROVE  Significant(Append(d, x)) = <<>> /\ Append(d, x) # <<>>
<1>1. PICK v : v = Append(d, x)
  OBVIOUS
<1>2. v # <<>>
  BY <1>1, AppendIs
<1>3. Significant(v) = IF Significant(d) = <<>> /\ x = "0" THEN <<>> ELSE Append(Significant(d), x)
  BY <1>1, SignificantGrows
<1> QED
  BY <1>1, <1>2, <1>3

LEMMA GatherNought ==
  ASSUME NEW g, NEW j, NEW m, Gathered(g, j, m), j <= Len(g), m.cnt = 0,
         NEW x, x = g[j], x # ".", Val(x) < RadixOf(g),
         Significant(Append(DigitsBefore(g, j), x)) = <<>>, Append(DigitsBefore(g, j), x) # <<>>,
         NEW n, n.hex = m.hex, n.dig = TRUE, n.rad = m.rad, n.num = m.num, n.cnt = m.cnt, n.tail = m.tail,
         n.point = IF m.rad THEN m.point - 1 ELSE m.point
  PROVE  Gathered(g, j + 1, n)
<1>1. PICK r : r = RadixOf(g)
  OBVIOUS
<1>2. PICK d : d = DigitsBefore(g, j)
  OBVIOUS
<1>3. PICK z : z = Significant(d)
  OBVIOUS
<1>4. PICK q : q = Foregoing(g, j)
  OBVIOUS
<1>5. /\ g \in Seq(Char) /\ Len(g) \in Nat /\ j \in Nat \ {0} /\ FrontOK(g, j)
      /\ (Len(g) # 0 => g[1] \notin {"i", "n"}) /\ r \in Radixes /\ d \in Seq(Char)
      /\ z \in Seq(Char) /\ Len(z) \in Nat
      /\ m.hex = IsHex(g) /\ (m.rad <=> Contains(q, "."))
      /\ m.cnt = Len(z) /\ m.num = Worth(z, r) /\ m.tail = More(z, r)
      /\ m.point = (IF m.rad THEN m.cnt - Fractional(q) ELSE 0)
      /\ Fractional(q) \in Nat
  BY <1>1, <1>2, <1>3, <1>4, GatheredIs
<1>7. PICK h : h = j + 1
  OBVIOUS
<1>8. PICK p : p = Foregoing(g, h)
  OBVIOUS
<1>9. /\ FrontOK(g, h) /\ (Contains(p, ".") <=> Contains(q, "."))
      /\ DigitsBefore(g, h) = Append(d, x)
      /\ Fractional(p) = IF Contains(q, ".") THEN Fractional(q) + 1 ELSE 0
  BY <1>1, <1>2, <1>4, <1>5, <1>7, <1>8, FrontGrows, SMTT(30)
<1>10. z = <<>>
  BY <1>5
<1>12. Significant(Append(d, x)) = <<>> /\ Append(d, x) # <<>>
  BY <1>2
<1>14. n.point = IF n.rad THEN n.cnt - Fractional(p) ELSE 0
  <2>1. CASE m.rad
    <3>1. n.point = (Len(z) - Fractional(q)) - 1 /\ n.cnt = Len(z) /\ Fractional(p) = Fractional(q) + 1 /\ n.rad
      BY <1>5, <1>9, <2>1
    <3>2. (Len(z) - Fractional(q)) - 1 = Len(z) - (Fractional(q) + 1)
      BY <1>5
    <3> QED
      BY <3>1, <3>2
  <2>2. CASE ~m.rad
    BY <1>5, <2>2
  <2> QED
    BY <2>1, <2>2
<1>15. Gathered(g, h, n)
  BY <1>1, <1>5, <1>8, <1>9, <1>10, <1>12, <1>14 DEF Gathered
<1> QED
  BY <1>7, <1>15

(* A zero before the first digit that counts.                              *)
LEMMA GatherZero ==
  ASSUME NEW g, NEW j, NEW m, Gathered(g, j, m), j <= Len(g), g[j] = "0", m.cnt = 0,
         NEW n, n.hex = m.hex, n.dig = TRUE, n.rad = m.rad, n.num = m.num, n.cnt = m.cnt, n.tail = m.tail,
         n.point = IF m.rad THEN m.point - 1 ELSE m.point
  PROVE  Gathered(g, j + 1, n)
<1>1. PICK x : x = g[j] /\ x = "0"
  OBVIOUS
<1>2. PICK d : d = DigitsBefore(g, j)
  OBVIOUS
<1>3. PICK z : z = Significant(d)
  OBVIOUS
<1>4. /\ d \in Seq(Char) /\ Len(z) = 0 /\ z \in Seq(Char) /\ RadixOf(g) \in {10, 16}
      /\ g \in Seq(Char) /\ j \in 1 .. Len(g)
  BY <1>2, <1>3, GatheredIs DEF Radixes
<1>5. z = <<>> /\ x \in Char
  BY <1>1, <1>4
<1>6. Significant(Append(d, x)) = <<>> /\ Append(d, x) # <<>>
  <2>1. z = <<>> /\ x = "0" /\ z = Significant(d)
    BY <1>1, <1>3, <1>5
  <2>2. d \in Seq(Char) /\ x \in Char
    BY <1>4, <1>5
  <2> QED
    BY <2>1, <2>2, ZeroAdded
<1>7. x # "." /\ Val(x) < RadixOf(g)
  BY <1>1, <1>4, DigitValues
<1> QED
  BY <1>1, <1>2, <1>6, <1>7, GatherNought

(* The point.                                                              *)
LEMMA GatherPoint ==
  ASSUME NEW g, NEW j, NEW m, Gathered(g, j, m), j <= Len(g), g[j] = ".", ~m.rad,
         NEW n, n.hex = m.hex, n.dig = m.dig, n.rad = TRUE, n.num = m.num, n.cnt = m.cnt, n.tail = m.tail,
         n.point = m.cnt
  PROVE  Gathered(g, j + 1, n)
<1>1. PICK r : r = RadixOf(g)
  OBVIOUS
<1>2. PICK d : d = DigitsBefore(g, j)
  OBVIOUS
<1>3. PICK z : z = Significant(d)
  OBVIOUS
<1>4. PICK q : q = Foregoing(g, j)
  OBVIOUS
<1>5. /\ g \in Seq(Char) /\ Len(g) \in Nat /\ j \in Nat \ {0} /\ FrontOK(g, j)
      /\ (Len(g) # 0 => g[1] \notin {"i", "n"}) /\ Len(z) \in Nat
      /\ m.hex = IsHex(g) /\ (m.dig <=> d # <<>>) /\ (m.rad <=> Contains(q, "."))
      /\ m.cnt = Len(z) /\ m.num = Worth(z, r) /\ m.tail = More(z, r)
  BY <1>1, <1>2, <1>3, <1>4, GatheredIs
<1>7. PICK h : h = j + 1
  OBVIOUS
<1>8. PICK p : p = Foregoing(g, h)
  OBVIOUS
<1>9. FrontOK(g, h) /\ Contains(p, ".") /\ DigitsBefore(g, h) = d /\ Fractional(p) = 0
  BY <1>2, <1>4, <1>5, <1>7, <1>8, FrontGrows
<1>14. n.point = n.cnt - Fractional(p) /\ n.rad
  BY <1>5, <1>9
<1>15. Gathered(g, h, n)
  BY <1>1, <1>3, <1>5, <1>8, <1>9, <1>14 DEF Gathered
<1> QED
  BY <1>7, <1>15

(* A digit that counts.                                                    *)
LEMMA GatherDigit ==
  ASSUME NEW g, NEW j, NEW m, Gathered(g, j, m), j <= Len(g), NEW r, r = RadixOf(g), NEW x, x = g[j],
         Val(x) < r, m.cnt = 0 => x # "0",
         NEW n, n.hex = m.hex, n.dig, n.rad = m.rad, n.cnt = m.cnt + 1,
         n.num = IF m.cnt < Kept[r] THEN m.num * r + Val(x) ELSE m.num,
         n.tail = (m.tail \/ (~(m.cnt < Kept[r]) /\ x # "0")), n.point = m.point
  PROVE  Gathered(g, j + 1, n)
<1>2. PICK d : d = DigitsBefore(g, j)
  OBVIOUS
<1>3. PICK z : z = Significant(d)
  OBVIOUS
<1>4. PICK q : q = Foregoing(g, j)
  OBVIOUS
<1>5. /\ g \in Seq(Char) /\ Len(g) \in Nat /\ j \in Nat \ {0} /\ FrontOK(g, j)
      /\ (Len(g) # 0 => g[1] \notin {"i", "n"}) /\ r \in Radixes /\ d \in Seq(Char)
      /\ z \in Seq(Char) /\ Len(z) \in Nat
      /\ m.hex = IsHex(g) /\ (m.rad <=> Contains(q, "."))
      /\ m.cnt = Len(z) /\ m.num = Worth(z, r) /\ m.tail = More(z, r)
      /\ m.point = (IF m.rad THEN m.cnt - Fractional(q) ELSE 0)
      /\ Fractional(q) \in Nat
  BY <1>2, <1>3, <1>4, GatheredIs
<1>6. x # "."
  <2>1. r <= 16 /\ r \in Nat
    BY <1>5 DEF Radixes
  <2>2. Val(".") = 255
    BY DigitValues
  <2> QED
    BY <2>1, <2>2
<1>7. PICK h : h = j + 1
  OBVIOUS
<1>8. PICK p : p = Foregoing(g, h)
  OBVIOUS
<1>9. /\ FrontOK(g, h) /\ (Contains(p, ".") <=> Contains(q, "."))
      /\ DigitsBefore(g, h) = Append(d, x)
      /\ Fractional(p) = IF Contains(q, ".") THEN Fractional(q) + 1 ELSE 0
  BY <1>2, <1>4, <1>5, <1>6, <1>7, <1>8, FrontGrows
<1>10. x \in Char
  BY <1>5
<1>11. PICK y : y = Significant(Append(d, x))
  OBVIOUS
<1>12. y = Append(z, x)
  <2>1. z = <<>> => x # "0"
    BY <1>5
  <2> QED
    BY <1>3, <1>5, <1>10, <1>11, <2>1, SignificantGrows
<1>13. Append(d, x) # <<>> /\ Len(y) = Len(z) + 1
  <2>1. PICK v : v = Append(d, x)
    OBVIOUS
  <2>2. v # <<>>
    BY <1>5, <1>10, <2>1, AppendIs
  <2>3. Len(y) = Len(z) + 1
    BY <1>5, <1>10, <1>12, AppendIs
  <2> QED
    BY <2>1, <2>2, <2>3
<1>14. n.point = IF n.rad THEN n.cnt - Fractional(p) ELSE 0
  <2>1. CASE m.rad
    <3>1. n.point = Len(z) - Fractional(q) /\ n.cnt = Len(z) + 1 /\ Fractional(p) = Fractional(q) + 1 /\ n.rad
      BY <1>5, <1>9, <2>1
    <3>2. Len(z) - Fractional(q) = (Len(z) + 1) - (Fractional(q) + 1)
      BY <1>5
    <3> QED
      BY <3>1, <3>2
  <2>2. CASE ~m.rad
    BY <1>5, <2>2
  <2> QED
    BY <2>1, <2>2
<1>15. n.num = Worth(y, r) /\ n.tail = More(y, r)
  <2>1. /\ Worth(y, r) = IF Len(z) < Kept[r] THEN Worth(z, r) * r + Val(x) ELSE Worth(z, r)
        /\ More(y, r) <=> More(z, r) \/ (~(Len(z) < Kept[r]) /\ x # "0")
    BY <1>5, <1>10, <1>12, KeptGrows
  <2>2. More(y, r) \in BOOLEAN /\ More(z, r) \in BOOLEAN
    BY DEF More
  <2>3. n.tail = (More(z, r) \/ (~(Len(z) < Kept[r]) /\ x # "0"))
    BY <1>5
  <2> QED
    BY <1>5, <2>1, <2>2, <2>3
<1>16. Gathered(g, h, n)
  <2>1. n.cnt = Len(y) /\ (n.dig <=> Append(d, x) # <<>>) /\ n.hex = IsHex(g) /\ (n.rad <=> Contains(p, "."))
    BY <1>5, <1>9, <1>13
  <2> QED
    BY <1>5, <1>8, <1>9, <1>11, <1>14, <1>15, <2>1 DEF Gathered
<1> QED
  BY <1>7, <1>16

LEMMA FieldNames ==
  DOMAIN FloatStart
    = {"i", "hex", "dig", "rad", "num", "cnt", "tail", "point", "eneg", "exp", "val"}
BY DEF FloatStart

LEMMA ZeroOK ==
  ASSUME NEW f, NEW w, FloatNow(f, w), Zero
  PROVE  FloatAt(f, w)' /\ Field(pos, w)' = f
<1>1. PICK g : g = Unsigned(f)
  OBVIOUS
<1>2. Fresh /\ At(f, w, 1) /\ c \notin {"i", "n"}
  BY DEF FloatNow, FloatAt, InDigits, Zero
<1>3. /\ IF c = "0" THEN ShGetC /\ pc' = (IF c' = "x" THEN "hexfloat" ELSE "zeroback")
                    ELSE UNCHANGED file /\ pc' = "zeros"
      /\ pos' = pos /\ flt' = flt /\ neg' = neg
  BY DEF Zero, Within, args
<1>4. g \in Seq(Char) /\ Len(g) \in Nat /\ DOMAIN flt' = DOMAIN FloatStart /\ neg' = (f[1] = "-") /\ Fresh'
  BY <1>1, <1>2, <1>3, FloatFacts DEF Fresh
<1>5. c = IF 1 <= Len(g) THEN g[1] ELSE EOF
  BY <1>1, <1>2, CurrentIn
<1>6. CASE c = "0"
  <2>1. 1 <= Len(g) /\ g[1] = "0" /\ Len(g) # 0
    BY <1>5, <1>6, DigitValues
  <2>2. At(f, w, 2)' /\ Field(pos, w)' = f /\ c' = IF 2 <= Len(g) THEN g[2] ELSE EOF
    <3>1. At(f, w, 1 + 1)' /\ Field(pos, w)' = f /\ c' = Following(f, 1)
      BY <1>1, <1>2, <1>3, <1>6, <2>1, GotIn
    <3>2. 1 + 1 = 2
      OBVIOUS
    <3> QED
      BY <1>1, <3>1, <3>2 DEF Following
  <2>3. CASE c' = "x"
    <3>1. pc' = "hexfloat" /\ IsHex(g)
      <4>1. pc' = "hexfloat"
        BY <1>3, <1>6, <2>3
      <4>2. 2 <= Len(g) /\ g[2] = "x"
        BY <2>2, <2>3, DigitValues
      <4> QED
        BY <1>4, <2>1, <4>1, <4>2 DEF IsHex
    <3>2. InDigits(f, w)'
      BY <1>1, <1>4, <2>2, <3>1 DEF InDigits
    <3> QED
      BY <1>4, <2>2, <3>1, <3>2 DEF FloatAt, InWords, InExponent
  <2>4. CASE c' # "x"
    <3>1. pc' = "zeroback" /\ ~IsHex(g)
      BY <1>3, <1>4, <1>6, <2>2, <2>4 DEF IsHex
    <3>2. InDigits(f, w)'
      BY <1>1, <1>4, <2>1, <2>2, <3>1 DEF InDigits
    <3> QED
      BY <1>4, <2>2, <3>1, <3>2 DEF FloatAt, InWords, InExponent
  <2> QED
    BY <2>3, <2>4
<1>7. CASE c # "0"
  <2>1. pc' = "zeros" /\ At(f, w, 1)' /\ Field(pos, w)' = f
    BY <1>2, <1>3, <1>7, StillIn
  <2>2. (Len(g) # 0 => g[1] \notin {"i", "n"}) /\ ~IsHex(g)
    <3>1. Len(g) # 0 => g[1] = c
      BY <1>4, <1>5
    <3> QED
      BY <1>2, <1>4, <1>7, <3>1 DEF IsHex
  <2>3. DigitsStart(g) = 1
    BY <2>2 DEF DigitsStart
  <2>4. PICK m : m = flt'
    OBVIOUS
  <2>5. /\ m.hex = FALSE /\ m.dig = FALSE /\ m.rad = FALSE /\ m.tail = FALSE
        /\ m.num = 0 /\ m.cnt = 0 /\ m.point = 0 /\ m.exp = 0
    BY <1>4, <2>4 DEF Fresh
  <2>6. m.hex = IsHex(g)
    BY <2>2, <2>5 DEF IsHex
  <2>7. Gathered(g, 1, m)
    <3>1. Gathered(g, DigitsStart(g), m)
      BY <1>4, <2>2, <2>5, <2>6, GatheredStart
    <3> QED
      BY <2>3, <3>1
  <2>8. \E j \in Nat : /\ At(f, w, j)' /\ Gathered(g, j, flt') /\ flt'.exp = 0
                       /\ ~flt'.rad /\ flt'.cnt = 0
    BY <2>1, <2>4, <2>5, <2>7
  <2>9. InDigits(f, w)'
    BY <1>1, <2>1, <2>8 DEF InDigits
  <2> QED
    BY <1>4, <2>1, <2>9 DEF FloatAt, InWords, InExponent
<1> QED
  BY <1>6, <1>7

LEMMA ZeroBackOK ==
  ASSUME NEW f, NEW w, FloatNow(f, w), ZeroBack
  PROVE  FloatAt(f, w)' /\ Field(pos, w)' = f
<1>1. Fresh /\ At(f, w, 2) /\ ~IsHex(Unsigned(f)) /\ Len(Unsigned(f)) # 0 /\ Unsigned(f)[1] = "0"
  BY DEF FloatNow, FloatAt, InDigits, ZeroBack
<1>2. ShUnget /\ pc' = "decfloat" /\ pos' = pos /\ flt' = flt /\ neg' = neg
  BY DEF ZeroBack, Within, args
<1>3. DOMAIN flt' = DOMAIN FloatStart /\ neg' = (f[1] = "-") /\ Fresh'
  BY <1>1, <1>2, FloatFacts DEF Fresh
<1>4. Held(w, SignLen(f) + 1)' /\ Field(pos, w)' = f
  <2>1. Held(w, SignLen(f) + (2 - 1))' /\ Field(pos, w)' = f
    BY <1>1, <1>2, GivenIn
  <2>2. 2 - 1 = 1
    OBVIOUS
  <2> QED
    BY <2>1, <2>2
<1>5. InDigits(f, w)'
  BY <1>1, <1>2, <1>3, <1>4 DEF InDigits
<1> QED
  BY <1>2, <1>3, <1>4, <1>5 DEF FloatAt, InWords, InExponent

LEMMA FirstOfFloatOK ==
  ASSUME NEW f, NEW w, FloatNow(f, w), FirstOfFloat
  PROVE  FloatAt(f, w)' /\ Field(pos, w)' = f
<1>1. PICK g : g = Unsigned(f)
  OBVIOUS
<1>2. /\ ShGetC /\ pc' = "zeros" /\ pos' = pos /\ neg' = neg
      /\ flt' = [flt EXCEPT !.hex = (pc = "hexfloat"), !.dig = (pc = "decfloat")]
  BY DEF FirstOfFloat, Within, args
<1>3. Fresh /\ pc \in {"decfloat", "hexfloat"}
  BY DEF FloatNow, FloatAt, InDigits, FirstOfFloat
<1>4. g \in Seq(Char) /\ Len(g) \in Nat /\ DOMAIN flt = DOMAIN FloatStart /\ neg' = (f[1] = "-")
  BY <1>1, <1>2, FloatFacts
<1>5. PICK m : m = flt
  OBVIOUS
<1>6. PICK n : n = flt'
  OBVIOUS
<1>7. /\ m.hex = FALSE /\ m.dig = FALSE /\ m.rad = FALSE /\ m.tail = FALSE
      /\ m.num = 0 /\ m.cnt = 0 /\ m.point = 0 /\ m.exp = 0
  BY <1>3, <1>5 DEF Fresh
<1>8. n = [m EXCEPT !.hex = (pc = "hexfloat"), !.dig = (pc = "decfloat")]
  BY <1>2, <1>5, <1>6
<1>9. /\ DOMAIN n = DOMAIN FloatStart
      /\ n.hex = (pc = "hexfloat") /\ n.dig = (pc = "decfloat") /\ n.rad = m.rad /\ n.tail = m.tail
      /\ n.num = m.num /\ n.cnt = m.cnt /\ n.point = m.point /\ n.exp = m.exp
  BY <1>4, <1>5, <1>8, FieldNames
<1>10. PICK j \in Nat : Gathered(g, j, n) /\ At(f, w, j)' /\ Field(pos, w)' = f
  <2>1. CASE pc = "decfloat"
    <3>1. Held(w, SignLen(f) + 1) /\ ~IsHex(g) /\ Len(g) # 0 /\ g[1] = "0"
      BY <1>1, <2>1 DEF FloatNow, FloatAt, InDigits
    <3>2. 1 <= Len(g)
      BY <1>4, <3>1
    <3>3. At(f, w, 1 + 1)' /\ Field(pos, w)' = f
      BY <1>1, <1>2, <3>1, <3>2, HeldIn
    <3>4. DigitsStart(g) = 1
      BY <3>1 DEF DigitsStart
    <3>5. m.hex = IsHex(g) /\ (Len(g) # 0 => g[1] \notin {"i", "n"})
      BY <1>7, <3>1 DEF IsHex
    <3>6. Gathered(g, 1, m)
      <4>1. Gathered(g, DigitsStart(g), m)
        BY <1>4, <1>7, <3>5, GatheredStart
      <4> QED
        BY <3>4, <4>1
    <3>7. n.hex = m.hex /\ n.dig = TRUE /\ n.point = IF m.rad THEN m.point - 1 ELSE m.point
      BY <1>7, <1>9, <2>1
    <3>8. Gathered(g, 1 + 1, n)
      BY <1>7, <1>9, <3>1, <3>2, <3>6, <3>7, GatherZero
    <3> QED
      BY <3>3, <3>8
  <2>2. CASE pc = "hexfloat"
    <3>1. At(f, w, 2) /\ IsHex(g)
      BY <1>1, <2>2 DEF FloatNow, FloatAt, InDigits
    <3>2. 2 <= Len(g) /\ g[1] = "0"
      BY <3>1 DEF IsHex
    <3>3. At(f, w, 2 + 1)' /\ Field(pos, w)' = f
      BY <1>1, <1>2, <3>1, <3>2, GotIn
    <3>4. DigitsStart(g) = 2 + 1 /\ 2 + 1 \in Nat
      BY <3>1 DEF DigitsStart
    <3>5. (Len(g) # 0 => g[1] \notin {"i", "n"}) /\ n.hex = IsHex(g) /\ n.dig = FALSE
      BY <1>9, <2>2, <3>1, <3>2 DEF IsHex
    <3>6. Gathered(g, DigitsStart(g), n)
      BY <1>4, <1>7, <1>9, <3>5, GatheredStart
    <3> QED
      BY <3>3, <3>4, <3>6
  <2> QED
    BY <1>3, <2>1, <2>2
<1>11. n.exp = 0 /\ ~n.rad /\ n.cnt = 0
  BY <1>7, <1>9
<1>12. \E i \in Nat : At(f, w, i)' /\ Gathered(g, i, flt') /\ flt'.exp = 0 /\ ~flt'.rad /\ flt'.cnt = 0
  BY <1>6, <1>10, <1>11
<1>13. InDigits(f, w)'
  BY <1>1, <1>2, <1>12 DEF InDigits
<1>14. DOMAIN flt' = DOMAIN FloatStart
  BY <1>6, <1>9
<1> QED
  BY <1>2, <1>4, <1>10, <1>13, <1>14 DEF FloatAt, InWords, InExponent

(* Where digits are read, and how the step ends if they go on being read.  *)
LEMMA DigitsNow ==
  ASSUME NEW f, NEW w, FloatNow(f, w), pc \in {"zeros", "fraction", "digit"}, NEW g, g = Unsigned(f),
         NEW m, m = flt
  PROVE  \E j \in Nat :
            /\ At(f, w, j) /\ Gathered(g, j, m) /\ m.exp = 0 /\ j \in 1 .. Len(g) + 1
            /\ c = (IF j <= Len(g) THEN g[j] ELSE EOF)
            /\ (c # EOF => j <= Len(g) /\ c = g[j])
            /\ pc = "zeros" => ~m.rad /\ m.cnt = 0
            /\ pc = "fraction" => m.rad /\ m.cnt = 0
            /\ pc = "digit" /\ m.cnt = 0 => c # "0" /\ (c = "." => m.rad)
<1>1. PICK j \in Nat : /\ At(f, w, j) /\ Gathered(g, j, m) /\ m.exp = 0
                       /\ pc = "zeros" => ~m.rad /\ m.cnt = 0
                       /\ pc = "fraction" => m.rad /\ m.cnt = 0
                       /\ pc = "digit" /\ m.cnt = 0 => c # "0" /\ (c = "." => m.rad)
  BY DEF FloatNow, FloatAt, InDigits
<1>2. j # 0
  <2>1. FrontOK(g, j)
    BY <1>1 DEF Gathered
  <2> QED
    BY <2>1, FrontIs
<1>3. j \in 1 .. Len(g) + 1 /\ c = (IF j <= Len(g) THEN g[j] ELSE EOF)
  BY <1>1, <1>2, CurrentIn
<1> QED
  BY <1>1, <1>3

LEMMA DigitsNext ==
  ASSUME NEW f, NEW w, FloatNow(f, w), neg' = neg, pc' \in {"zeros", "fraction", "digit"},
         NEW n, n = flt', DOMAIN n = DOMAIN FloatStart, Field(pos, w)' = f,
         NEW j \in Nat, At(f, w, j)', Gathered(Unsigned(f), j, n), n.exp = 0,
         pc' = "zeros" => ~n.rad /\ n.cnt = 0,
         pc' = "fraction" => n.rad /\ n.cnt = 0,
         pc' = "digit" /\ n.cnt = 0 => c' # "0" /\ (c' = "." => n.rad)
  PROVE  FloatAt(f, w)' /\ Field(pos, w)' = f
<1>1. neg' = (f[1] = "-")
  BY FloatFacts
<1>2. PICK g : g = Unsigned(f)
  OBVIOUS
<1>3. \E i \in Nat : /\ At(f, w, i)' /\ Gathered(g, i, flt') /\ flt'.exp = 0
                     /\ pc' = "zeros" => ~flt'.rad /\ flt'.cnt = 0
                     /\ pc' = "fraction" => flt'.rad /\ flt'.cnt = 0
                     /\ pc' = "digit" /\ flt'.cnt = 0 => c' # "0" /\ (c' = "." => flt'.rad)
  BY <1>2
<1>4. InDigits(f, w)'
  BY <1>2, <1>3 DEF InDigits
<1> QED
  BY <1>1, <1>4 DEF FloatAt, InWords, InExponent

LEMMA ZerosOK ==
  ASSUME NEW f, NEW w, FloatNow(f, w), Zeros
  PROVE  FloatAt(f, w)' /\ Field(pos, w)' = f
<1>1. PICK g : g = Unsigned(f)
  OBVIOUS
<1>2. PICK m : m = flt
  OBVIOUS
<1>3. PICK n : n = flt'
  OBVIOUS
<1>4. /\ pc = "zeros" /\ pos' = pos /\ neg' = neg
      /\ \/ c = "0" /\ n = [m EXCEPT !.dig = TRUE] /\ pc' = "zeros" /\ ShGetC
         \/ c = "." /\ n = [m EXCEPT !.rad = TRUE] /\ pc' = "fraction" /\ ShGetC
         \/ c \notin {"0", "."} /\ pc' = "digit" /\ n = m /\ UNCHANGED file
  BY <1>2, <1>3 DEF Zeros, Within, args
<1>5. PICK j \in Nat : /\ At(f, w, j) /\ Gathered(g, j, m) /\ m.exp = 0
                       /\ (c # EOF => j <= Len(g) /\ c = g[j])
                       /\ ~m.rad /\ m.cnt = 0
  BY <1>1, <1>2, <1>4, DigitsNow
<1>6. DOMAIN m = DOMAIN FloatStart
  BY <1>2, FloatFacts
<1>7. CASE c = "0" /\ n = [m EXCEPT !.dig = TRUE] /\ pc' = "zeros" /\ ShGetC
  <2>1. j <= Len(g) /\ g[j] = "0"
    BY <1>5, <1>7, DigitValues
  <2>2. At(f, w, j + 1)' /\ Field(pos, w)' = f
    BY <1>1, <1>4, <1>5, <1>7, <2>1, GotIn
  <2>3. /\ DOMAIN n = DOMAIN FloatStart
        /\ n.hex = m.hex /\ n.dig = TRUE /\ n.rad = m.rad /\ n.num = m.num /\ n.cnt = m.cnt
        /\ n.tail = m.tail /\ n.point = m.point /\ n.exp = m.exp
    BY <1>6, <1>7, FieldNames
  <2>4. n.point = IF m.rad THEN m.point - 1 ELSE m.point
    BY <1>5, <2>3
  <2>5. Gathered(g, j + 1, n)
    BY <1>5, <2>1, <2>3, <2>4, GatherZero
  <2>6. PICK h \in Nat : h = j + 1
    OBVIOUS
  <2>7. ~n.rad /\ n.cnt = 0 /\ n.exp = 0
    BY <1>5, <2>3
  <2> QED
    BY <1>1, <1>3, <1>4, <1>7, <2>2, <2>3, <2>5, <2>6, <2>7, DigitsNext
<1>8. CASE c = "." /\ n = [m EXCEPT !.rad = TRUE] /\ pc' = "fraction" /\ ShGetC
  <2>1. j <= Len(g) /\ g[j] = "."
    BY <1>5, <1>8, DigitValues
  <2>2. At(f, w, j + 1)' /\ Field(pos, w)' = f
    BY <1>1, <1>4, <1>5, <1>8, <2>1, GotIn
  <2>3. /\ DOMAIN n = DOMAIN FloatStart
        /\ n.hex = m.hex /\ n.dig = m.dig /\ n.rad = TRUE /\ n.num = m.num /\ n.cnt = m.cnt
        /\ n.tail = m.tail /\ n.point = m.point /\ n.exp = m.exp
    BY <1>6, <1>8, FieldNames
  <2>4. n.point = m.cnt
    BY <1>5, <2>3 DEF Gathered
  <2>5. Gathered(g, j + 1, n)
    BY <1>5, <2>1, <2>3, <2>4, GatherPoint
  <2>6. PICK h \in Nat : h = j + 1
    OBVIOUS
  <2>7. n.rad /\ n.cnt = 0 /\ n.exp = 0
    BY <1>5, <2>3
  <2> QED
    BY <1>1, <1>3, <1>4, <1>8, <2>2, <2>3, <2>5, <2>6, <2>7, DigitsNext
<1>9. CASE c \notin {"0", "."} /\ pc' = "digit" /\ n = m /\ UNCHANGED file
  <2>1. At(f, w, j)' /\ Field(pos, w)' = f /\ c' = c
    BY <1>4, <1>5, <1>9, StillIn
  <2> QED
    BY <1>1, <1>3, <1>4, <1>5, <1>6, <1>9, <2>1, DigitsNext
<1> QED
  BY <1>4, <1>7, <1>8, <1>9

LEMMA FractionOK ==
  ASSUME NEW f, NEW w, FloatNow(f, w), Fraction
  PROVE  FloatAt(f, w)' /\ Field(pos, w)' = f
<1>1. PICK g : g = Unsigned(f)
  OBVIOUS
<1>2. PICK m : m = flt
  OBVIOUS
<1>3. PICK n : n = flt'
  OBVIOUS
<1>4. /\ pc = "fraction" /\ pos' = pos /\ neg' = neg
      /\ IF c = "0" THEN n = [m EXCEPT !.dig = TRUE, !.point = @ - 1] /\ pc' = "fraction" /\ ShGetC
                    ELSE pc' = "digit" /\ n = m /\ UNCHANGED file
  BY <1>2, <1>3 DEF Fraction, Within, args
<1>5. PICK j \in Nat : /\ At(f, w, j) /\ Gathered(g, j, m) /\ m.exp = 0
                       /\ (c # EOF => j <= Len(g) /\ c = g[j])
                       /\ m.rad /\ m.cnt = 0
  BY <1>1, <1>2, <1>4, DigitsNow
<1>6. DOMAIN m = DOMAIN FloatStart
  BY <1>2, FloatFacts
<1>7. CASE c = "0"
  <2>1. j <= Len(g) /\ g[j] = "0" /\ pc' = "fraction" /\ ShGetC
    BY <1>4, <1>5, <1>7, DigitValues
  <2>2. At(f, w, j + 1)' /\ Field(pos, w)' = f
    BY <1>1, <1>4, <1>5, <2>1, GotIn
  <2>3. /\ DOMAIN n = DOMAIN FloatStart
        /\ n.hex = m.hex /\ n.dig = TRUE /\ n.rad = m.rad /\ n.num = m.num /\ n.cnt = m.cnt
        /\ n.tail = m.tail /\ n.point = m.point - 1 /\ n.exp = m.exp
    BY <1>4, <1>6, <1>7, FieldNames
  <2>4. n.point = IF m.rad THEN m.point - 1 ELSE m.point
    BY <1>5, <2>3
  <2>5. Gathered(g, j + 1, n)
    BY <1>5, <2>1, <2>3, <2>4, GatherZero
  <2>6. PICK h \in Nat : h = j + 1
    OBVIOUS
  <2>7. n.rad /\ n.cnt = 0 /\ n.exp = 0
    BY <1>5, <2>3
  <2> QED
    BY <1>1, <1>3, <1>4, <2>1, <2>2, <2>3, <2>5, <2>6, <2>7, DigitsNext
<1>8. CASE c # "0"
  <2>0. pc' = "digit" /\ n = m /\ UNCHANGED file
    BY <1>4, <1>8
  <2>1. At(f, w, j)' /\ Field(pos, w)' = f /\ c' = c
    BY <1>4, <1>5, <2>0, StillIn
  <2> QED
    BY <1>1, <1>3, <1>4, <1>5, <1>6, <1>8, <2>0, <2>1, DigitsNext
<1> QED
  BY <1>7, <1>8

LEMMA PointOK ==
  ASSUME NEW f, NEW w, FloatNow(f, w), Point
  PROVE  FloatAt(f, w)' /\ Field(pos, w)' = f
<1>1. PICK g : g = Unsigned(f)
  OBVIOUS
<1>2. PICK m : m = flt
  OBVIOUS
<1>3. PICK n : n = flt'
  OBVIOUS
<1>4. /\ pc = "digit" /\ pc' = "digit" /\ pos' = pos /\ neg' = neg /\ c = "." /\ ~m.rad /\ ShGetC
      /\ n = [m EXCEPT !.rad = TRUE, !.point = m.cnt]
  BY <1>2, <1>3 DEF Point, IsPoint, Within, args
<1>5. PICK j \in Nat : /\ At(f, w, j) /\ Gathered(g, j, m) /\ m.exp = 0
                       /\ (c # EOF => j <= Len(g) /\ c = g[j])
                       /\ m.cnt # 0
  BY <1>1, <1>2, <1>4, DigitsNow
<1>6. DOMAIN m = DOMAIN FloatStart
  BY <1>2, FloatFacts
<1>7. j <= Len(g) /\ g[j] = "."
  BY <1>4, <1>5, DigitValues
<1>8. At(f, w, j + 1)' /\ Field(pos, w)' = f
  BY <1>1, <1>4, <1>5, <1>7, GotIn
<1>9. /\ DOMAIN n = DOMAIN FloatStart
      /\ n.hex = m.hex /\ n.dig = m.dig /\ n.rad = TRUE /\ n.num = m.num /\ n.cnt = m.cnt
      /\ n.tail = m.tail /\ n.point = m.cnt /\ n.exp = m.exp
  BY <1>4, <1>6, FieldNames
<1>10. Gathered(g, j + 1, n)
  BY <1>4, <1>5, <1>7, <1>9, GatherPoint
<1>11. PICK h \in Nat : h = j + 1
  OBVIOUS
<1>12. n.cnt # 0 /\ n.exp = 0
  BY <1>5, <1>9
<1> QED
  BY <1>1, <1>3, <1>4, <1>8, <1>9, <1>10, <1>11, <1>12, DigitsNext

LEMMA FloatDigitOK ==
  ASSUME NEW f, NEW w, FloatNow(f, w), FloatDigit
  PROVE  FloatAt(f, w)' /\ Field(pos, w)' = f
<1>1. PICK g : g = Unsigned(f)
  OBVIOUS
<1>2. PICK m : m = flt
  OBVIOUS
<1>3. PICK n : n = flt'
  OBVIOUS
<1>4. PICK r : r = FloatRadix
  OBVIOUS
<1>5. PICK x : x = c
  OBVIOUS
<1>6. /\ pc = "digit" /\ pc' = "digit" /\ pos' = pos /\ neg' = neg /\ ShGetC /\ Val(x) < r
      /\ n = IF m.cnt < Kept[r]
             THEN [m EXCEPT !.dig = TRUE, !.cnt = @ + 1, !.num = @ * r + Val(x)]
             ELSE [m EXCEPT !.cnt = @ + 1, !.tail = @ \/ x # "0"]
  BY <1>2, <1>3, <1>4, <1>5 DEF FloatDigit, Within, args
<1>7. PICK j \in Nat : /\ At(f, w, j) /\ Gathered(g, j, m) /\ m.exp = 0
                       /\ (c # EOF => j <= Len(g) /\ c = g[j])
                       /\ m.cnt = 0 => x # "0"
  BY <1>1, <1>2, <1>5, <1>6, DigitsNow
<1>8. DOMAIN m = DOMAIN FloatStart
  BY <1>2, FloatFacts
<1>9. r = RadixOf(g) /\ r \in {10, 16}
  BY <1>2, <1>4, <1>7 DEF FloatRadix, RadixOf, Gathered
<1>10. j <= Len(g) /\ x = g[j]
  <2>1. Val(EOF) = 255
    BY DigitValues
  <2>2. x # EOF
    BY <1>6, <1>9, <2>1
  <2> QED
    BY <1>5, <1>7, <2>2
<1>11. At(f, w, j + 1)' /\ Field(pos, w)' = f
  BY <1>1, <1>6, <1>7, <1>10, GotIn
<1>12. m.cnt \in Nat /\ m.tail \in BOOLEAN /\ Kept[r] \in Nat \ {0}
       /\ (~(m.cnt < Kept[r]) => m.dig)
  <2>1. /\ m.cnt = Len(Significant(DigitsBefore(g, j))) /\ Len(Significant(DigitsBefore(g, j))) \in Nat
        /\ m.tail = More(Significant(DigitsBefore(g, j)), r)
        /\ (m.dig <=> DigitsBefore(g, j) # <<>>)
    BY <1>7, <1>9, GatheredIs
  <2>2. Kept[r] \in Nat \ {0}
    BY <1>9, KeptIs DEF Radixes
  <2>3. m.tail \in BOOLEAN
    BY <2>1 DEF More
  <2>4. DigitsBefore(g, j) = <<>> => m.cnt = 0
    <3>1. Len(<<>>) = 0
      OBVIOUS
    <3> QED
      BY <2>1, <3>1, NothingSignificant
  <2> QED
    BY <2>1, <2>2, <2>3, <2>4
<1>13. /\ DOMAIN n = DOMAIN FloatStart
       /\ n.hex = m.hex /\ n.rad = m.rad /\ n.cnt = m.cnt + 1 /\ n.point = m.point /\ n.exp = m.exp
       /\ n.dig = (IF m.cnt < Kept[r] THEN TRUE ELSE m.dig)
       /\ n.num = (IF m.cnt < Kept[r] THEN m.num * r + Val(x) ELSE m.num)
       /\ n.tail = (IF m.cnt < Kept[r] THEN m.tail ELSE (m.tail \/ x # "0"))
  <2>1. CASE m.cnt < Kept[r]
    <3>1. PICK v : v = m.num * r + Val(x)
      OBVIOUS
    <3>2. n = [m EXCEPT !.dig = TRUE, !.cnt = m.cnt + 1, !.num = v]
      BY <1>6, <2>1, <3>1
    <3>3. /\ DOMAIN n = DOMAIN FloatStart
          /\ n.hex = m.hex /\ n.rad = m.rad /\ n.cnt = m.cnt + 1 /\ n.point = m.point /\ n.exp = m.exp
          /\ n.dig = TRUE /\ n.num = v /\ n.tail = m.tail
      BY <1>8, <3>2, FieldNames
    <3> QED
      BY <2>1, <3>1, <3>3
  <2>2. CASE ~(m.cnt < Kept[r])
    <3>1. PICK v : v = (m.tail \/ x # "0")
      OBVIOUS
    <3>2. n = [m EXCEPT !.cnt = m.cnt + 1, !.tail = v]
      BY <1>6, <2>2, <3>1
    <3>3. /\ DOMAIN n = DOMAIN FloatStart
          /\ n.hex = m.hex /\ n.rad = m.rad /\ n.cnt = m.cnt + 1 /\ n.point = m.point /\ n.exp = m.exp
          /\ n.dig = m.dig /\ n.num = m.num /\ n.tail = v
      BY <1>8, <3>2, FieldNames
    <3> QED
      BY <2>2, <3>1, <3>3
  <2> QED
    BY <2>1, <2>2
<1>14. n.dig /\ n.tail = (m.tail \/ (~(m.cnt < Kept[r]) /\ x # "0"))
  BY <1>12, <1>13
<1>15. Gathered(g, j + 1, n)
  <2>1. Gathered(g, j, m) /\ j <= Len(g) /\ r = RadixOf(g) /\ x = g[j] /\ Val(x) < r
    BY <1>6, <1>7, <1>9, <1>10
  <2>2. m.cnt = 0 => x # "0"
    BY <1>7
  <2>3. n.hex = m.hex /\ n.rad = m.rad /\ n.cnt = m.cnt + 1 /\ n.point = m.point
    BY <1>13
  <2>4. n.num = IF m.cnt < Kept[r] THEN m.num * r + Val(x) ELSE m.num
    BY <1>13
  <2> QED
    BY <1>14, <2>1, <2>2, <2>3, <2>4, GatherDigit
<1>16. PICK h \in Nat : h = j + 1
  OBVIOUS
<1>17. n.cnt # 0 /\ n.exp = 0
  BY <1>7, <1>12, <1>13
<1> QED
  BY <1>1, <1>3, <1>6, <1>11, <1>13, <1>15, <1>16, <1>17, DigitsNext

(* ---- what the digits and the exponent come to -------------------------- *)

(* What digits come to whose last one would have the exponent top.         *)
UnitOf(u) == IF IsHex(u) THEN 4 ELSE 1

Sized(z, r, unit, hex, sign, top) ==
    IF z = <<>> THEN [class |-> "zero", neg |-> sign]
    ELSE IF top > Top[r] THEN [class |-> "over", neg |-> sign]
    ELSE IF top < Bottom[r] THEN [class |-> "under", neg |-> sign]
    ELSE [class |-> "number", neg |-> sign, hex |-> hex, num |-> Worth(z, r), tail |-> More(z, r),
          exp |-> top - unit * KeptLen(Len(z), r)]

LEMMA MinIsKept ==
  ASSUME NEW l \in Nat, NEW r \in Radixes
  PROVE  Min({l, Kept[r]}) = KeptLen(l, r) /\ KeptLen(l, r) \in Nat /\ KeptLen(l, r) <= l
<1>1. PICK y \in Nat \ {0} : y = Kept[r]
  BY KeptIs
<1>2. PICK S : S = {l, y}
  OBVIOUS
<1>3. PICK x \in Nat : x = KeptLen(l, r)
  BY <1>1 DEF KeptLen
<1>4. x \in S /\ \A i \in S : x <= i
  BY <1>1, <1>2, <1>3 DEF KeptLen
<1>5. S \subseteq Int
  BY <1>1, <1>2
<1>6. Min(S) = x
  BY <1>4, <1>5, SmallestOfSet
<1> QED
  BY <1>1, <1>2, <1>3, <1>4, <1>6

LEMMA TailIsMore ==
  ASSUME NEW S, NEW z \in Seq(S), NEW r \in Radixes, NEW n, n = KeptLen(Len(z), r)
  PROVE  More(z, r) <=> ~All(SubSeq(z, n + 1, Len(z)), LAMBDA ch : ch = "0")
<1>0. PICK l \in Nat : l = Len(z)
  OBVIOUS
<1>1. n \in Nat /\ n <= l /\ Len(z) = l
  BY <1>0, MinIsKept
<1>2. PICK t : t = SubSeq(z, n + 1, Len(z))
  OBVIOUS
<1>3. PICK a \in Nat \ {0} : a = n + 1
  BY <1>1
<1>4. a <= Len(z) + 1
  BY <1>1, <1>3
<1>5. /\ DOMAIN t = 1 .. Len(z) - a + 1
      /\ \A i \in 1 .. Len(z) - a + 1 : t[i] = z[a + i - 1]
  BY <1>1, <1>2, <1>3, <1>4, SliceIs
<1>6. (\A i \in DOMAIN t : t[i] = "0") <=> (\A i \in n + 1 .. Len(z) : z[i] = "0")
  <2>1. ASSUME \A i \in DOMAIN t : t[i] = "0", NEW i \in n + 1 .. Len(z) PROVE z[i] = "0"
    <3>1. PICK h : h = i - n
      OBVIOUS
    <3>2. h \in 1 .. Len(z) - a + 1 /\ a + h - 1 = i
      <4>1. i \in n + 1 .. l
        BY <1>1
      <4>2. h \in 1 .. l - a + 1 /\ a + h - 1 = i
        BY <1>1, <1>3, <3>1, <4>1
      <4> QED
        BY <1>1, <4>2
    <3> QED
      BY <1>5, <2>1, <3>2
  <2>2. ASSUME \A i \in n + 1 .. Len(z) : z[i] = "0", NEW h \in DOMAIN t PROVE t[h] = "0"
    <3>1. h \in 1 .. Len(z) - a + 1
      BY <1>5
    <3>2. PICK i : i = a + h - 1
      OBVIOUS
    <3>3. i \in n + 1 .. Len(z)
      <4>1. h \in 1 .. l - a + 1
        BY <1>1, <3>1
      <4>2. h \in Int /\ 1 <= h /\ h <= l - n
        BY <1>0, <1>1, <1>3, <4>1
      <4>3. i = n + h
        BY <1>1, <1>3, <3>2, <4>2
      <4>4. i \in n + 1 .. l
        BY <1>0, <1>1, <4>2, <4>3
      <4> QED
        BY <1>1, <4>4
    <3> QED
      BY <1>5, <2>2, <3>1, <3>2, <3>3
  <2> QED
    BY <2>1, <2>2
<1> QED
  BY <1>2, <1>6 DEF More, All

LEMMA ValueIsSized ==
  ASSUME NEW u, NEW sign, NEW r \in Radixes, r = RadixOf(u), NEW unit, unit = UnitOf(u),
         NEW q, q = Mantissa(u), NEW S, NEW z \in Seq(S), z = Significant(RemoveFirst(q, ".")),
         NEW top, top = Written(Exponent(u)) - unit * Fractional(q) + unit * Len(z)
  PROVE  NumberValue(u, sign, D.size) = Sized(z, r, unit, IsHex(u), sign, top)
<1>1. PICK n : n = Min({Len(z), Kept[r]})
  OBVIOUS
<1>2. n = KeptLen(Len(z), r)
  BY <1>1, MinIsKept
<1>3. PICK b : b = ~All(SubSeq(z, n + 1, Len(z)), LAMBDA ch : ch = "0")
  OBVIOUS
<1>4. b = More(z, r)
  <2>1. b \in BOOLEAN /\ More(z, r) \in BOOLEAN
    BY <1>3 DEF More
  <2>2. b <=> More(z, r)
    BY <1>2, <1>3, TailIsMore
  <2> QED
    BY <2>1, <2>2
<1>5. Numeral(SubSeq(z, 1, n), r) = Worth(z, r)
  BY <1>2 DEF Worth
<1>6. NumberValue(u, sign, D.size)
        = IF z = <<>> THEN [class |-> "zero", neg |-> sign]
          ELSE IF top > Top[r] THEN [class |-> "over", neg |-> sign]
          ELSE IF top < Bottom[r] THEN [class |-> "under", neg |-> sign]
          ELSE [class |-> "number", neg |-> sign, hex |-> IsHex(u), num |-> Numeral(SubSeq(z, 1, n), r),
                tail |-> b, exp |-> top - unit * n]
  BY <1>1, <1>3 DEF NumberValue, RadixOf, UnitOf, Top, Bottom
<1> QED
  BY <1>2, <1>4, <1>5, <1>6 DEF Sized

LEMMA SizedSame ==
  ASSUME NEW z, NEW r \in Radixes, NEW unit, NEW hex, NEW sign, NEW a \in Int, NEW b \in Int,
         D.size \in Precisions,
         \/ a = b
         \/ a > Top[r] /\ b > Top[r]
         \/ a < Bottom[r] /\ b < Bottom[r] /\ a <= Top[r] /\ b <= Top[r]
  PROVE  Sized(z, r, unit, hex, sign, a) = Sized(z, r, unit, hex, sign, b)
<1>1. Top[r] \in Int /\ Bottom[r] \in Int /\ Bottom[r] < Top[r]
  BY RangeIs
<1>2. CASE a = b
  BY <1>2
<1>3. CASE a > Top[r] /\ b > Top[r]
  BY <1>3 DEF Sized
<1>4. CASE a < Bottom[r] /\ b < Bottom[r] /\ a <= Top[r] /\ b <= Top[r]
  <2>1. ~(a > Top[r]) /\ ~(b > Top[r])
    BY <1>1, <1>4
  <2> QED
    BY <1>4, <2>1 DEF Sized
<1> QED
  BY <1>2, <1>3, <1>4

LEMMA NumberIsSized ==
  ASSUME NEW m, NEW r \in Radixes, r = (IF m.hex THEN 16 ELSE 10), NEW unit, unit = (IF m.hex THEN 4 ELSE 1),
         D.size \in Precisions,
         NEW S, NEW z \in Seq(S), m.cnt = Len(z), m.num = Worth(z, r), m.tail = More(z, r),
         m.num = 0 <=> z = <<>>,
         NEW top \in Int, top = unit * (IF m.rad THEN m.point ELSE m.cnt) + (IF m.eneg THEN -m.exp ELSE m.exp)
  PROVE  Number(m) = Sized(z, r, unit, m.hex, neg, top)
<1>1. Top[r] \in Int /\ Bottom[r] \in Int /\ Bottom[r] < Top[r]
  BY RangeIs
<1>2. PICK n : n = IF m.cnt < Kept[r] THEN m.cnt ELSE Kept[r]
  OBVIOUS
<1>3. n = KeptLen(Len(z), r)
  BY <1>2 DEF KeptLen
<1>4. Number(m)
        = CASE m.num = 0 -> [class |-> "zero", neg |-> neg]
            [] m.num # 0 /\ top > Top[r] -> [class |-> "over", neg |-> neg]
            [] m.num # 0 /\ top < Bottom[r] -> [class |-> "under", neg |-> neg]
            [] m.num # 0 /\ top \in Bottom[r] .. Top[r] ->
                 [class |-> "number", neg |-> neg, hex |-> m.hex, num |-> m.num, tail |-> m.tail,
                  exp |-> top - unit * n]
  BY <1>2 DEF Number
<1>5. CASE m.num = 0
  BY <1>4, <1>5 DEF Sized
<1>6. CASE m.num # 0 /\ top > Top[r]
  <2>1. ~(top < Bottom[r]) /\ top \notin Bottom[r] .. Top[r]
    BY <1>1, <1>6
  <2>2. Number(m) = [class |-> "over", neg |-> neg]
    BY <1>4, <1>6, <2>1
  <2> QED
    BY <1>6, <2>2 DEF Sized
<1>7. CASE m.num # 0 /\ top < Bottom[r]
  <2>1. ~(top > Top[r]) /\ top \notin Bottom[r] .. Top[r]
    BY <1>1, <1>7
  <2>2. Number(m) = [class |-> "under", neg |-> neg]
    BY <1>4, <1>7, <2>1
  <2> QED
    BY <1>7, <2>1, <2>2 DEF Sized
<1>8. CASE m.num # 0 /\ ~(top > Top[r]) /\ ~(top < Bottom[r])
  <2>1. top \in Bottom[r] .. Top[r]
    BY <1>1, <1>8
  <2> QED
    BY <1>1, <1>3, <1>4, <1>8, <2>1 DEF Sized
<1> QED
  BY <1>5, <1>6, <1>7, <1>8

(* Either way of adding up the exponent ends on the same side of the range. *)
InSum(L, S, b, n, unit, l, q, v, x, minus, a, t) ==
    /\ L \in Int /\ S \in Int /\ b \in Nat /\ n \in Nat /\ 4 * n + L < b /\ 4 * n - S < b /\ S < L
    /\ unit \in {1, 4} /\ l \in 0 .. n /\ q \in 0 .. n /\ v \in Nat /\ x \in Nat /\ minus \in BOOLEAN
    /\ x = v \/ (x >= b /\ v >= b)
    /\ a = unit * (l - q) + (IF minus THEN -x ELSE x)
    /\ t = (IF minus THEN -v ELSE v) - unit * q + unit * l

LEMMA ExponentsSum ==
  ASSUME NEW L, NEW S, NEW b, NEW n, NEW unit, NEW l, NEW q, NEW v, NEW x, NEW minus, NEW a, NEW t,
         InSum(L, S, b, n, unit, l, q, v, x, minus, a, t)
  PROVE  /\ a \in Int /\ t \in Int
         /\ \/ a = t
            \/ a > L /\ t > L
            \/ a < S /\ t < S /\ a <= L /\ t <= L
<1>0. /\ L \in Int /\ S \in Int /\ b \in Nat /\ n \in Nat /\ 4 * n + L < b /\ 4 * n - S < b /\ S < L
      /\ unit \in {1, 4} /\ l \in 0 .. n /\ q \in 0 .. n /\ v \in Nat /\ x \in Nat /\ minus \in BOOLEAN
      /\ x = v \/ (x >= b /\ v >= b)
      /\ a = unit * (l - q) + (IF minus THEN -x ELSE x)
      /\ t = (IF minus THEN -v ELSE v) - unit * q + unit * l
  BY DEF InSum
<1>1. PICK k1 \in Int : k1 = unit * l
  BY <1>0
<1>2. PICK k2 \in Int : k2 = unit * q
  BY <1>0
<1>3. unit * (l - q) = k1 - k2
  BY <1>0, <1>1, <1>2
<1>4. k1 \in 0 .. 4 * n /\ k2 \in 0 .. 4 * n
  BY <1>0, <1>1, <1>2
<1>5. CASE minus
  <2>1. a = (k1 - k2) - x /\ t = (k1 - k2) - v
    BY <1>0, <1>1, <1>2, <1>3, <1>5
  <2> QED
    BY <1>0, <1>4, <2>1
<1>6. CASE ~minus
  <2>1. a = (k1 - k2) + x /\ t = (k1 - k2) + v
    BY <1>0, <1>1, <1>2, <1>3, <1>6
  <2> QED
    BY <1>0, <1>4, <2>1
<1> QED
  BY <1>5, <1>6

LEMMA CountsLess ==
  ASSUME NEW g, NEW p, NEW m, Gathered(g, p, m), NEW q, q = Foregoing(g, p),
         NEW z, z = Significant(RemoveFirst(q, "."))
  PROVE  /\ Len(g) \in Nat /\ Len(z) \in 0 .. Len(g) /\ Fractional(q) \in 0 .. Len(g)
         /\ m.num = 0 <=> z = <<>>
<1>1. PICK d : d = DigitsBefore(g, p)
  OBVIOUS
<1>2. PICK r : r = RadixOf(g)
  OBVIOUS
<1>3. z = Significant(d)
  BY <1>1 DEF DigitsBefore
<1>4. /\ Len(g) \in Nat /\ FrontOK(g, p) /\ d \in Seq(Char) /\ z \in Seq(Char) /\ Len(z) \in Nat
      /\ Fractional(q) \in Nat /\ r \in Radixes /\ m.num = Worth(z, r)
  BY <1>1, <1>2, <1>3, GatheredIs
<1>5. /\ q \in Seq(Char) /\ Len(q) = p - DigitsStart(g) /\ p \in Nat /\ p <= Len(g) + 1
      /\ DigitsStart(g) \in {1, 3} /\ Len(d) <= Len(q)
  BY <1>1, <1>4, FrontIs
<1>6. /\ Len(z) <= Len(d) /\ (z # <<>> => Len(z) # 0 /\ z[1] # "0")
      /\ \A i \in 1 .. Len(z) : \E h \in 1 .. Len(d) : z[i] = d[h]
  <2>1. d \in Seq(Char)
    BY <1>4
  <2> QED
    BY <1>3, <2>1, SignificantIs
<1>7. Fractional(q) \in 0 .. Len(q)
  BY <1>5, WithoutPointType
<1>8. Len(q) \in Nat /\ Len(d) \in Nat /\ Len(q) <= Len(g)
  BY <1>4, <1>5
<1>9. Len(z) \in 0 .. Len(g) /\ Fractional(q) \in 0 .. Len(g)
  BY <1>4, <1>5, <1>6, <1>7, <1>8
<1>10. z # <<>> => Val(z[1]) # 0
  <2> SUFFICES ASSUME z # <<>> PROVE Val(z[1]) # 0
    OBVIOUS
  <2>1. z[1] # "0" /\ 1 \in 1 .. Len(z)
    BY <1>4, <1>6
  <2>2. PICK h \in 1 .. Len(d) : z[1] = d[h]
    BY <1>6, <2>1
  <2>3. h \in DOMAIN d
    BY <1>4
  <2>4. Val(d[h]) < r
    BY <1>1, <1>2, <1>4, <2>3 DEF FrontOK
  <2>5. Val(z[1]) < 16
    <3>1. Val(z[1]) \in Nat /\ r \in {10, 16}
      BY <1>4, DigitValues DEF Radixes
    <3>2. Val(z[1]) < r
      BY <2>2, <2>4
    <3> QED
      BY <3>1, <3>2
  <2> QED
    BY <2>1, <2>5, DigitValues
<1>11. m.num = 0 <=> z = <<>>
  BY <1>4, <1>10, WorthIsNat
<1> QED
  BY <1>4, <1>9, <1>11

LEMMA ScaledIs ==
  ASSUME NEW g, NEW p, NEW m, Gathered(g, p, m), NEW u, Mantissa(u) = Foregoing(g, p), IsHex(u) <=> IsHex(g),
         NEW e, e = Exponent(u), NEW v \in Nat, v = Numeral(Unsigned(e), 10),
         v # 0 => (m.eneg <=> e[1] = "-"),
         m.exp = v \/ (m.exp \in Nat /\ m.exp >= ExpBound /\ v >= ExpBound),
         D.size \in Precisions,
         \A r \in {10, 16} : 4 * Len(g) + Top[r] < ExpBound /\ 4 * Len(g) - Bottom[r] < ExpBound
  PROVE  Number(m) = NumberValue(u, neg, D.size)
<1>1. PICK q : q = Foregoing(g, p)
  OBVIOUS
<1>2. PICK z : z = Significant(RemoveFirst(q, "."))
  OBVIOUS
<1>3. PICK r : r = RadixOf(g)
  OBVIOUS
<1>4. PICK unit \in {1, 4} : unit = UnitOf(g)
  BY DEF UnitOf
<1>5. /\ r \in Radixes /\ z \in Seq(Char) /\ m.hex = IsHex(g) /\ m.cnt = Len(z) /\ m.num = Worth(z, r)
      /\ m.tail = More(z, r) /\ m.point = (IF m.rad THEN m.cnt - Fractional(q) ELSE 0)
      /\ (m.rad <=> Contains(q, ".")) /\ FrontOK(g, p)
  <2>1. PICK d : d = DigitsBefore(g, p)
    OBVIOUS
  <2>2. z = Significant(d)
    BY <1>1, <1>2, <2>1 DEF DigitsBefore
  <2> QED
    BY <1>1, <1>3, <2>1, <2>2, GatheredIs
<1>6. PICK n \in Nat : n = Len(g) /\ Len(z) \in 0 .. n /\ Fractional(q) \in 0 .. n
                       /\ (m.num = 0 <=> z = <<>>)
  BY <1>1, <1>2, CountsLess
<1>7. PICK l \in 0 .. n : l = Len(z)
  BY <1>6
<1>8. PICK y \in 0 .. n : y = Fractional(q)
  BY <1>6
<1>9. (IF m.rad THEN m.point ELSE m.cnt) = l - y
  <2>1. CASE m.rad
    BY <1>5, <1>7, <1>8, <2>1
  <2>2. CASE ~m.rad
    <3>1. q \in Seq(Char)
      BY <1>1, <1>5, FrontIs
    <3>2. Fractional(q) = 0
      BY <1>5, <2>2, <3>1, WithoutPointType
    <3> QED
      BY <1>5, <1>7, <1>8, <2>2, <3>2
  <2> QED
    BY <2>1, <2>2
<1>10. /\ 4 * n + Top[r] < ExpBound /\ 4 * n - Bottom[r] < ExpBound /\ Bottom[r] < Top[r]
       /\ Top[r] \in Int /\ Bottom[r] \in Int /\ ExpBound \in Nat /\ ExpBound > 0
  <2>1. r \in {10, 16}
    BY <1>5 DEF Radixes
  <2>2. 4 * n + Top[r] < ExpBound /\ 4 * n - Bottom[r] < ExpBound
    BY <1>6, <2>1
  <2>3. ExpBound \in Nat
    BY RadixAssumption
  <2>4. Top[r] \in Int /\ Bottom[r] \in Int /\ Bottom[r] < Top[r]
    BY <1>5, RangeIs
  <2> QED
    BY <2>2, <2>3, <2>4
<1>11. PICK x \in Nat : x = m.exp /\ (x = v \/ (x >= ExpBound /\ v >= ExpBound))
  OBVIOUS
<1>12. PICK minus \in BOOLEAN : minus <=> v # 0 /\ e[1] = "-"
  OBVIOUS
<1>13. (IF m.eneg THEN -m.exp ELSE m.exp) = IF minus THEN -x ELSE x
  <2>1. CASE v # 0
    <3>1. m.eneg <=> minus
      BY <1>12, <2>1
    <3>2. CASE minus
      BY <1>11, <3>1, <3>2
    <3>3. CASE ~minus
      BY <1>11, <3>1, <3>3
    <3> QED
      BY <3>2, <3>3
  <2>2. CASE v = 0
    <3>1. x = 0 /\ ~minus
      BY <1>10, <1>11, <1>12, <2>2
    <3>2. -x = 0
      <4>1. \A i \in Int : -i = 0 - i
        OBVIOUS
      <4>2. -x = 0 - x
        BY <4>1
      <4> QED
        BY <3>1, <4>2
    <3>3. CASE m.eneg
      BY <1>11, <3>1, <3>2, <3>3
    <3>4. CASE ~m.eneg
      BY <1>11, <3>1, <3>4
    <3> QED
      BY <3>3, <3>4
  <2> QED
    BY <2>1, <2>2
<1>14. PICK a : a = unit * (l - y) + (IF minus THEN -x ELSE x)
  OBVIOUS
<1>15. PICK t : t = (IF minus THEN -v ELSE v) - unit * y + unit * l
  OBVIOUS
<1>16. /\ a \in Int /\ t \in Int
       /\ \/ a = t
          \/ a > Top[r] /\ t > Top[r]
          \/ a < Bottom[r] /\ t < Bottom[r] /\ a <= Top[r] /\ t <= Top[r]
  <2>1. PICK L \in Int : L = Top[r]
    BY <1>10
  <2>2. PICK S \in Int : S = Bottom[r]
    BY <1>10
  <2>3. PICK b \in Nat : b = ExpBound
    BY <1>10
  <2>4. 4 * n + L < b /\ 4 * n - S < b /\ S < L /\ (x = v \/ (x >= b /\ v >= b))
    BY <1>10, <1>11, <2>1, <2>2, <2>3
  <2>5. /\ a \in Int /\ t \in Int
        /\ \/ a = t
           \/ a > L /\ t > L
           \/ a < S /\ t < S /\ a <= L /\ t <= L
    <3>1. InSum(L, S, b, n, unit, l, y, v, x, minus, a, t)
      BY <1>14, <1>15, <2>4 DEF InSum
    <3> QED
      BY <3>1, ExponentsSum
  <2> QED
    BY <2>1, <2>2, <2>5
<1>17. Number(m) = Sized(z, r, unit, m.hex, neg, a)
  <2>1. r = (IF m.hex THEN 16 ELSE 10) /\ unit = (IF m.hex THEN 4 ELSE 1)
    BY <1>3, <1>4, <1>5 DEF RadixOf, UnitOf
  <2>2. a = unit * (IF m.rad THEN m.point ELSE m.cnt) + (IF m.eneg THEN -m.exp ELSE m.exp)
    BY <1>9, <1>13, <1>14
  <2>3. /\ r \in Radixes /\ z \in Seq(Char) /\ m.cnt = Len(z) /\ m.num = Worth(z, r) /\ m.tail = More(z, r)
        /\ (m.num = 0 <=> z = <<>>) /\ a \in Int
    BY <1>5, <1>6, <1>16
  <2> QED
    BY <2>1, <2>2, <2>3, NumberIsSized
<1>18. NumberValue(u, neg, D.size) = Sized(z, r, unit, IsHex(u), neg, t)
  <2>1. r = RadixOf(u) /\ unit = UnitOf(u) /\ q = Mantissa(u)
    BY <1>1, <1>3, <1>4 DEF RadixOf, UnitOf
  <2>2. Written(Exponent(u)) = IF minus THEN -v ELSE v
    BY <1>12 DEF Written
  <2>3. t = Written(Exponent(u)) - unit * Fractional(q) + unit * Len(z)
    BY <1>7, <1>8, <1>15, <2>2
  <2> QED
    BY <1>2, <1>5, <2>1, <2>3, ValueIsSized
<1>19. m.hex = IsHex(u)
  BY <1>5 DEF IsHex
<1>20. Sized(z, r, unit, m.hex, neg, a) = Sized(z, r, unit, m.hex, neg, t)
  BY <1>5, <1>16, SizedSame
<1> QED
  BY <1>17, <1>18, <1>19, <1>20

LEMMA TextBound ==
  ASSUME NEW f, NEW w, FloatNow(f, w), NEW g, g = Unsigned(f)
  PROVE  \A r \in {10, 16} : 4 * Len(g) + Top[r] < ExpBound /\ 4 * Len(g) - Bottom[r] < ExpBound
<1>1. fmt \in Formats /\ text \in Texts[fmt] /\ D.size \in Precisions
  BY DEF FloatNow, ScanInv, Control
<1>2. PICK l \in Nat : l = Len(text) /\ Len(f) <= l - pos /\ pos \in Nat
  <2>1. ScanInv /\ PosOK /\ w \in Nat /\ f = Field(pos, w)
    BY FloatFacts
  <2> QED
    BY <2>1, FieldNow
<1>3. Len(g) \in Nat /\ Len(g) <= Len(f) /\ Len(f) \in Nat
  <2>1. PICK o \in {0, 1} : o = SignLen(f)
    BY FloatFacts
  <2>2. Len(g) \in Nat /\ Len(f) \in Nat /\ Len(f) = o + Len(g)
    BY <2>1, FloatFacts
  <2> QED
    BY <2>2
<1>4. PICK n \in Nat : n = Len(g) /\ n <= l
  BY <1>2, <1>3
<1>5. ASSUME NEW r \in {10, 16}
      PROVE  4 * n + Top[r] < ExpBound /\ 4 * n - Bottom[r] < ExpBound
  <2>1. 4 * l + Top[r] < ExpBound /\ 4 * l - Bottom[r] < ExpBound
    BY <1>1, <1>2, ExponentAssumption DEF Top, Bottom
  <2>2. Top[r] \in Int /\ Bottom[r] \in Int /\ ExpBound \in Nat
    BY <1>1, RangeIs, RadixAssumption DEF Radixes
  <2> QED
    BY <1>4, <2>1, <2>2
<1> QED
  BY <1>4, <1>5

(* The number is over, and is one.                                         *)
Over(g, p, m, j, u, e, v) ==
    /\ Gathered(g, p, m) /\ Float(u) /\ u = SubSeq(g, 1, j - 1) /\ (j <= Len(g) => DeadAt(g, j))
    /\ Mantissa(u) = Foregoing(g, p) /\ (IsHex(u) <=> IsHex(g)) /\ e = Exponent(u)
    /\ v \in Nat /\ v = Numeral(Unsigned(e), 10) /\ (v # 0 => (m.eneg <=> e[1] = "-"))
    /\ m.exp = v \/ (m.exp \in Nat /\ m.exp >= ExpBound /\ v >= ExpBound)

LEMMA ScaledTaken ==
  ASSUME NEW f, NEW w, FloatNow(f, w), ShUnget, pos' = pos, D' = D, Scaled(flt),
         NEW j \in Nat, j >= 2, At(f, w, j),
         NEW g, g = Unsigned(f), NEW p, NEW m, m = flt, NEW u, NEW e, NEW v, Over(g, p, m, j, u, e, v)
  PROVE  FloatAt(f, w)' /\ Field(pos, w)' = f
<1>1. Number(m) = NumberValue(u, neg, D.size)
  BY TextBound, ScaledIs DEF Over, FloatNow
<1>2. pc' = "floated" /\ flt' = [flt EXCEPT !.val = Number(m)]
      /\ errno' = IF Number(m).class \in {"over", "under"} THEN "ERANGE" ELSE errno
  BY DEF Scaled
<1>3. "val" \in DOMAIN flt
  BY FloatFacts, FieldNames
<1>4. flt'.val = Number(m)
  BY <1>2, <1>3
<1>5. g \in Seq(Char) /\ Len(g) \in Nat /\ j \in 1 .. Len(g) + 1 /\ neg = (f[1] = "-")
  <2>1. j # 0
    OBVIOUS
  <2> QED
    BY <2>1, FloatFacts, CurrentIn
<1>6. PICK n \in Nat : n = j - 1 /\ n # 0 /\ n + 1 = j /\ n <= Len(g)
  BY <1>5
<1>7. u[1] = g[1] /\ g[1] \notin {"i", "n"}
  <2>1. n \in 0 .. Len(g) /\ 1 \in 1 .. n /\ u = SubSeq(g, 1, n)
    BY <1>5, <1>6 DEF Over
  <2>2. u[1] = g[1]
    BY <1>5, <2>1, PieceIs
  <2>3. Len(g) # 0
    BY <1>5, <1>6
  <2> QED
    BY <2>2, <2>3 DEF Over, Gathered
<1>8. ASSUME NEW s, Unsigned(s) = u, s[1] = f[1] PROVE flt'.val = FloatValue(s, D.size)
  <2>1. FloatValue(s, D.size) = NumberValue(u, s[1] = "-", D.size)
    BY <1>7, <1>8 DEF FloatValue
  <2> QED
    BY <1>1, <1>4, <1>5, <1>8, <2>1
<1>9. Count' = SignLen(f) + n /\ Field(pos, w)' = f
  <2>1. j # 0
    OBVIOUS
  <2> QED
    BY <1>6, <2>1, GivenIn
<1>10. FloatAt(f, w)'
  <2>1. n + 1 <= Len(Unsigned(f)) => DeadAt(Unsigned(f), n + 1)
    BY <1>6 DEF Over
  <2>2. Float(SubSeq(Unsigned(f), 1, n)) /\ n <= Len(Unsigned(f))
    BY <1>6 DEF Over
  <2>3. \A s : Unsigned(s) = SubSeq(Unsigned(f), 1, n) /\ s[1] = f[1] => flt'.val = FloatValue(s, D.size)
    BY <1>6, <1>8 DEF Over
  <2>4. flt'.val.class \in {"over", "under"} => errno' = "ERANGE"
    BY <1>2, <1>4
  <2> QED
    BY <1>2, <1>6, <1>9, <2>1, <2>2, <2>3, <2>4, SomeTaken
<1> QED
  BY <1>9, <1>10

LEMMA DigitsOver ==
  ASSUME NEW g, NEW j, NEW m, Gathered(g, j, m), NEW x, x = (IF j <= Len(g) THEN g[j] ELSE EOF),
         NEW r, r = RadixOf(g), ~(Val(x) < r), x = "." => m.rad, x = Letter(g) => ~m.dig
  PROVE  j <= Len(g) => DeadAt(g, j)
<1> SUFFICES ASSUME j <= Len(g) PROVE DeadAt(g, j)
  OBVIOUS
<1>1. /\ FrontOK(g, j) /\ Len(g) \in Nat /\ j \in Nat \ {0} /\ (Len(g) # 0 => g[1] \notin {"i", "n"})
      /\ (m.dig <=> DigitsBefore(g, j) # <<>>) /\ (m.rad <=> Contains(Foregoing(g, j), "."))
  BY GatheredIs
<1>2. x = g[j] /\ g[1] \notin {"i", "n"}
  <2>1. Len(g) # 0
    BY <1>1
  <2> QED
    BY <1>1, <2>1
<1>3. /\ ~(Val(g[j]) < RadixOf(g)) /\ (g[j] = "." => Contains(Foregoing(g, j), "."))
      /\ (g[j] = Letter(g) => DigitsBefore(g, j) = <<>>)
  BY <1>1, <1>2
<1> QED
  BY <1>1, <1>2, <1>3, MantissaOver

LEMMA DigitsEndOK ==
  ASSUME NEW f, NEW w, FloatNow(f, w), DigitsEnd
  PROVE  FloatAt(f, w)' /\ Field(pos, w)' = f
<1>1. PICK g : g = Unsigned(f)
  OBVIOUS
<1>2. PICK m : m = flt
  OBVIOUS
<1>3. PICK x : x = c
  OBVIOUS
<1>4. PICK r : r = RadixOf(g)
  OBVIOUS
<1>5. pc = "digit" /\ pos' = pos /\ neg' = neg /\ D' = D /\ ~(x = "." /\ ~m.rad)
  BY <1>2, <1>3 DEF DigitsEnd, IsPoint, Within, args, D
<1>6. PICK j \in Nat : /\ At(f, w, j) /\ Gathered(g, j, m) /\ m.exp = 0 /\ j \in 1 .. Len(g) + 1
                       /\ x = (IF j <= Len(g) THEN g[j] ELSE EOF)
  BY <1>1, <1>2, <1>3, <1>5, DigitsNow
<1>7. m.hex = IsHex(g) /\ (m.dig <=> DigitsBefore(g, j) # <<>>) /\ FrontOK(g, j)
      /\ (Len(g) # 0 => g[1] \notin {"i", "n"}) /\ j # 0 /\ Len(g) \in Nat
  BY <1>6, GatheredIs
<1>8. r = FloatRadix /\ ExpLetter = Letter(g)
  BY <1>2, <1>4, <1>7 DEF FloatRadix, RadixOf, ExpLetter, Letter
<1>9. /\ ~(Val(x) < r)
      /\ \/ ~m.dig /\ pc' = "wrong" /\ UNCHANGED <<file, flt>>
         \/ m.dig /\ x = Letter(g) /\ pc' = "scanexp" /\ UNCHANGED <<file, flt>>
         \/ m.dig /\ x # Letter(g) /\ ShUnget /\ Scaled(flt)
  BY <1>2, <1>3, <1>8 DEF DigitsEnd, Wrong
<1>10. PICK u : u = SubSeq(g, 1, j - 1)
  OBVIOUS
<1>11. /\ Beginning(u) /\ (Float(u) <=> DigitsBefore(g, j) # <<>>)
       /\ Mantissa(u) = Foregoing(g, j) /\ Exponent(u) = <<>> /\ (IsHex(u) <=> IsHex(g))
  <2>1. j # 1 => g[1] \notin {"i", "n"}
    BY <1>6, <1>7
  <2> QED
    BY <1>7, <1>10, <2>1, MantissaBegins
<1>12. CASE ~m.dig /\ pc' = "wrong" /\ UNCHANGED <<file, flt>>
  <2>1. j <= Len(g) => DeadAt(g, j)
    BY <1>4, <1>5, <1>6, <1>9, <1>12, DigitsOver
  <2>2. PICK n \in Nat : n = j - 1 /\ n + 1 = j /\ n <= Len(g)
    BY <1>6, <1>7
  <2>3. ~IsFloat(FloatItem(f))
    <3>1. n + 1 <= Len(Unsigned(f)) => DeadAt(Unsigned(f), n + 1)
      BY <1>1, <2>1, <2>2
    <3>2. Beginning(SubSeq(Unsigned(f), 1, n)) /\ ~Float(SubSeq(Unsigned(f), 1, n))
      BY <1>1, <1>7, <1>10, <1>11, <1>12, <2>2
    <3>3. n <= Len(Unsigned(f)) /\ f \in Seq(Char)
      BY <1>1, <2>2, FloatFacts
    <3> QED
      BY <3>1, <3>2, <3>3, NothingTaken
  <2>4. Field(pos, w)' = f
    BY <1>5, <1>12, StillIn
  <2>5. InWords(f, w)'
    BY <1>12, <2>3 DEF InWords
  <2>6. DOMAIN flt' = DOMAIN FloatStart /\ neg' = (f[1] = "-")
    BY <1>5, <1>12, FloatFacts
  <2> QED
    BY <1>12, <2>4, <2>5, <2>6 DEF FloatAt, InDigits, InExponent
<1>13. CASE m.dig /\ x = Letter(g) /\ pc' = "scanexp" /\ UNCHANGED <<file, flt>>
  <2>1. j <= Len(g) /\ g[j] = Letter(g)
    <3>1. x # EOF
      BY <1>13, DigitValues DEF Letter
    <3> QED
      BY <1>6, <1>13, <3>1
  <2>2. AtExponent(g, j)
    BY <1>7, <1>13, <2>1 DEF AtExponent
  <2>3. At(f, w, j)' /\ Field(pos, w)' = f
    BY <1>5, <1>6, <1>13, StillIn
  <2>4. Gathered(g, j, flt') /\ flt'.exp = 0
    BY <1>2, <1>6, <1>13
  <2>5. \E p \in Nat : At(f, w, p)' /\ Gathered(g, p, flt') /\ AtExponent(g, p) /\ flt'.exp = 0
    BY <2>2, <2>3, <2>4
  <2>6. InExponent(f, w)'
    BY <1>1, <1>13, <2>5 DEF InExponent
  <2>7. DOMAIN flt' = DOMAIN FloatStart /\ neg' = (f[1] = "-")
    BY <1>5, <1>13, FloatFacts
  <2> QED
    BY <1>13, <2>3, <2>6, <2>7 DEF FloatAt, InDigits, InWords
<1>14. CASE m.dig /\ x # Letter(g) /\ ShUnget /\ Scaled(flt)
  <2>1. j <= Len(g) => DeadAt(g, j)
    BY <1>4, <1>5, <1>6, <1>9, <1>14, DigitsOver
  <2>2. j >= 2
    <3>1. /\ DigitsStart(g) \in {1, 3} /\ DigitsStart(g) <= j /\ Foregoing(g, j) \in Seq(Char)
          /\ Len(Foregoing(g, j)) = j - DigitsStart(g) /\ DigitsBefore(g, j) \in Seq(Char)
          /\ Len(DigitsBefore(g, j)) <= Len(Foregoing(g, j))
      BY <1>7, FrontIs
    <3>2. DigitsBefore(g, j) # <<>>
      BY <1>7, <1>14
    <3>3. Len(DigitsBefore(g, j)) >= 1
      BY <3>1, <3>2
    <3> QED
      BY <1>6, <3>1, <3>3
  <2>3. PICK e : e = Exponent(u)
    OBVIOUS
  <2>4. e = <<>> /\ Unsigned(e) = <<>>
    BY <1>11, <2>3 DEF Unsigned
  <2>5. Numeral(Unsigned(e), 10) = 0
    BY <2>4, NumeralEmpty
  <2>6. Over(g, j, m, j, u, e, 0)
    BY <1>6, <1>7, <1>10, <1>11, <1>14, <2>1, <2>3, <2>5 DEF Over
  <2> QED
    BY <1>1, <1>2, <1>5, <1>6, <1>14, <2>2, <2>6, ScaledTaken
<1> QED
  BY <1>9, <1>12, <1>13, <1>14

LEMMA GatheredSame ==
  ASSUME NEW g, NEW p, NEW m, Gathered(g, p, m), NEW n,
         n.hex = m.hex /\ n.dig = m.dig /\ n.rad = m.rad /\ n.num = m.num /\ n.cnt = m.cnt
           /\ n.tail = m.tail /\ n.point = m.point
  PROVE  Gathered(g, p, n)
BY DEF Gathered

LEMMA BetweenIs ==
  ASSUME NEW g, NEW p, AtExponent(g, p)
  PROVE  /\ g \in Seq(Char) /\ Len(g) \in Nat /\ p \in Nat \ {0} /\ p <= Len(g)
         /\ Between(g, p, p + 1) = <<>>
         /\ \A j \in p + 1 .. Len(g) :
               Between(g, p, j) \in Seq(Char) /\ Between(g, p, j + 1) = Append(Between(g, p, j), g[j])
<1>1. g \in Seq(Char) /\ Len(g) \in Nat /\ p \in Nat \ {0} /\ p <= Len(g)
  BY FrontIs DEF AtExponent
<1>2. Between(g, p, p + 1) = <<>>
  <2>1. SubSeq(g, p + 1, (p + 1) - 1) = <<>>
    BY <1>1
  <2> QED
    BY <2>1 DEF Between
<1>3. ASSUME NEW j \in p + 1 .. Len(g)
      PROVE  Between(g, p, j) \in Seq(Char) /\ Between(g, p, j + 1) = Append(Between(g, p, j), g[j])
  <2>1. PICK a \in Nat \ {0} : a = p + 1
    BY <1>1
  <2>2. PICK b \in Nat : b = j - 1 /\ b + 1 = j /\ (j + 1) - 1 = b + 1
    BY <1>1
  <2>3. a <= b + 1 /\ b + 1 <= Len(g) /\ b <= Len(g)
    BY <1>1, <2>1, <2>2
  <2>4. SubSeq(g, a, b + 1) = Append(SubSeq(g, a, b), g[b + 1])
    BY <1>1, <2>3, SliceGrows
  <2>5. SubSeq(g, a, b) \in Seq(Char)
    BY <1>1, <2>3, SliceIs
  <2> QED
    BY <2>1, <2>2, <2>4, <2>5 DEF Between
<1> QED
  BY <1>1, <1>2, <1>3

(* ---- scanexp, step by step --------------------------------------------- *)

(* The exponent behind the letter at p, read up to the j-th character ch.  *)
ExpRead(g, p, j, m, e, ch) ==
    /\ Gathered(g, p, m) /\ AtExponent(g, p) /\ j \in p + 1 .. Len(g) + 1 /\ e = Between(g, p, j)
    /\ \A i \in DOMAIN Unsigned(e) : Val(Unsigned(e)[i]) < 10
    /\ e = <<>> => ch \notin {"+", "-"}
    /\ m.eneg <=> e # <<>> /\ e[1] = "-"
    /\ m.exp = Numeral(Unsigned(e), 10)
       \/ (m.exp \in Nat /\ m.exp >= ExpBound /\ Numeral(Unsigned(e), 10) >= ExpBound)

LEMMA ExpNow ==
  ASSUME NEW f, NEW w, FloatNow(f, w), pc \in {"expfirst", "exponent"}, NEW g, g = Unsigned(f),
         NEW m, m = flt, NEW x, x = c
  PROVE  \E p \in Nat, j \in Nat, e \in Seq(Char) :
            /\ At(f, w, j) /\ ExpRead(g, p, j, m, e, x) /\ j \in 2 .. Len(g) + 1
            /\ x = (IF j <= Len(g) THEN g[j] ELSE EOF)
            /\ pc = "expfirst" => Unsigned(e) = <<>>
            /\ pc = "exponent" /\ Unsigned(e) = <<>> => Val(x) < 10
<1>1. PICK p \in Nat, j \in Nat :
         /\ At(f, w, j) /\ Gathered(g, p, flt) /\ ExpSoFar(g, p, j)
         /\ pc = "expfirst" => Unsigned(Between(g, p, j)) = <<>>
         /\ pc = "exponent" /\ Unsigned(Between(g, p, j)) = <<>> => Val(c) < 10
  BY DEF FloatNow, FloatAt, InExponent
<1>2. PICK e : e = Between(g, p, j)
  OBVIOUS
<1>3. ExpRead(g, p, j, m, e, x)
  BY <1>1, <1>2 DEF ExpSoFar, ExpRead
<1>4. AtExponent(g, p) /\ j \in p + 1 .. Len(g) + 1
  BY <1>3 DEF ExpRead
<1>5. /\ p \in Nat \ {0} /\ Len(g) \in Nat /\ p <= Len(g) /\ Between(g, p, p + 1) = <<>>
      /\ \A h \in p + 1 .. Len(g) :
            Between(g, p, h) \in Seq(Char) /\ Between(g, p, h + 1) = Append(Between(g, p, h), g[h])
  BY <1>4, BetweenIs
<1>6. j \in 2 .. Len(g) + 1 /\ j # 0
  BY <1>4, <1>5
<1>7. e \in Seq(Char)
  <2>1. CASE j = p + 1
    <3>1. e = <<>>
      BY <1>2, <1>5, <2>1
    <3> QED
      BY <3>1
  <2>2. CASE j # p + 1
    <3>1. PICK h : h = j - 1
      OBVIOUS
    <3>2. h \in p + 1 .. Len(g) /\ h + 1 = j /\ h \in 1 .. Len(g)
      BY <1>4, <1>5, <2>2, <3>1
    <3>3. PICK y : y = Between(g, p, h)
      OBVIOUS
    <3>4. y \in Seq(Char) /\ e = Append(y, g[h])
      BY <1>2, <1>5, <3>2, <3>3
    <3>5. g[h] \in Char
      BY <3>2, FloatFacts
    <3> QED
      BY <3>4, <3>5
  <2> QED
    BY <2>1, <2>2
<1>8. x = (IF j <= Len(g) THEN g[j] ELSE EOF)
  BY <1>1, <1>6, CurrentIn
<1> QED
  BY <1>1, <1>2, <1>3, <1>6, <1>7, <1>8

LEMMA ExpNext ==
  ASSUME NEW f, NEW w, FloatNow(f, w), neg' = neg, pc' \in {"expfirst", "exponent"},
         NEW n, n = flt', DOMAIN n = DOMAIN FloatStart, Field(pos, w)' = f,
         NEW p \in Nat, NEW j \in Nat, At(f, w, j)', NEW e, NEW x, x = c',
         ExpRead(Unsigned(f), p, j, n, e, x),
         pc' = "expfirst" => Unsigned(e) = <<>>,
         pc' = "exponent" /\ Unsigned(e) = <<>> => Val(x) < 10
  PROVE  FloatAt(f, w)' /\ Field(pos, w)' = f
<1>1. neg' = (f[1] = "-")
  BY FloatFacts
<1>2. PICK g : g = Unsigned(f)
  OBVIOUS
<1>3. ExpSoFar(g, p, j)' /\ e = Between(g, p, j) /\ Gathered(g, p, flt')
  BY <1>2 DEF ExpSoFar, ExpRead
<1>4. \E a \in Nat, b \in Nat :
         /\ At(f, w, b)' /\ Gathered(g, a, flt') /\ ExpSoFar(g, a, b)'
         /\ pc' = "expfirst" => Unsigned(Between(g, a, b)) = <<>>
         /\ pc' = "exponent" /\ Unsigned(Between(g, a, b)) = <<>> => Val(c') < 10
  BY <1>3
<1>5. InExponent(f, w)'
  BY <1>2, <1>4 DEF InExponent
<1> QED
  BY <1>1, <1>5 DEF FloatAt, InWords, InDigits

LEMMA ExpSignOK ==
  ASSUME NEW f, NEW w, FloatNow(f, w), ExpSign
  PROVE  FloatAt(f, w)' /\ Field(pos, w)' = f
<1>1. PICK g : g = Unsigned(f)
  OBVIOUS
<1>2. PICK m : m = flt
  OBVIOUS
<1>3. PICK n : n = flt'
  OBVIOUS
<1>4. PICK y : y = c'
  OBVIOUS
<1>5. /\ pc = "scanexp" /\ pos' = pos /\ neg' = neg /\ ShGetC
      /\ n = [m EXCEPT !.eneg = (y = "-")]
      /\ pc' = IF y \in {"+", "-"} THEN "esigned" ELSE "expfirst"
  BY <1>2, <1>3, <1>4 DEF ExpSign, Within, args
<1>6. PICK p \in Nat : At(f, w, p) /\ Gathered(g, p, m) /\ AtExponent(g, p) /\ m.exp = 0
  BY <1>1, <1>2, <1>5 DEF FloatNow, FloatAt, InExponent
<1>7. p <= Len(g) /\ Between(g, p, p + 1) = <<>> /\ Len(g) \in Nat
  BY <1>6, BetweenIs
<1>8. PICK j \in Nat : j = p + 1 /\ At(f, w, j)' /\ Field(pos, w)' = f
  BY <1>1, <1>5, <1>6, <1>7, GotIn
<1>9. DOMAIN m = DOMAIN FloatStart
  BY <1>2, FloatFacts
<1>10. /\ DOMAIN n = DOMAIN FloatStart /\ n.eneg = (y = "-") /\ n.exp = 0
       /\ n.hex = m.hex /\ n.dig = m.dig /\ n.rad = m.rad /\ n.num = m.num /\ n.cnt = m.cnt
       /\ n.tail = m.tail /\ n.point = m.point
  <2>1. /\ DOMAIN n = DOMAIN FloatStart /\ n.eneg = (y = "-") /\ n.exp = m.exp
        /\ n.hex = m.hex /\ n.dig = m.dig /\ n.rad = m.rad /\ n.num = m.num /\ n.cnt = m.cnt
        /\ n.tail = m.tail /\ n.point = m.point
    BY <1>5, <1>9, FieldNames
  <2> QED
    BY <1>6, <2>1
<1>11. Gathered(g, p, n)
  BY <1>6, <1>10, GatheredSame
<1>12. CASE y \in {"+", "-"}
  <2>1. pc' = "esigned"
    BY <1>5, <1>12
  <2>2. \E a \in Nat : /\ At(f, w, a + 1)' /\ Gathered(g, a, flt') /\ AtExponent(g, a) /\ flt'.exp = 0
                       /\ c' \in {"+", "-"} /\ (flt'.eneg <=> c' = "-")
    BY <1>3, <1>4, <1>6, <1>8, <1>10, <1>11, <1>12
  <2>3. InExponent(f, w)'
    BY <1>1, <2>1, <2>2 DEF InExponent
  <2>4. DOMAIN flt' = DOMAIN FloatStart /\ neg' = (f[1] = "-")
    BY <1>3, <1>5, <1>10, FloatFacts
  <2> QED
    BY <1>8, <2>1, <2>3, <2>4 DEF FloatAt, InWords, InDigits
<1>13. CASE y \notin {"+", "-"}
  <2>1. pc' = "expfirst"
    BY <1>5, <1>13
  <2>2. PICK e : e = Between(g, p, j)
    OBVIOUS
  <2>3. e = <<>> /\ Unsigned(e) = <<>>
    BY <1>7, <1>8, <2>2 DEF Unsigned
  <2>4. n.exp = Numeral(Unsigned(e), 10)
    BY <1>10, <2>3, NumeralEmpty
  <2>5. j \in p + 1 .. Len(g) + 1
    BY <1>7, <1>8
  <2>6. \A i \in DOMAIN Unsigned(e) : Val(Unsigned(e)[i]) < 10
    BY <2>3
  <2>7. n.eneg <=> e # <<>> /\ e[1] = "-"
    BY <1>10, <1>13, <2>3
  <2>8. ExpRead(g, p, j, n, e, y)
    BY <1>6, <1>11, <1>13, <2>2, <2>4, <2>5, <2>6, <2>7 DEF ExpRead
  <2> QED
    BY <1>1, <1>3, <1>4, <1>5, <1>8, <1>10, <2>1, <2>3, <2>8, ExpNext
<1> QED
  BY <1>12, <1>13

LEMMA AfterExpSignOK ==
  ASSUME NEW f, NEW w, FloatNow(f, w), AfterExpSign
  PROVE  FloatAt(f, w)' /\ Field(pos, w)' = f
<1>1. PICK g : g = Unsigned(f)
  OBVIOUS
<1>2. PICK m : m = flt /\ m = flt'
  BY DEF AfterExpSign
<1>3. PICK x : x = c
  OBVIOUS
<1>4. PICK y : y = c'
  OBVIOUS
<1>5. pc = "esigned" /\ pos' = pos /\ neg' = neg /\ ShGetC /\ pc' = "expfirst"
  BY DEF AfterExpSign, Within, args
<1>6. PICK p \in Nat : /\ At(f, w, p + 1) /\ Gathered(g, p, m) /\ AtExponent(g, p) /\ m.exp = 0
                       /\ x \in {"+", "-"} /\ (m.eneg <=> x = "-")
  BY <1>1, <1>2, <1>3, <1>5 DEF FloatNow, FloatAt, InExponent
<1>7. /\ p <= Len(g) /\ Between(g, p, p + 1) = <<>> /\ Len(g) \in Nat
      /\ \A j \in p + 1 .. Len(g) : Between(g, p, j + 1) = Append(Between(g, p, j), g[j])
  BY <1>6, BetweenIs
<1>8. PICK h \in Nat : h = p + 1 /\ h # 0
  BY <1>6
<1>9. h <= Len(g) /\ x = g[h]
  <2>1. x = (IF h <= Len(g) THEN g[h] ELSE EOF)
    BY <1>1, <1>3, <1>6, <1>8, CurrentIn
  <2> QED
    BY <1>6, <2>1, DigitValues
<1>10. PICK j \in Nat : j = h + 1 /\ At(f, w, j)' /\ Field(pos, w)' = f
  BY <1>1, <1>5, <1>6, <1>8, <1>9, GotIn
<1>11. PICK e : e = Between(g, p, j)
  OBVIOUS
<1>12. e = <<x>>
  <2>1. h \in p + 1 .. Len(g)
    BY <1>7, <1>8, <1>9
  <2>2. e = Append(<<>>, x)
    BY <1>7, <1>8, <1>9, <1>10, <1>11, <2>1
  <2> QED
    BY <2>2
<1>13. Unsigned(e) = <<>> /\ e # <<>> /\ e[1] = x
  BY <1>6, <1>12 DEF Unsigned
<1>14. m.exp = Numeral(Unsigned(e), 10)
  BY <1>6, <1>13, NumeralEmpty
<1>15. j \in p + 1 .. Len(g) + 1 /\ \A i \in DOMAIN Unsigned(e) : Val(Unsigned(e)[i]) < 10
  BY <1>7, <1>8, <1>9, <1>10, <1>13
<1>16. ExpRead(g, p, j, m, e, y)
  BY <1>6, <1>11, <1>13, <1>14, <1>15 DEF ExpRead
<1>17. DOMAIN m = DOMAIN FloatStart
  BY <1>2, FloatFacts
<1> QED
  BY <1>1, <1>2, <1>4, <1>5, <1>10, <1>13, <1>16, <1>17, ExpNext

(* No digit of the exponent follows: nothing longer is a number, and u,    *)
(* what was read, has the exponent e.                                      *)
NoneFollows(g, p, j, e, u) ==
    /\ j <= Len(g) => DeadAt(g, j)
    /\ Beginning(u) /\ (Float(u) <=> Unsigned(e) # <<>>)
    /\ Mantissa(u) = Foregoing(g, p) /\ Exponent(u) = e /\ (IsHex(u) <=> IsHex(g))

LEMMA ExpOver ==
  ASSUME NEW g, NEW p, NEW j, NEW m, NEW e, NEW x, ExpRead(g, p, j, m, e, x),
         x = (IF j <= Len(g) THEN g[j] ELSE EOF), ~(Val(x) < 10), NEW u, u = SubSeq(g, 1, j - 1)
  PROVE  NoneFollows(g, p, j, e, u)
<1>1. /\ Gathered(g, p, m) /\ AtExponent(g, p) /\ j \in p + 1 .. Len(g) + 1 /\ e = Between(g, p, j)
      /\ \A i \in DOMAIN Unsigned(e) : Val(Unsigned(e)[i]) < 10
      /\ e = <<>> => x \notin {"+", "-"}
  BY DEF ExpRead
<1>2. p \in Nat \ {0} /\ Len(g) \in Nat /\ p <= Len(g) /\ Between(g, p, p + 1) = <<>>
  BY <1>1, BetweenIs
<1>3. g[1] \notin {"i", "n"}
  <2>1. Len(g) # 0
    BY <1>2
  <2> QED
    BY <1>1, <2>1 DEF Gathered
<1>4. j <= Len(g) => DeadAt(g, j)
  <2> SUFFICES ASSUME j <= Len(g) PROVE DeadAt(g, j)
    OBVIOUS
  <2>1. x = g[j] /\ ~(Val(g[j]) < 10)
    OBVIOUS
  <2>2. j = p + 1 => g[j] \notin {"+", "-"}
    <3> SUFFICES ASSUME j = p + 1 PROVE g[j] \notin {"+", "-"}
      OBVIOUS
    <3>1. e = <<>>
      BY <1>1, <1>2
    <3> QED
      BY <1>1, <2>1, <3>1
  <2>3. FrontOK(g, p) /\ p <= Len(g) /\ g[p] = Letter(g)
    BY <1>1 DEF AtExponent
  <2>4. j \in p + 1 .. Len(g)
    BY <1>1, <1>2
  <2> QED
    BY <1>3, <2>1, <2>2, <2>3, <2>4, ExponentOver
<1>5. /\ Beginning(u) /\ (Float(u) <=> Unsigned(e) # <<>>)
      /\ Mantissa(u) = Foregoing(g, p) /\ Exponent(u) = e /\ (IsHex(u) <=> IsHex(g))
  BY <1>1, <1>3, ExponentBegins
<1> QED
  BY <1>4, <1>5 DEF NoneFollows

LEMMA ExpFirstOK ==
  ASSUME NEW f, NEW w, FloatNow(f, w), ExpFirst
  PROVE  FloatAt(f, w)' /\ Field(pos, w)' = f
<1>1. PICK g : g = Unsigned(f)
  OBVIOUS
<1>2. PICK m : m = flt /\ m = flt'
  BY DEF ExpFirst
<1>3. PICK x : x = c
  OBVIOUS
<1>4. /\ pc = "expfirst" /\ pos' = pos /\ neg' = neg /\ UNCHANGED file /\ flt' = flt
      /\ pc' = IF Val(x) < 10 THEN "exponent" ELSE "wrong"
  BY <1>3 DEF ExpFirst, Wrong, Within, args
<1>5. PICK p \in Nat, j \in Nat, e \in Seq(Char) :
         /\ At(f, w, j) /\ ExpRead(g, p, j, m, e, x) /\ j \in 2 .. Len(g) + 1
         /\ x = (IF j <= Len(g) THEN g[j] ELSE EOF) /\ Unsigned(e) = <<>>
  BY <1>1, <1>2, <1>3, <1>4, ExpNow
<1>6. At(f, w, j)' /\ Field(pos, w)' = f /\ x = c'
  BY <1>3, <1>4, <1>5, StillIn
<1>7. DOMAIN m = DOMAIN FloatStart
  BY <1>2, FloatFacts
<1>8. CASE Val(x) < 10
  <2>1. pc' = "exponent"
    BY <1>4, <1>8
  <2> QED
    BY <1>1, <1>2, <1>4, <1>5, <1>6, <1>7, <1>8, <2>1, ExpNext
<1>9. CASE ~(Val(x) < 10)
  <2>1. PICK n \in Nat : n = j - 1 /\ n + 1 = j /\ n <= Len(g)
    <3>1. Len(g) \in Nat
      BY <1>1, FloatFacts
    <3> QED
      BY <1>5, <3>1
  <2>2. PICK u : u = SubSeq(g, 1, j - 1)
    OBVIOUS
  <2>3. (j <= Len(g) => DeadAt(g, j)) /\ Beginning(u) /\ (Float(u) <=> Unsigned(e) # <<>>)
    BY <1>5, <1>9, <2>2, ExpOver, ZenonT(60) DEF NoneFollows
  <2>4. ~IsFloat(FloatItem(f))
    <3>1. n + 1 <= Len(Unsigned(f)) => DeadAt(Unsigned(f), n + 1)
      BY <1>1, <2>1, <2>3
    <3>2. Beginning(SubSeq(Unsigned(f), 1, n)) /\ ~Float(SubSeq(Unsigned(f), 1, n))
      BY <1>1, <1>5, <2>1, <2>2, <2>3
    <3>3. n <= Len(Unsigned(f)) /\ f \in Seq(Char)
      BY <1>1, <2>1, FloatFacts
    <3> QED
      BY <3>1, <3>2, <3>3, NothingTaken
  <2>5. pc' = "wrong"
    BY <1>4, <1>9
  <2>6. InWords(f, w)'
    BY <2>4, <2>5 DEF InWords
  <2>7. DOMAIN flt' = DOMAIN FloatStart /\ neg' = (f[1] = "-")
    BY <1>4, FloatFacts
  <2> QED
    BY <1>6, <2>5, <2>6, <2>7 DEF FloatAt, InDigits, InExponent
<1> QED
  BY <1>8, <1>9

(* One digit of the exponent more.                                         *)
LEMMA ExpGrows ==
  ASSUME NEW g, NEW p, NEW j, NEW m, NEW e \in Seq(Char), NEW x, ExpRead(g, p, j, m, e, x),
         j <= Len(g), x = g[j], Val(x) < 10, NEW y,
         NEW n, n.hex = m.hex /\ n.dig = m.dig /\ n.rad = m.rad /\ n.num = m.num /\ n.cnt = m.cnt
                  /\ n.tail = m.tail /\ n.point = m.point,
         n.eneg = m.eneg, n.exp = IF m.exp < ExpBound THEN 10 * m.exp + Val(x) ELSE m.exp
  PROVE  /\ ExpRead(g, p, j + 1, n, Append(e, x), y)
         /\ Unsigned(Append(e, x)) # <<>>
<1>1. /\ Gathered(g, p, m) /\ AtExponent(g, p) /\ j \in p + 1 .. Len(g) + 1 /\ e = Between(g, p, j)
      /\ \A i \in DOMAIN Unsigned(e) : Val(Unsigned(e)[i]) < 10
      /\ (m.eneg <=> e # <<>> /\ e[1] = "-")
      /\ m.exp = Numeral(Unsigned(e), 10)
         \/ (m.exp \in Nat /\ m.exp >= ExpBound /\ Numeral(Unsigned(e), 10) >= ExpBound)
  BY DEF ExpRead
<1>2. /\ p \in Nat \ {0} /\ Len(g) \in Nat /\ g \in Seq(Char)
      /\ \A h \in p + 1 .. Len(g) : Between(g, p, h + 1) = Append(Between(g, p, h), g[h])
  BY <1>1, BetweenIs
<1>3. PICK o : o = Append(e, x)
  OBVIOUS
<1>4. j \in p + 1 .. Len(g) /\ j + 1 \in p + 1 .. Len(g) + 1 /\ o = Between(g, p, j + 1)
  <2>1. j \in p + 1 .. Len(g) /\ j + 1 \in p + 1 .. Len(g) + 1
    BY <1>1, <1>2
  <2> QED
    BY <1>1, <1>2, <1>3, <2>1
<1>5. x \notin {"+", "-"} /\ Val(x) \in Nat
  <2>1. Val("+") = 255 /\ Val("-") = 255 /\ Val(x) \in Nat
    BY DigitValues
  <2> QED
    BY <2>1
<1>6. PICK a : a = Unsigned(e)
  OBVIOUS
<1>7. PICK b : b = Unsigned(o)
  OBVIOUS
<1>8. b = Append(a, x) /\ a \in Seq(Char)
  BY <1>3, <1>5, <1>6, <1>7, SignGrows
<1>9. PICK z \in Nat : z = Numeral(a, 10)
  BY <1>8, NumeralIsNat
<1>10. Numeral(b, 10) = z * 10 + Val(x)
  BY <1>8, <1>9, NumeralAppended
<1>11. /\ Len(b) = Len(a) + 1 /\ b[Len(a) + 1] = x /\ (\A i \in 1 .. Len(a) : b[i] = a[i]) /\ b # <<>>
       /\ DOMAIN b = 1 .. Len(a) + 1 /\ DOMAIN a = 1 .. Len(a) /\ Len(a) \in Nat
  <2>1. /\ b \in Seq(Char \cup {x}) /\ Len(b) = Len(a) + 1 /\ b[Len(a) + 1] = x
        /\ (\A i \in 1 .. Len(a) : b[i] = a[i]) /\ b # <<>>
    BY <1>8, AppendIs
  <2>2. DOMAIN b = 1 .. Len(b) /\ DOMAIN a = 1 .. Len(a) /\ Len(a) \in Nat
    BY <1>8, <2>1
  <2> QED
    BY <2>1, <2>2
<1>12. ASSUME NEW i \in DOMAIN b PROVE Val(b[i]) < 10
  <2>1. CASE i = Len(a) + 1
    BY <1>11, <2>1
  <2>2. CASE i # Len(a) + 1
    <3>1. i \in 1 .. Len(a)
      BY <1>11, <2>2
    <3> QED
      BY <1>1, <1>6, <1>11, <3>1
  <2> QED
    BY <2>1, <2>2
<1>13. /\ Len(o) = Len(e) + 1 /\ o[Len(e) + 1] = x /\ (\A i \in 1 .. Len(e) : o[i] = e[i]) /\ o # <<>>
  BY <1>3, AppendIs
<1>14. n.eneg <=> o # <<>> /\ o[1] = "-"
  <2>1. CASE e = <<>>
    <3>1. Len(e) = 0
      BY <2>1
    <3>2. o[1] = x
      BY <1>13, <3>1
    <3> QED
      BY <1>1, <1>5, <2>1, <3>2
  <2>2. CASE e # <<>>
    <3>1. 1 \in 1 .. Len(e)
      BY <2>2
    <3> QED
      BY <1>1, <1>13, <2>2, <3>1
  <2> QED
    BY <2>1, <2>2
<1>15. \/ n.exp = Numeral(b, 10)
       \/ n.exp \in Nat /\ n.exp >= ExpBound /\ Numeral(b, 10) >= ExpBound
  <2>1. PICK k1 \in Nat : k1 = m.exp /\ (k1 = z \/ (k1 >= ExpBound /\ z >= ExpBound))
    BY <1>1, <1>6, <1>9
  <2>2. PICK v \in Nat : v = Val(x)
    BY <1>5
  <2>3. PICK top \in Nat : top = ExpBound
    BY RadixAssumption
  <2>4. n.exp = IF k1 < top THEN 10 * k1 + v ELSE k1
    BY <2>1, <2>2, <2>3
  <2>5. Numeral(b, 10) = z * 10 + v
    BY <1>10, <2>2
  <2>6. CASE k1 < top
    <3>1. k1 = z
      BY <2>1, <2>3, <2>6
    <3> QED
      BY <2>4, <2>5, <2>6, <3>1
  <2>7. CASE ~(k1 < top)
    <3>1. z >= top
      BY <2>1, <2>3, <2>7
    <3>2. z * 10 + v >= top
      BY <3>1
    <3> QED
      BY <2>3, <2>4, <2>5, <2>7, <3>2
  <2> QED
    BY <2>6, <2>7
<1>16. Gathered(g, p, n)
  BY <1>1, GatheredSame
<1>17. ExpRead(g, p, j + 1, n, o, y)
  BY <1>1, <1>4, <1>7, <1>12, <1>13, <1>14, <1>15, <1>16 DEF ExpRead
<1> QED
  BY <1>3, <1>7, <1>11, <1>17

LEMMA ExpDigitOK ==
  ASSUME NEW f, NEW w, FloatNow(f, w), ExpDigit
  PROVE  FloatAt(f, w)' /\ Field(pos, w)' = f
<1>1. PICK g : g = Unsigned(f)
  OBVIOUS
<1>2. PICK m : m = flt
  OBVIOUS
<1>3. PICK n : n = flt'
  OBVIOUS
<1>4. PICK x : x = c
  OBVIOUS
<1>5. PICK y : y = c'
  OBVIOUS
<1>6. /\ pc = "exponent" /\ pc' = "exponent" /\ pos' = pos /\ neg' = neg /\ ShGetC /\ Val(x) < 10
      /\ n = IF m.exp < ExpBound THEN [m EXCEPT !.exp = 10 * @ + Val(x)] ELSE m
  BY <1>2, <1>3, <1>4 DEF ExpDigit, Within, args
<1>7. PICK p \in Nat, j \in Nat, e \in Seq(Char) :
         /\ At(f, w, j) /\ ExpRead(g, p, j, m, e, x) /\ j \in 2 .. Len(g) + 1
         /\ x = (IF j <= Len(g) THEN g[j] ELSE EOF)
  BY <1>1, <1>2, <1>4, <1>6, ExpNow
<1>8. j <= Len(g) /\ x = g[j]
  <2>1. Val(EOF) = 255
    BY DigitValues
  <2>2. x # EOF
    BY <1>6, <2>1
  <2> QED
    BY <1>7, <2>2
<1>9. PICK h \in Nat : h = j + 1 /\ At(f, w, h)' /\ Field(pos, w)' = f
  BY <1>1, <1>6, <1>7, <1>8, GotIn
<1>10. DOMAIN m = DOMAIN FloatStart
  BY <1>2, FloatFacts
<1>11. PICK v : v = 10 * m.exp + Val(x)
  OBVIOUS
<1>12. n = IF m.exp < ExpBound THEN [m EXCEPT !.exp = v] ELSE m
  BY <1>6, <1>11
<1>13. /\ DOMAIN n = DOMAIN FloatStart /\ n.eneg = m.eneg /\ n.exp = (IF m.exp < ExpBound THEN v ELSE m.exp)
       /\ n.hex = m.hex /\ n.dig = m.dig /\ n.rad = m.rad /\ n.num = m.num /\ n.cnt = m.cnt
       /\ n.tail = m.tail /\ n.point = m.point
  <2>1. CASE m.exp < ExpBound
    BY <1>10, <1>12, <2>1, FieldNames
  <2>2. CASE ~(m.exp < ExpBound)
    BY <1>10, <1>12, <2>2
  <2> QED
    BY <2>1, <2>2
<1>14. PICK o : o = Append(e, x)
  OBVIOUS
<1>15. ExpRead(g, p, h, n, o, y) /\ Unsigned(o) # <<>>
  <2>1. n.exp = IF m.exp < ExpBound THEN 10 * m.exp + Val(x) ELSE m.exp
    BY <1>11, <1>13
  <2>2. ExpRead(g, p, j + 1, n, Append(e, x), y) /\ Unsigned(Append(e, x)) # <<>>
    <3>1. /\ e \in Seq(Char) /\ ExpRead(g, p, j, m, e, x)
          /\ j <= Len(g) /\ x = g[j] /\ Val(x) < 10
      BY <1>6, <1>7, <1>8
    <3>2. /\ n.hex = m.hex /\ n.dig = m.dig /\ n.rad = m.rad /\ n.num = m.num /\ n.cnt = m.cnt
          /\ n.tail = m.tail /\ n.point = m.point
      BY <1>13
    <3>3. n.eneg = m.eneg
      BY <1>13
    <3> QED
      BY <2>1, <3>1, <3>2, <3>3, ExpGrows
  <2> QED
    BY <1>9, <1>14, <2>2
<1> QED
  BY <1>1, <1>3, <1>5, <1>6, <1>9, <1>13, <1>15, ExpNext

LEMMA ExpEndsOK ==
  ASSUME NEW f, NEW w, FloatNow(f, w), ExpEnds
  PROVE  FloatAt(f, w)' /\ Field(pos, w)' = f
<1>1. PICK g : g = Unsigned(f)
  OBVIOUS
<1>2. PICK m : m = flt
  OBVIOUS
<1>3. PICK x : x = c
  OBVIOUS
<1>4. pc = "exponent" /\ pos' = pos /\ D' = D /\ ShUnget /\ Scaled(flt) /\ ~(Val(x) < 10)
  BY <1>3 DEF ExpEnds, Within, args, D
<1>5. PICK p \in Nat, j \in Nat, e \in Seq(Char) :
         /\ At(f, w, j) /\ ExpRead(g, p, j, m, e, x) /\ j \in 2 .. Len(g) + 1
         /\ x = (IF j <= Len(g) THEN g[j] ELSE EOF) /\ Unsigned(e) # <<>>
  BY <1>1, <1>2, <1>3, <1>4, ExpNow
<1>6. PICK u : u = SubSeq(g, 1, j - 1)
  OBVIOUS
<1>7. /\ j <= Len(g) => DeadAt(g, j)
      /\ Float(u) /\ Mantissa(u) = Foregoing(g, p) /\ Exponent(u) = e /\ (IsHex(u) <=> IsHex(g))
  <2>1. ExpRead(g, p, j, m, e, x)
    BY <1>5
  <2>2. x = (IF j <= Len(g) THEN g[j] ELSE EOF)
    BY <1>5
  <2>3. ~(Val(x) < 10)
    BY <1>4
  <2>4. u = SubSeq(g, 1, j - 1)
    BY <1>6
  <2>5. NoneFollows(g, p, j, e, u)
    BY <2>1, <2>2, <2>3, <2>4, ExpOver
  <2> QED
    BY <1>5, <2>5 DEF NoneFollows
<1>8. PICK v \in Nat : v = Numeral(Unsigned(e), 10)
  <2>1. PICK a : a = Unsigned(e)
    OBVIOUS
  <2>2. a \in Seq(Char)
    <3>1. EOF \notin {"+", "-"}
      BY DigitValues
    <3> QED
      BY <2>1, <3>1, SignGrows
  <2>3. Numeral(a, 10) \in Nat
    BY <2>2, NumeralIsNat
  <2> QED
    BY <2>1, <2>3
<1>9. /\ Gathered(g, p, m) /\ (m.eneg <=> e # <<>> /\ e[1] = "-")
      /\ m.exp = v \/ (m.exp \in Nat /\ m.exp >= ExpBound /\ v >= ExpBound)
  BY <1>5, <1>8 DEF ExpRead
<1>10. e # <<>>
  BY <1>5 DEF Unsigned
<1>11. Over(g, p, m, j, u, e, v)
  BY <1>6, <1>7, <1>8, <1>9, <1>10 DEF Over
<1>12. j >= 2
  BY <1>5
<1> QED
  BY <1>1, <1>2, <1>4, <1>5, <1>11, <1>12, ScaledTaken

(* ---- from one step to the next ---------------------------------------- *)

LEMMA TextStays == ScanInv /\ [ScanNext]_floatVars => text' = text /\ fmt' = fmt
<1> SUFFICES ASSUME ScanInv, [ScanNext]_floatVars PROVE text' = text /\ fmt' = fmt
  OBVIOUS
<1>1. text' = text
  BY StepKeeps DEF Reader!Next, Reader!Limit, Reader!Get, Reader!Unget, Reader!Stream
<1>2. CASE Finish \/ Begin \/ NoSkip \/ ReadSoFar \/ BadConversion \/ Skip \/ Skipped \/ OneChar \/ Compare
  BY <1>1, <1>2 DEF Finish, Begin, NoSkip, ReadSoFar, BadConversion, Skip, Skipped, OneChar, Compare,
              MatchFail, Fail, Advance, args
<1>3. CASE Width \/ Peek \/ Convert \/ Chars \/ Taken \/ Unknown \/ StoreInt \/ StoreFloat
  BY <1>1, <1>3 DEF Width, Peek, Convert, Chars, Taken, Unknown, StoreInt, StoreFloat, MatchFail, Fail,
              Advance, args
<1>4. CASE Sign \/ AfterSign \/ LeadingZero \/ AfterX \/ FirstDigit \/ Reject
             \/ Rejected \/ XDigits \/ YDigits \/ Overflow \/ IntDone
  BY <1>1, <1>4 DEF Sign, AfterSign, LeadingZero, AfterX, FirstDigit, Reject, Rejected,
              XDigits, YDigits, Digit, Overflow, IntDone, args
<1>5. CASE FloatMove
  BY <1>1, <1>5 DEF FloatMove
<1>6. CASE UNCHANGED vars
  BY <1>1, <1>6 DEF vars
<1> QED
  BY <1>1, <1>2, <1>3, <1>4, <1>5, <1>6, WordMoves, NumberMoves
     DEF ScanNext, ScanStep, Step, FloatStep, Ended, floatVars

(* Where fffloatscan is, of what is a number for it, is known once its     *)
(* field is.                                                               *)
LEMMA FloatOKNext ==
  ASSUME NEW f, NEW w, D' = D, D.width = w, D.size \in Precisions,
         FloatAt(f, w)', Field(pos, w)' = f
  PROVE  FloatOK'
<1>1. D'.size \in Precisions /\ D'.width = w /\ Field(pos, D.width)' = f
  OBVIOUS
<1> QED
  BY <1>1 DEF FloatOK

LEMMA NoPrecisionOK ==
  ASSUME Whole, NoPrecision
  PROVE  FloatOK'
<1>1. PICK w : w = D.width
  OBVIOUS
<1>2. /\ pc = "float" /\ D.size \notin Precisions /\ pc' = "floated" /\ UNCHANGED <<file, fmt, k, pos>>
  BY DEF NoPrecision, Within, args
<1>3. /\ ScanInv /\ FileOK /\ Started /\ PosOK /\ Read(w, 0) /\ w \in Nat
  BY <1>1, <1>2, ConversionFacts DEF Place, Heads, ScanInv
<1>4. Count = 0
  <2>1. PICK f : f = Field(pos, w)
    OBVIOUS
  <2>2. f \in Seq(Char) /\ pos \in Nat
    BY <1>3, <2>1, FieldNow
  <2>3. 0 <= Len(f)
    BY <2>2
  <2>4. CountsFrom = pos /\ Consumed = pos + 0
    BY <1>3, <2>1, <2>3 DEF Read
  <2> QED
    BY <1>3, <2>2, <2>4, CountIs
<1>5. D' = D /\ Count' = 0
  BY <1>2, <1>4, SameFile DEF D
<1>6. D'.size \notin Precisions
  BY <1>2, <1>5
<1>7. FloatRead'
  BY <1>5, <1>6 DEF FloatRead
<1> QED
  BY <1>2, <1>6, <1>7 DEF FloatOK

LEMMA FloatSignOK ==
  ASSUME Whole, FloatSign
  PROVE  FloatOK'
<1>1. PICK w : w = D.width
  OBVIOUS
<1>2. PICK f : f = Field(pos, w)
  OBVIOUS
<1>3. /\ pc = "float" /\ D.size \in Precisions /\ ShGetC /\ flt' = FloatStart /\ neg' = (c' = "-")
      /\ pc' = (CASE c' \in Spaces -> "float" [] c' \in {"+", "-"} -> "fsigned" [] OTHER -> "infinity")
      /\ UNCHANGED <<fmt, k, pos>>
  BY DEF FloatSign, Within, args
<1>4. /\ ScanInv /\ Started /\ PosOK /\ Read(w, 0) /\ w \in Nat /\ f # <<>>
  BY <1>1, <1>2, <1>3, ConversionFacts DEF Place, Heads
<1>5. f \in Seq(Char)
  BY <1>2, <1>4, FieldNow
<1>6. Len(f) \in Nat /\ 1 <= Len(f)
  BY <1>4, <1>5
<1>7. Read(w, 1)' /\ Field(pos, w)' = f
  <2>1. 1 = IF 0 <= Len(Field(pos, w)) THEN 0 + 1 ELSE 0
    BY <1>2, <1>6
  <2> QED
    BY <1>2, <1>3, <1>4, <2>1, Got
<1>8. c' = f[1]
  BY <1>6, <1>7 DEF Read
<1>9. pc' = IF f[1] \in {"+", "-"} THEN "fsigned" ELSE "infinity"
  BY <1>3, <1>8, NoSpaceLeft
<1>10. SignLen(f) = IF f[1] \in {"+", "-"} THEN 1 ELSE 0
  BY <1>4 DEF SignLen
<1>11. Fresh' /\ flt'.i = 0 /\ DOMAIN flt' = DOMAIN FloatStart /\ neg' = (f[1] = "-")
  BY <1>3, <1>8 DEF Fresh, FloatStart
<1>12. InWords(f, w)'
  <2>1. CASE f[1] \in {"+", "-"}
    BY <1>7, <1>9, <1>10, <1>11, <2>1 DEF InWords
  <2>2. CASE f[1] \notin {"+", "-"}
    <3>1. pc' = "infinity" /\ SignLen(f) + 1 = 1
      BY <1>9, <1>10, <2>2
    <3>2. At(f, w, 1)'
      BY <1>7, <3>1 DEF At
    <3>3. Agree(Unsigned(f), Word.infinity, 0)
      <4>1. SignLen(f) \in {0, 1}
        BY <1>10
      <4>2. Len(Unsigned(f)) \in Nat
        BY <1>5, <4>1, UnsignedIs
      <4> QED
        BY <4>2, WordsAre DEF Agree
    <3> QED
      BY <1>11, <3>1, <3>2, <3>3 DEF InWords
  <2> QED
    BY <2>1, <2>2
<1>13. FloatAt(f, w)'
  <2>1. pc' \in {"fsigned", "infinity"}
    BY <1>9
  <2> QED
    BY <1>11, <1>12, <2>1 DEF FloatAt, InDigits, InExponent
<1>14. D' = D
  BY <1>3 DEF D
<1> QED
  BY <1>1, <1>3, <1>7, <1>13, <1>14, FloatOKNext

LEMMA WordsOK ==
  ASSUME NEW f, NEW w, FloatNow(f, w),
         AfterFloatSign \/ WordChar \/ Infinite \/ WordEnds \/ Paren \/ NanBack \/ InParens
           \/ FloatReject \/ FloatRejected
  PROVE  FloatAt(f, w)' /\ Field(pos, w)' = f
<1>1. CASE AfterFloatSign
  BY <1>1, AfterFloatSignOK
<1>2. CASE WordChar
  <2>1. pc \in {"infinity", "nan"}
    BY <1>2 DEF WordChar, InWord, Word
  <2> QED
    BY <1>2, <2>1, InfinityCharOK, NanCharOK
<1>3. CASE Infinite
  BY <1>3, InfiniteOK
<1>4. CASE WordEnds
  <2>1. pc \in {"infinity", "nan"}
    BY <1>4 DEF WordEnds
  <2> QED
    BY <1>4, <2>1, InfinityEndsOK, NanEndsOK
<1>5. CASE Paren
  BY <1>5, ParenOK
<1>6. CASE NanBack
  BY <1>6, NanBackOK
<1>7. CASE InParens
  BY <1>7, InParensOK
<1>8. CASE FloatReject \/ FloatRejected
  BY <1>8, FloatRejectOK
<1> QED
  BY <1>1, <1>2, <1>3, <1>4, <1>5, <1>6, <1>7, <1>8

LEMMA DigitsOK ==
  ASSUME NEW f, NEW w, FloatNow(f, w),
         Zero \/ ZeroBack \/ FirstOfFloat \/ Zeros \/ Fraction \/ Point \/ FloatDigit \/ DigitsEnd
           \/ ExpSign \/ AfterExpSign \/ ExpFirst \/ ExpDigit \/ ExpEnds
  PROVE  FloatAt(f, w)' /\ Field(pos, w)' = f
<1>1. CASE Zero
  BY <1>1, ZeroOK
<1>2. CASE ZeroBack
  BY <1>2, ZeroBackOK
<1>3. CASE FirstOfFloat
  BY <1>3, FirstOfFloatOK
<1>4. CASE Zeros
  BY <1>4, ZerosOK
<1>5. CASE Fraction
  BY <1>5, FractionOK
<1>6. CASE Point
  BY <1>6, PointOK
<1>7. CASE FloatDigit
  BY <1>7, FloatDigitOK
<1>8. CASE DigitsEnd
  BY <1>8, DigitsEndOK
<1>9. CASE ExpSign
  BY <1>9, ExpSignOK
<1>10. CASE AfterExpSign
  BY <1>10, AfterExpSignOK
<1>11. CASE ExpFirst
  BY <1>11, ExpFirstOK
<1>12. CASE ExpDigit
  BY <1>12, ExpDigitOK
<1>13. CASE ExpEnds
  BY <1>13, ExpEndsOK
<1> QED
  BY <1>1, <1>2, <1>3, <1>4, <1>5, <1>6, <1>7, <1>8, <1>9, <1>10, <1>11, <1>12, <1>13

(* A step within a number keeps what is known of it.                       *)
LEMMA NumberOK ==
  ASSUME Whole, text \in Texts[fmt], FloatOK, FloatMove, pc # "float",
         AfterFloatSign \/ WordChar \/ Infinite \/ WordEnds \/ Paren \/ NanBack \/ InParens
           \/ FloatReject \/ FloatRejected
           \/ Zero \/ ZeroBack \/ FirstOfFloat \/ Zeros \/ Fraction \/ Point \/ FloatDigit \/ DigitsEnd
           \/ ExpSign \/ AfterExpSign \/ ExpFirst \/ ExpDigit \/ ExpEnds
  PROVE  FloatOK'
<1>1. PICK w : w = D.width
  OBVIOUS
<1>2. PICK f : f = Field(pos, w)
  OBVIOUS
<1>3. /\ pc \in FloatPcs /\ pc # "floated" /\ UNCHANGED <<fmt, k>>
  BY DEF FloatMove
<1>4. ScanInv /\ PosOK /\ w \in Nat
  BY <1>1, <1>3, ConversionFacts DEF FloatPcs, Heads
<1>5. D.size \in Precisions /\ FloatAt(f, w)
  BY <1>1, <1>2, <1>3 DEF FloatOK
<1>6. FloatNow(f, w)
  BY <1>2, <1>3, <1>4, <1>5 DEF FloatNow
<1>7. FloatAt(f, w)' /\ Field(pos, w)' = f
  BY <1>6, WordsOK, DigitsOK
<1>8. D' = D
  BY <1>3 DEF D
<1> QED
  BY <1>1, <1>5, <1>7, <1>8, FloatOKNext

LEMMA FloatOKStays == FloatOK /\ UNCHANGED floatVars => FloatOK'
<1> SUFFICES ASSUME FloatOK, UNCHANGED floatVars PROVE FloatOK'
  OBVIOUS
<1>1. /\ text' = text /\ rpos' = rpos /\ rend' = rend /\ shlim' = shlim /\ shcnt' = shcnt /\ c' = c
      /\ fmt' = fmt /\ k' = k /\ pc' = pc /\ pos' = pos /\ neg' = neg /\ errno' = errno /\ flt' = flt
  BY DEF floatVars, vars
<1>2. Consumed' = Consumed /\ CountsFrom' = CountsFrom /\ Count' = Count /\ D' = D
  BY <1>1 DEF Consumed, CountsFrom, Count, D
<1>3. \A a, w : Field(a, w)' = Field(a, w)
  BY <1>1 DEF Field
<1>4. /\ \A w, j : Read(w, j)' = Read(w, j)
      /\ \A w, j : Held(w, j)' = Held(w, j)
      /\ Fresh' = Fresh
  BY <1>1, <1>2 DEF Read, Held, Fresh, Field
<1>5. /\ \A f, w, j : At(f, w, j)' = At(f, w, j)
      /\ \A g, p, j : ExpSoFar(g, p, j)' = ExpSoFar(g, p, j)
  BY <1>1, <1>4 DEF At, ExpSoFar
<1>6. PICK w : w = D.width
  OBVIOUS
<1>7. PICK f : f = Field(pos, w)
  OBVIOUS
<1>8. ASSUME FloatAt(f, w) PROVE FloatAt(f, w)'
  <2>1. CASE pc = "floated"
    <3>1. FloatGot(f) /\ pc' = "floated"
      BY <1>1, <1>8, <2>1 DEF FloatAt
    <3>2. FloatGot(f)'
      BY <1>1, <1>2, <3>1 DEF FloatGot
    <3> QED
      BY <3>1, <3>2 DEF FloatAt
  <2>2. CASE pc # "floated"
    <3>1. /\ DOMAIN flt = DOMAIN FloatStart /\ neg = (f[1] = "-")
          /\ InWords(f, w) /\ InDigits(f, w) /\ InExponent(f, w)
      BY <1>8, <2>2 DEF FloatAt
    <3>2. InWords(f, w)'
      BY <1>1, <1>4, <1>5, <3>1 DEF InWords
    <3>3. InDigits(f, w)'
      BY <1>1, <1>4, <1>5, <3>1 DEF InDigits
    <3>4. InExponent(f, w)'
      BY <1>1, <1>4, <1>5, <3>1 DEF InExponent
    <3> QED
      BY <1>1, <2>2, <3>1, <3>2, <3>3, <3>4 DEF FloatAt
  <2> QED
    BY <2>1, <2>2
<1>9. Field(pos, w)' = f
  BY <1>1, <1>3, <1>7
<1>10. CASE pc \notin FloatPcs
  BY <1>1, <1>10 DEF FloatOK
<1>11. CASE pc \in FloatPcs /\ D.size \in Precisions
  BY <1>2, <1>6, <1>7, <1>8, <1>9, <1>11, FloatOKNext DEF FloatOK
<1>12. CASE pc \in FloatPcs /\ D.size \notin Precisions
  <2>1. pc = "floated" /\ Count = 0
    BY <1>12 DEF FloatOK, FloatRead
  <2>2. D'.size \notin Precisions /\ Count' = 0 /\ pc' = "floated"
    BY <1>1, <1>2, <1>12, <2>1
  <2>3. FloatRead'
    BY <2>2 DEF FloatRead
  <2> QED
    BY <2>2, <2>3 DEF FloatOK
<1> QED
  BY <1>10, <1>11, <1>12

LEMMA FloatOKSteps ==
  ASSUME Whole, text \in Texts[fmt], FloatOK, [ScanNext]_floatVars
  PROVE  FloatOK'
<1>1. CASE Step
  <2>1. pc' \in Heads \cup IntPcs \cup Conversions \cup {"width", "peek", "convert", "taken"}
    <3>1. CASE Finish \/ Begin \/ NoSkip \/ ReadSoFar \/ BadConversion \/ Skip \/ Skipped \/ OneChar \/ Compare
      BY <3>1 DEF Finish, Begin, NoSkip, ReadSoFar, BadConversion, Skip, Skipped, OneChar, Compare, Heads,
                  MatchFail, Fail, Advance
    <3>2. CASE Convert
      <4>1. D.kind \in Conversions
        BY <3>2, ConversionFacts DEF Convert, Heads
      <4> QED
        BY <3>2, <4>1 DEF Convert, Fail, Heads
    <3>3. CASE Width \/ Peek \/ Chars \/ Taken \/ Unknown \/ StoreInt
      BY <3>3 DEF Width, Peek, Chars, Taken, Unknown, StoreInt, Heads, MatchFail, Fail,
                  Advance, Conversions, args
    <3>4. CASE Sign \/ AfterSign \/ LeadingZero \/ AfterX \/ FirstDigit \/ Reject
                 \/ Rejected \/ XDigits \/ YDigits \/ Overflow \/ IntDone
      BY <3>4 DEF Sign, AfterSign, LeadingZero, AfterX, FirstDigit, Reject, Rejected,
                  XDigits, YDigits, Digit, Overflow, IntDone, IntPcs, args
    <3> QED
      BY <1>1, <3>1, <3>2, <3>3, <3>4 DEF Step
  <2> QED
    BY <2>1 DEF FloatOK, FloatPcs, Heads, IntPcs, Conversions
<1>2. CASE StoreFloat
  <2>1. pc' \in Heads
    BY <1>2 DEF StoreFloat, Heads, MatchFail, Advance
  <2> QED
    BY <2>1 DEF FloatOK, FloatPcs, Heads
<1>3. CASE AfterFloatSign \/ WordChar \/ Infinite \/ WordEnds \/ Paren \/ NanBack \/ InParens
             \/ FloatReject \/ FloatRejected \/ Zero \/ ZeroBack
  <2>1. pc # "float"
    BY <1>3 DEF AfterFloatSign, WordChar, InWord, Word, Infinite, WordEnds, Paren, NanBack, InParens,
                FloatReject, FloatRejected, Zero, ZeroBack
  <2> QED
    BY <1>3, <2>1, WordMoves, NumberOK
<1>4. CASE FirstOfFloat \/ Zeros \/ Fraction \/ Point \/ FloatDigit \/ DigitsEnd
             \/ ExpSign \/ AfterExpSign \/ ExpFirst \/ ExpDigit \/ ExpEnds
  <2>1. pc # "float"
    BY <1>4 DEF FirstOfFloat, Zeros, Fraction, Point, FloatDigit, DigitsEnd, ExpSign, AfterExpSign,
                ExpFirst, ExpDigit, ExpEnds
  <2> QED
    BY <1>4, <2>1, NumberMoves, NumberOK
<1>5. CASE NoPrecision \/ FloatSign
  BY <1>5, NoPrecisionOK, FloatSignOK
<1>6. CASE UNCHANGED floatVars
  BY <1>6, FloatOKStays
<1> QED
  BY <1>1, <1>2, <1>3, <1>4, <1>5, <1>6 DEF ScanNext, ScanStep, FloatStep, Ended, floatVars

(* All that is known of the scan at any of its points.                     *)
Scanned == Whole /\ FloatKind /\ text \in Texts[fmt] /\ FloatOK

LEMMA ScannedInit == FloatInit => Scanned
<1> SUFFICES ASSUME FloatInit PROVE Scanned
  OBVIOUS
<1>1. pc = "next" /\ text \in Texts[fmt]
  BY DEF FloatInit, Init
<1> QED
  BY <1>1, WholeInit DEF Scanned, FloatKind, FloatOK, FloatPcs

LEMMA ScannedSteps == Scanned /\ [ScanNext]_floatVars => Scanned'
<1> SUFFICES ASSUME Scanned, [ScanNext]_floatVars PROVE Scanned'
  OBVIOUS
<1>1. Whole /\ ScanInv /\ FloatKind /\ text \in Texts[fmt] /\ FloatOK
  BY DEF Scanned, Whole
<1>2. text' = text /\ fmt' = fmt
  BY <1>1, TextStays
<1>3. Whole' /\ FloatKind' /\ FloatOK'
  BY <1>1, WholeSteps, FloatKindSteps, FloatOKSteps
<1> QED
  BY <1>1, <1>2, <1>3 DEF Scanned

LEMMA ScannedIsRead == Scanned => NumbersRead
<1> SUFFICES ASSUME Scanned PROVE NumbersRead
  OBVIOUS
<1>1. ASSUME pc = "filed" PROVE IntegerRead
  BY <1>1 DEF Scanned, Whole, IntOK, IntPcs, IntAt, IntegerRead
<1>2. ASSUME pc = "floated" PROVE FloatRead
  <2>1. CASE D.size \in Precisions
    <3>1. FloatGot(Field(pos, D.width))
      BY <1>2, <2>1 DEF Scanned, FloatOK, FloatPcs, FloatAt
    <3> QED
      BY <2>1, <3>1 DEF FloatGot, FloatRead
  <2>2. CASE D.size \notin Precisions
    BY <1>2, <2>2 DEF Scanned, FloatOK, FloatPcs
  <2> QED
    BY <2>1, <2>2
<1> QED
  BY <1>1, <1>2 DEF NumbersRead

(* ffintscan and fffloatscan, whatever the text, the width, the base and   *)
(* the look-ahead: each takes the longest beginning of a number; what is   *)
(* one has its value, in the width of unsigned long long or as far as the  *)
(* digits are kept, out of range with ERANGE; and of what is none nothing  *)
(* is taken (NumbersRead).                                                 *)
THEOREM NumbersAreRead == ScanSpec => []NumbersRead
BY ScannedInit, ScannedSteps, ScannedIsRead, PTL DEF ScanSpec

(* av_sscanf, whatever the format, the text and the look-ahead: between    *)
(* two directives and at the end, what was read, stored and counted is     *)
(* what the format means (ScannedAsMeant).                                 *)
THEOREM ScansMeanFormats == ScanSpec => []ScannedAsMeant
<1>1. FloatInit => Scanned /\ Meant
  BY ScannedInit, MeantInit
<1>2. Scanned /\ Meant /\ [ScanNext]_floatVars => (Scanned /\ Meant)'
  BY ScannedSteps, MeantSteps, ScannedIsRead DEF Scanned, NumbersRead
<1>3. Scanned /\ Meant => ScannedAsMeant
  BY MeantIsMeant DEF Scanned
<1> QED
  BY <1>1, <1>2, <1>3, PTL DEF ScanSpec
==============================================================================
