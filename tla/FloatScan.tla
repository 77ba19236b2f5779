------------------------------ MODULE FloatScan ------------------------------
(***************************************************************************)
(* The floating-point conversions of av_sscanf (guestapi_variadic.c:       *)
(* fffloatscan with decfloat, hexfloat and scanexp), on top of Scanf and   *)
(* one call of the reader per step as there.  Which characters belong to a *)
(* number, its digits, point and exponent and the ranges in which it is    *)
(* infinite or zero are modelled; how a number in between is rounded to    *)
(* the bits of a float or double is not: it stands as digits and exponent. *)
(* pok is 0 in the only call, so its branches are not here; letters are    *)
(* small, as c|32 has them.                                                *)
(***************************************************************************)
EXTENDS Scanf

CONSTANTS
    Kept,      \* radix |-> how many digits are kept: 10 |-> 1125, 16 |-> 14
    Largest,   \* per precision, radix |-> the largest exponent that is not infinite: -emin/2,
               \* -emin + 32
    Smallest,  \* the smallest that is not zero: emin-2*DBL_MANT_DIG, the same + 32
    ExpBound   \* LLONG_MAX/100: an exponent takes no digits from here on

(* float, double and, with the limits of double, long double.              *)
Precisions == {"def", "l", "L"}

ASSUME RadixAssumption ==
    /\ Kept \in [{10, 16} -> Int] /\ {Largest, Smallest} \subseteq [Precisions -> [{10, 16} -> Int]]
    /\ \A r \in {10, 16} : Kept[r] >= 1
    /\ \A z \in Precisions :
          /\ \A r \in {10, 16} : Smallest[z][r] < Largest[z][r]
          /\ Largest[z][10] >= 9 /\ Smallest[z][10] < 0     \* small integers need no test
    /\ ExpBound \in Nat

(* An exponent that takes no more digits is out of range wherever the      *)
(* point is: no string has LLONG_MAX/100 characters, or a quarter of that. *)
ASSUME ExponentAssumption ==
    \A f \in Formats : \A t \in Texts[f], z \in Precisions, r \in {10, 16} :
        4 * Len(t) + Largest[z][r] < ExpBound /\ 4 * Len(t) - Smallest[z][r] < ExpBound

Word == [infinity |-> <<"i", "n", "f", "i", "n", "i", "t", "y">>, nan |-> <<"n", "a", "n">>]

WordChars == (Char \cap DOMAIN Digits) \cup {"_"}

VARIABLE
    flt     \* i: characters of a word; hex, dig, rad: what was met; num: the digits kept, cnt: the
            \* digits from the first that is not 0, tail: one that was not kept is not 0; point: where
            \* the point is in them (lrp, rp); eneg, exp: the exponent; val: what will be stored

FloatStart ==
    [i |-> 0, hex |-> FALSE, dig |-> FALSE, rad |-> FALSE, num |-> 0, cnt |-> 0, tail |-> FALSE,
     point |-> 0, eneg |-> FALSE, exp |-> 0, val |-> [class |-> "zero"]]

floatVars == <<vars, flt>>

FloatInit == Init /\ flt = FloatStart

(* A step of fffloatscan touches neither the directives nor an integer.    *)
Within == UNCHANGED <<args, got, base, num>>

(* ---- fffloatscan ------------------------------------------------------ *)

(* A length modifier other than l and L: 0, and nothing is read.           *)
NoPrecision ==
    /\ pc = "float" /\ D.size \notin Precisions
    /\ flt' = FloatStart /\ pc' = "floated"
    /\ Within /\ UNCHANGED <<file, neg, errno>>

FloatSign ==
    /\ pc = "float" /\ D.size \in Precisions
    /\ ShGetC
    /\ flt' = FloatStart
    /\ neg' = (c' = "-")
    /\ pc' = CASE c' \in Spaces -> "float" [] c' \in {"+", "-"} -> "fsigned" [] OTHER -> "infinity"
    /\ Within /\ UNCHANGED errno

AfterFloatSign ==
    /\ pc = "fsigned"
    /\ ShGetC
    /\ pc' = "infinity"
    /\ Within /\ UNCHANGED <<neg, errno, flt>>

(* One more character of "infinity", or of "nan"; none is read behind the  *)
(* last.                                                                   *)
InWord == pc \in DOMAIN Word /\ flt.i < Len(Word[pc]) /\ c = Word[pc][flt.i + 1]

WordChar ==
    /\ InWord
    /\ flt' = [flt EXCEPT !.i = @ + 1]
    /\ IF flt.i + 1 < Len(Word[pc]) THEN ShGetC ELSE UNCHANGED file
    /\ Within /\ UNCHANGED <<pc, neg, errno>>

Gives(class, negative) ==
    /\ flt' = [flt EXCEPT !.val = [class |-> class, neg |-> negative]]
    /\ pc' = "floated"

(* Neither a word nor a number: errno, and nothing counts as read.         *)
Wrong(e) == pc' = "wrong" /\ errno' = e

Infinite ==
    /\ pc = "infinity" /\ ~InWord
    /\ flt.i \in {3, 8}
    /\ Gives("inf", neg)
    /\ IF flt.i = 8 THEN UNCHANGED file ELSE ShUnget
    /\ Within /\ UNCHANGED <<neg, errno>>

WordEnds ==
    /\ ~InWord
    /\ \/ pc = "infinity" /\ flt.i = 0 /\ pc' = "nan" /\ UNCHANGED errno
       \/ pc = "nan" /\ flt.i = 0 /\ pc' = "zero" /\ UNCHANGED errno
       \/ pc = "nan" /\ flt.i = 3 /\ pc' = "paren" /\ UNCHANGED errno
       \/ pc = "infinity" /\ flt.i \notin {0, 3, 8} /\ Wrong("EINVAL")
       \/ pc = "nan" /\ flt.i \notin {0, 3} /\ Wrong("EINVAL")
    /\ Within /\ UNCHANGED <<file, neg, flt>>

Paren ==
    /\ pc = "paren"
    /\ ShGetC
    /\ pc' = IF c' = "(" THEN "inparens" ELSE "nanback"
    /\ Within /\ UNCHANGED <<neg, errno, flt>>

NanBack ==
    /\ pc = "nanback"
    /\ ShUnget
    /\ Gives("nan", FALSE)
    /\ Within /\ UNCHANGED <<neg, errno>>

InParens ==
    /\ pc = "inparens"
    /\ ShGetC
    /\ \/ c' \in WordChars /\ UNCHANGED <<pc, errno, flt>>
       \/ c' = ")" /\ Gives("nan", FALSE) /\ UNCHANGED errno
       \/ c' \notin WordChars \cup {")"} /\ Wrong("EINVAL") /\ UNCHANGED flt
    /\ Within /\ UNCHANGED neg

FloatReject ==
    /\ pc = "wrong"
    /\ ShUnget
    /\ pc' = "rewound"
    /\ Within /\ UNCHANGED <<neg, errno, flt>>

FloatRejected ==
    /\ pc = "rewound"
    /\ ShLim(0)
    /\ flt' = FloatStart /\ pc' = "floated"
    /\ Within /\ UNCHANGED <<neg, errno>>

(* 0x: a hexadecimal number; a mere 0 is put back, and yet taken for read. *)
Zero ==
    /\ pc = "zero"
    /\ IF c = "0" THEN ShGetC /\ pc' = IF c' = "x" THEN "hexfloat" ELSE "zeroback"
                  ELSE UNCHANGED file /\ pc' = "zeros"
    /\ Within /\ UNCHANGED <<neg, errno, flt>>

ZeroBack ==
    /\ pc = "zeroback"
    /\ ShUnget
    /\ pc' = "decfloat"
    /\ Within /\ UNCHANGED <<neg, errno, flt>>

(* ---- decfloat and hexfloat -------------------------------------------- *)

FirstOfFloat ==
    /\ pc \in {"decfloat", "hexfloat"}
    /\ ShGetC
    /\ flt' = [flt EXCEPT !.hex = (pc = "hexfloat"), !.dig = (pc = "decfloat")]
    /\ pc' = "zeros"
    /\ Within /\ UNCHANGED <<neg, errno>>

FloatRadix == IF flt.hex THEN 16 ELSE 10

(* Zeros before and behind the point, which are no digits to keep.         *)
Zeros ==
    /\ pc = "zeros"
    /\ \/ c = "0" /\ flt' = [flt EXCEPT !.dig = TRUE] /\ pc' = pc /\ ShGetC
       \/ c = "." /\ flt' = [flt EXCEPT !.rad = TRUE] /\ pc' = "fraction" /\ ShGetC
       \/ c \notin {"0", "."} /\ pc' = "digit" /\ UNCHANGED <<file, flt>>
    /\ Within /\ UNCHANGED <<neg, errno>>

(* A mutant: zeros behind the point move it no further.                    *)
FractionUncounted ==
    /\ pc = "fraction"
    /\ IF c = "0" THEN flt' = [flt EXCEPT !.dig = TRUE] /\ pc' = pc /\ ShGetC
                  ELSE pc' = "digit" /\ UNCHANGED <<file, flt>>
    /\ Within /\ UNCHANGED <<neg, errno>>

Fraction ==
    /\ pc = "fraction"
    /\ IF c = "0" THEN flt' = [flt EXCEPT !.dig = TRUE, !.point = @ - 1] /\ pc' = pc /\ ShGetC
                  ELSE pc' = "digit" /\ UNCHANGED <<file, flt>>
    /\ Within /\ UNCHANGED <<neg, errno>>

IsPoint == c = "." /\ ~flt.rad

Point ==
    /\ pc = "digit" /\ IsPoint
    /\ ShGetC
    /\ flt' = [flt EXCEPT !.rad = TRUE, !.point = flt.cnt]
    /\ Within /\ UNCHANGED <<pc, neg, errno>>

FloatDigit ==
    /\ pc = "digit" /\ Val(c) < FloatRadix
    /\ ShGetC
    /\ flt' = IF flt.cnt < Kept[FloatRadix]
              THEN [flt EXCEPT !.dig = TRUE, !.cnt = @ + 1, !.num = @ * FloatRadix + Val(c)]
              ELSE [flt EXCEPT !.cnt = @ + 1, !.tail = @ \/ c # "0"]
    /\ Within /\ UNCHANGED <<pc, neg, errno>>

(* bits and emin: the limits of the conversion's precision.                *)
Top == Largest[D.size]
Bottom == Smallest[D.size]

(* What digits, point and exponent come to: 0.digits times a power of 10   *)
(* or 2, which is infinite or zero if the power is out of range.           *)
Number(f) ==
    LET radix == IF f.hex THEN 16 ELSE 10
        unit  == IF f.hex THEN 4 ELSE 1
        kept  == IF f.cnt < Kept[radix] THEN f.cnt ELSE Kept[radix]
        e10   == IF f.eneg THEN -f.exp ELSE f.exp
        lrp   == unit * (IF f.rad THEN f.point ELSE f.cnt) + e10
    IN CASE f.num = 0 -> [class |-> "zero", neg |-> neg]
         [] f.num # 0 /\ lrp > Top[radix] -> [class |-> "over", neg |-> neg]
         [] f.num # 0 /\ lrp < Bottom[radix] -> [class |-> "under", neg |-> neg]
         [] f.num # 0 /\ lrp \in Bottom[radix] .. Top[radix] ->
              [class |-> "number", neg |-> neg, hex |-> f.hex, num |-> f.num, tail |-> f.tail,
               exp |-> lrp - unit * kept]

Scaled(f) ==
    LET n == Number(f)
    IN /\ flt' = [f EXCEPT !.val = n]
       /\ errno' = IF n.class \in {"over", "under"} THEN "ERANGE" ELSE errno
       /\ pc' = "floated"

ExpLetter == IF flt.hex THEN "p" ELSE "e"

(* The digits are over: an exponent follows if its letter does.            *)
DigitsEnd ==
    /\ pc = "digit" /\ ~IsPoint /\ ~(Val(c) < FloatRadix)
    /\ \/ ~flt.dig /\ Wrong(IF flt.hex THEN errno ELSE "EINVAL") /\ UNCHANGED <<file, flt>>
       \/ flt.dig /\ c = ExpLetter /\ pc' = "scanexp" /\ UNCHANGED <<file, errno, flt>>
       \/ flt.dig /\ c # ExpLetter /\ ShUnget /\ Scaled(flt)
    /\ Within /\ UNCHANGED neg

(* ---- scanexp ---------------------------------------------------------- *)

ExpSign ==
    /\ pc = "scanexp"
    /\ ShGetC
    /\ flt' = [flt EXCEPT !.eneg = (c' = "-")]
    /\ pc' = IF c' \in {"+", "-"} THEN "esigned" ELSE "expfirst"
    /\ Within /\ UNCHANGED <<neg, errno>>

AfterExpSign ==
    /\ pc = "esigned"
    /\ ShGetC
    /\ pc' = "expfirst"
    /\ Within /\ UNCHANGED <<neg, errno, flt>>

(* LLONG_MIN, the answer for no exponent, makes all of it no number.       *)
ExpFirst ==
    /\ pc = "expfirst"
    /\ IF Val(c) < 10 THEN pc' = "exponent" /\ UNCHANGED errno ELSE Wrong(errno)
    /\ Within /\ UNCHANGED <<file, neg, flt>>

ExpDigit ==
    /\ pc = "exponent" /\ Val(c) < 10
    /\ ShGetC
    /\ flt' = IF flt.exp < ExpBound THEN [flt EXCEPT !.exp = 10 * @ + Val(c)] ELSE flt
    /\ Within /\ UNCHANGED <<pc, neg, errno>>

ExpEnds ==
    /\ pc = "exponent" /\ ~(Val(c) < 10)
    /\ ShUnget
    /\ Scaled(flt)
    /\ Within /\ UNCHANGED neg

(* ---- ff_vfscanf ------------------------------------------------------- *)

StoreFloat ==
    /\ pc = "floated"
    /\ IF Count = 0
       THEN MatchFail
       ELSE Advance(Count) /\ Assign(flt.val) /\ UNCHANGED fmt
    /\ UNCHANGED <<file, parse, flt>>

FloatStep ==
    \/ NoPrecision \/ FloatSign \/ AfterFloatSign \/ WordChar \/ Infinite \/ WordEnds
    \/ Paren \/ NanBack \/ InParens \/ FloatReject \/ FloatRejected \/ Zero \/ ZeroBack
    \/ FirstOfFloat \/ Zeros \/ Fraction \/ Point \/ FloatDigit \/ DigitsEnd
    \/ ExpSign \/ AfterExpSign \/ ExpFirst \/ ExpDigit \/ ExpEnds \/ StoreFloat

ScanStep == (Step /\ UNCHANGED flt) \/ FloatStep

ScanNext == ScanStep \/ (Ended /\ UNCHANGED flt)

ScanSpec == FloatInit /\ [][ScanNext]_floatVars /\ WF_floatVars(ScanStep)
==============================================================================
