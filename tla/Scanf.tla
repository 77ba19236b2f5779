-------------------------------- MODULE Scanf --------------------------------
(***************************************************************************)
(* av_sscanf (guestapi_variadic.c, ff_vfscanf with ffintscan): the scanner *)
(* goes over the directives of a format and reads the text through FFFILE, *)
(* one call of the reader per step.  A directive is what the format string *)
(* spells: white space, a character to match, %%, %n, an integer           *)
(* conversion or one of %s, %c and %[, given by the set of characters it   *)
(* takes.  Floating-point conversions are FloatScan's.                     *)
(***************************************************************************)
EXTENDS FFFile

CONSTANTS
    Formats,        \* the formats, sequences of directives
    Texts,          \* format |-> the strings to scan by it
    Bits,           \* size |-> the width of the object a pointer is taken for
    UIntBits,       \* of unsigned: 32
    ULLBits         \* of unsigned long long: 64

ASSUME TextsAssumption == \A f \in Formats : Texts[f] \subseteq Seq(Char)
ASSUME FormatsAssumption ==
    \A f \in Formats :
        /\ Len(f) \in Nat /\ DOMAIN f = 1 .. Len(f)
        /\ \A i \in 1 .. Len(f) :
              /\ f[i].width \in Nat
              /\ f[i].ch # EOF
              /\ f[i].kind = "int" => f[i].base \in {0, 8, 10, 16}
ASSUME WidthAssumption ==
    UIntBits \in Nat /\ ULLBits \in Nat /\ 5 <= UIntBits /\ UIntBits <= ULLBits

Spaces == {" "}
Digits == [ch \in {"0", "2", "5", "9", "a", "e", "f", "i", "n", "p", "t", "x", "y"} |->
              CASE ch = "0" -> 0 [] ch = "2" -> 2 [] ch = "5" -> 5 [] ch = "9" -> 9
                [] ch = "a" -> 10 [] ch = "e" -> 14 [] ch = "f" -> 15 [] ch = "i" -> 18
                [] ch = "n" -> 23 [] ch = "p" -> 25 [] ch = "t" -> 29 [] ch = "x" -> 33
                [] ch = "y" -> 34]

(* The table: 255 for what is no digit in any base, the end included.      *)
Val(ch) == IF ch \in DOMAIN Digits THEN Digits[ch] ELSE 255

ASSUME EndAssumption ==
    EOF \notin DOMAIN Digits \cup Spaces \cup {"+", "-", ".", "(", ")", "_"}

UIntMax == 2 ^ UIntBits - 1
ULLMax == 2 ^ ULLBits - 1

VARIABLES
    fmt,            \* the format
    k,              \* p: the directive under way
    pc,             \* where in ff_vfscanf or ffintscan
    pos,            \* how much was read by finished directives
    matches,        \* what will be returned
    out,            \* what was stored, in order
    got,            \* s: the characters of this conversion
    base, neg, num, \* ffintscan: base, sign, x or y
    errno

parse == <<got, base, neg, num, errno>>
args == <<fmt, k, pos, matches, out>>
vars == <<text, cookie, rpos, rend, shend, shlim, shcnt, c,
          fmt, k, pc, pos, matches, out, got, base, neg, num, errno>>

D == fmt[k]

Init ==
    /\ fmt \in Formats /\ text \in Texts[fmt]
    /\ FileInit
    /\ k = 1 /\ pc = "next" /\ pos = 0 /\ matches = 0 /\ out = <<>>
    /\ got = <<>> /\ base = 0 /\ neg = FALSE /\ num = 0 /\ errno = "none"

(* ---- how a directive or the scan ends --------------------------------- *)

Advance(n) ==
    /\ pos' = pos + n
    /\ k' = k + 1
    /\ pc' = "next"

(* store_int knows no object of %Ld's or %Ln's size and stores nothing.     *)
HasObject(d) == d.dest /\ (d.kind \in {"int", "n"} => d.size # "L")

(* A conversion with an argument counts, stored or not; store_int cuts a   *)
(* value to the width of the object.                                       *)
Assign(value) ==
    /\ out' = IF HasObject(D) THEN Append(out, value) ELSE out
    /\ matches' = IF D.dest THEN matches + 1 ELSE matches

Narrow(n, size) == n % 2 ^ Bits[size]

(* fmt_fail and input_fail.                                                *)
Fail ==
    /\ matches' = IF matches = 0 THEN -1 ELSE matches
    /\ pc' = "end"
    /\ UNCHANGED <<fmt, k, pos, out>>

MatchFail ==
    /\ pc' = "end"
    /\ UNCHANGED args

(* ---- the directives --------------------------------------------------- *)

(* The end of the format.                                                  *)
Finish ==
    /\ pc = "next" /\ k > Len(fmt)
    /\ MatchFail
    /\ UNCHANGED <<file, parse>>

(* White space, characters to match and every conversion but %c, %[ and %n *)
(* begin by a fresh count.                                                 *)
Begin ==
    /\ pc = "next" /\ k <= Len(fmt)
    /\ D.kind \in {"space", "literal", "percent", "int", "float", "other"} \/ (D.kind = "set" /\ D.skip)
    /\ ShLim(0)
    /\ pc' = IF D.kind = "literal" THEN "char" ELSE "skip"
    /\ UNCHANGED <<args, parse>>

NoSkip ==
    /\ pc = "next" /\ k <= Len(fmt)
    /\ D.kind = "set" /\ ~D.skip
    /\ pc' = "width"
    /\ UNCHANGED <<file, args, parse>>

(* %n stores how much was read, and neither counts nor reads.              *)
ReadSoFar ==
    /\ pc = "next" /\ k <= Len(fmt)
    /\ D.kind = "n"
    /\ out' = IF HasObject(D) THEN Append(out, Narrow(pos, D.size)) ELSE out
    /\ k' = k + 1
    /\ UNCHANGED <<file, parse, fmt, pos, matches, pc>>

BadConversion ==
    /\ pc = "next" /\ k <= Len(fmt)
    /\ D.kind = "bad"
    /\ Fail
    /\ UNCHANGED <<file, parse>>

(* while (isspace(shgetc(f)));                                             *)
Skip ==
    /\ pc = "skip"
    /\ ShGetC
    /\ pc' = IF c' \in Spaces THEN "skip"
             ELSE IF D.kind = "percent" THEN "compare" ELSE "skipped"
    /\ UNCHANGED <<args, parse>>

Skipped ==
    /\ pc = "skipped"
    /\ ShUnget
    /\ IF D.kind = "space"
       THEN Advance(Count')
       ELSE pos' = pos + Count' /\ pc' = "width" /\ k' = k
    /\ UNCHANGED <<fmt, matches, out, parse>>

OneChar ==
    /\ pc = "char"
    /\ ShGetC
    /\ pc' = "compare"
    /\ UNCHANGED <<args, parse>>

Compare ==
    /\ pc = "compare"
    /\ IF c = D.ch
       THEN Advance(Count) /\ UNCHANGED <<file, fmt, matches, out>>
       ELSE /\ ShUnget
            /\ IF c = EOF THEN Fail ELSE MatchFail
    /\ UNCHANGED parse

(* A conversion: the width, and one character that must be there.          *)
Width ==
    /\ pc = "width"
    /\ ShLim(D.width)
    /\ pc' = "peek"
    /\ UNCHANGED <<args, parse>>

Peek ==
    /\ pc = "peek"
    /\ ShGetC
    /\ IF c' = EOF THEN Fail
                   ELSE pc' = "convert" /\ UNCHANGED args
    /\ UNCHANGED parse

Convert ==
    /\ pc = "convert"
    /\ ShUnget
    /\ IF D.kind = "set" /\ ~D.closed
       THEN Fail
       ELSE pc' = D.kind /\ UNCHANGED args
    /\ got' = <<>> /\ neg' = FALSE /\ num' = 0
    /\ base' = IF D.kind = "int" THEN D.base ELSE base
    /\ UNCHANGED errno

(* ---- %s, %c and %[ ---------------------------------------------------- *)

InSet(d, ch) == ch # EOF /\ (ch \in d.set) # d.invert

Chars ==
    /\ pc = "set"
    /\ ShGetC
    /\ IF InSet(D, c') THEN got' = Append(got, c') /\ pc' = "set"
                    ELSE got' = got /\ pc' = "taken"
    /\ UNCHANGED <<args, base, neg, num, errno>>

(* A mutant: %c is content with fewer characters than its width.           *)
TakenShort ==
    /\ pc = "taken"
    /\ ShUnget
    /\ IF Count' = 0
       THEN MatchFail
       ELSE Advance(Count') /\ Assign(got) /\ UNCHANGED fmt
    /\ UNCHANGED parse

Taken ==
    /\ pc = "taken"
    /\ ShUnget
    /\ IF Count' = 0 \/ (D.exact /\ Count' # D.width)
       THEN MatchFail
       ELSE Advance(Count') /\ Assign(got) /\ UNCHANGED fmt
    /\ UNCHANGED parse

(* A letter that is no conversion, behind a length modifier, is met by no  *)
(* case: nothing is read or stored, and it counts.                         *)
Unknown ==
    /\ pc = "other"
    /\ Advance(Count)
    /\ matches' = IF D.dest THEN matches + 1 ELSE matches
    /\ UNCHANGED <<file, parse, fmt, out>>

(* ---- ffintscan -------------------------------------------------------- *)

(* White space again, of which none is left, and the sign.                 *)
Sign ==
    /\ pc = "int"
    /\ ShGetC
    /\ neg' = (c' = "-")
    /\ pc' = CASE c' \in Spaces -> "int" [] c' \in {"+", "-"} -> "signed" [] OTHER -> "first"
    /\ UNCHANGED <<args, got, base, num, errno>>

AfterSign ==
    /\ pc = "signed"
    /\ ShGetC
    /\ pc' = "first"
    /\ UNCHANGED <<args, parse>>

LeadingZero ==
    /\ pc = "first"
    /\ base \in {0, 16} /\ c = "0"
    /\ ShGetC
    /\ IF c' = "x"
       THEN pc' = "hex" /\ base' = base
       ELSE pc' = "digits" /\ base' = IF base = 0 THEN 8 ELSE base
    /\ UNCHANGED <<args, got, neg, num, errno>>

AfterX ==
    /\ pc = "hex"
    /\ ShGetC
    /\ IF Val(c') >= 16
       THEN pc' = "reject" /\ base' = base
       ELSE pc' = "digits" /\ base' = 16
    /\ UNCHANGED <<args, got, neg, num, errno>>

FirstDigit ==
    LET b == IF base = 0 THEN 10 ELSE base
    IN /\ pc = "first"
       /\ ~(base \in {0, 16} /\ c = "0")
       /\ base' = b
       /\ IF Val(c) >= b THEN pc' = "reject" /\ errno' = "EINVAL"
                         ELSE pc' = "digits" /\ errno' = errno
       /\ UNCHANGED <<file, args, got, neg, num>>

Reject ==
    /\ pc = "reject"
    /\ ShUnget
    /\ pc' = "rejected"
    /\ UNCHANGED <<args, parse>>

Rejected ==
    /\ pc = "rejected"
    /\ ShLim(0)
    /\ num' = 0 /\ pc' = "filed"
    /\ UNCHANGED <<args, got, base, neg, errno>>

(* No conversion has a base but 8, 10 and 16, so the loops for other bases *)
(* are not here.                                                           *)
(*                                                                         *)
(* The digits, in an unsigned as long as one more is sure to fit, then in  *)
(* an unsigned long long as long as the next one does.                     *)
XMore == num <= IF base = 10 THEN (UIntMax \div 10) - 1 ELSE UIntMax \div 32

YMore == IF base = 10
         THEN num <= ULLMax \div 10 /\ 10 * num <= ULLMax - Val(c)
         ELSE num <= ULLMax \div base

Digit(more, bits, after) ==
    /\ IF Val(c) < base /\ more
       THEN /\ ShGetC
            /\ num' = (num * base + Val(c)) % 2 ^ bits
            /\ pc' = pc
       ELSE /\ pc' = after
            /\ UNCHANGED <<file, num>>
    /\ UNCHANGED <<args, got, base, neg, errno>>

XDigits == pc = "digits" /\ Digit(XMore, UIntBits, "more")
YDigits == pc = "more" /\ Digit(YMore, ULLBits, IF Val(c) < base THEN "over" ELSE "done")

(* A mutant: the rest is not read.                                         *)
OverflowStays ==
    /\ pc = "over"
    /\ IF Val(c) < base
       THEN UNCHANGED <<pc, num, neg, errno>>
       ELSE /\ num' = ULLMax /\ neg' = FALSE /\ errno' = "ERANGE"
            /\ pc' = "done"
    /\ UNCHANGED <<file, args, got, base>>

(* Too many: the rest is read over, and the largest value stands for it.   *)
Overflow ==
    /\ pc = "over"
    /\ IF Val(c) < base
       THEN ShGetC /\ UNCHANGED <<pc, num, neg, errno>>
       ELSE /\ num' = ULLMax /\ neg' = FALSE /\ errno' = "ERANGE"
            /\ pc' = "done"
            /\ UNCHANGED file
    /\ UNCHANGED <<args, got, base>>

(* (y^neg)-neg                                                             *)
Negated == IF neg THEN (2 ^ ULLBits - num) % 2 ^ ULLBits ELSE num

IntDone ==
    /\ pc = "done"
    /\ ShUnget
    /\ num' = Negated
    /\ pc' = "filed"
    /\ UNCHANGED <<args, got, base, neg, errno>>

StoreInt ==
    /\ pc = "filed"
    /\ IF Count = 0
       THEN MatchFail
       ELSE Advance(Count) /\ Assign(Narrow(num, D.size)) /\ UNCHANGED fmt
    /\ UNCHANGED <<file, parse>>

Step ==
    \/ Finish \/ Begin \/ NoSkip \/ ReadSoFar \/ BadConversion
    \/ Skip \/ Skipped \/ OneChar \/ Compare \/ Width \/ Peek \/ Convert
    \/ Chars \/ Taken \/ Unknown
    \/ Sign \/ AfterSign \/ LeadingZero \/ AfterX \/ FirstDigit
    \/ Reject \/ Rejected \/ XDigits \/ YDigits \/ Overflow \/ IntDone \/ StoreInt

Ended == pc = "end" /\ UNCHANGED vars

(* Wherever the refills, the limits and the end of the text fall, the      *)
(* scanner reads the text one character after the other and at most as     *)
(* many as it allowed (ffshgetc, ffshlim, shunget).                        *)
Reader == INSTANCE Stream WITH
    at <- Consumed, since <- CountsFrom, lim <- shlim, last <- c

ReaderIsStream == Reader!Spec
==============================================================================
