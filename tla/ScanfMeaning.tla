---------------------------- MODULE ScanfMeaning ----------------------------
(***************************************************************************)
(* What a scan should give, defined on the whole text without a reader, a  *)
(* step or a look ahead: the directives of a format applied one after the  *)
(* other.  A conversion takes the longest piece of its field that is one   *)
(* of its items or the beginning of one, as the C standard has it.         *)
(***************************************************************************)
EXTENDS FloatScan, SequencesExt

LongestPrefix(s, P(_)) == Max({n \in 0 .. Len(s) : P(SubSeq(s, 1, n))})

AfterSpaces(at) ==
    Min({n \in at .. Len(text) : n = Len(text) \/ text[n + 1] \notin Spaces})

Field(at, width) ==
    SubSeq(text, at + 1, IF width = 0 THEN Len(text) ELSE Min({Len(text), at + width}))

(* ---- numerals --------------------------------------------------------- *)

Unsigned(s) == IF s # <<>> /\ s[1] \in {"+", "-"} THEN Tail(s) ELSE s

Prefixed(u, b) == b \in {0, 16} /\ Len(u) >= 2 /\ u[1] = "0" /\ u[2] = "x"

Radix(u, b) ==
    IF b # 0 THEN b ELSE IF Prefixed(u, b) THEN 16 ELSE IF u[1] = "0" THEN 8 ELSE 10

DigitsOf(u, b) == IF Prefixed(u, b) THEN SubSeq(u, 3, Len(u)) ELSE u

IsNumeral(s, b) ==
    LET u == Unsigned(s)
        ds == DigitsOf(u, b)
    IN ds # <<>> /\ \A i \in DOMAIN ds : Val(ds[i]) < Radix(u, b)

MayBecome(s, b) == \E more \in {<<>>, <<"0">>} : IsNumeral(s \o more, b)

(* The piece of a field that is taken for base b.                          *)
Item(s, b) == SubSeq(s, 1, LongestPrefix(s, LAMBDA q : MayBecome(q, b)))

Magnitude(s, b) ==
    LET u == Unsigned(s)
    IN FoldLeft(LAMBDA a, ch : a * Radix(u, b) + Val(ch), 0, DigitsOf(u, b))

(* What is out of range becomes the largest value; a sign means the        *)
(* negative modulo the width.                                              *)
IntValue(s, b) ==
    LET m == Magnitude(s, b)
    IN IF m > ULLMax THEN ULLMax
       ELSE IF s[1] = "-" THEN (2 ^ ULLBits - m) % 2 ^ ULLBits ELSE m

(* ---- floating-point numbers ------------------------------------------- *)

Dec(ch) == Val(ch) < 10
Hex(ch) == Val(ch) < 16
All(s, P(_)) == \A i \in DOMAIN s : P(s[i])

IsWord(u) ==
    \/ u \in {Word.nan, SubSeq(Word.infinity, 1, 3), Word.infinity}
    \/ /\ Len(u) >= 5 /\ SubSeq(u, 1, 4) = Append(Word.nan, "(") /\ u[Len(u)] = ")"
       /\ All(SubSeq(u, 5, Len(u) - 1), LAMBDA ch : ch \in WordChars)

IsHex(u) == Len(u) >= 2 /\ u[1] = "0" /\ u[2] = "x"

(* A number is its digits with one point at most, then, behind a letter,   *)
(* an exponent.  Where the exponent begins, if there is one:               *)
Split(u) ==
    LET letters == {i \in DOMAIN u : u[i] = IF IsHex(u) THEN "p" ELSE "e"}
    IN IF letters = {} THEN Len(u) + 1 ELSE Min(letters)
Mantissa(u) == SubSeq(u, IF IsHex(u) THEN 3 ELSE 1, Split(u) - 1)
Exponent(u) == SubSeq(u, Split(u) + 1, Len(u))

IsNumber(u) ==
    LET m == Mantissa(u)
        digits == RemoveFirst(m, ".")
        e == Unsigned(Exponent(u))
    IN /\ digits # <<>>
       /\ IF IsHex(u) THEN All(digits, Hex) ELSE All(digits, Dec)
       /\ Split(u) <= Len(u) => e # <<>> /\ All(e, Dec)

IsFloat(s) == IsWord(Unsigned(s)) \/ IsNumber(Unsigned(s))

MayBecomeFloat(s) ==
    \/ \E more \in {<<>>, <<"0">>, <<")">>} : IsFloat(s \o more)
    \/ IsPrefix(Unsigned(s), Word.infinity) \/ IsPrefix(Unsigned(s), Append(Word.nan, "("))

FloatItem(s) == SubSeq(s, 1, LongestPrefix(s, MayBecomeFloat))

Numeral(ds, radix) == FoldLeft(LAMBDA a, ch : a * radix + Val(ch), 0, ds)

(* The characters behind the point, the digits from the first one that is  *)
(* not 0, and the exponent as it is written.                               *)
Fractional(m) ==
    IF Contains(m, ".") THEN Len(m) - SelectInSeq(m, LAMBDA ch : ch = ".") ELSE 0
Significant(ds) ==
    LET first == SelectInSeq(ds, LAMBDA ch : ch # "0")
    IN IF first = 0 THEN <<>> ELSE SubSeq(ds, first, Len(ds))
Written(e) ==
    LET n == Numeral(Unsigned(e), 10)
    IN IF n # 0 /\ e[1] = "-" THEN -n ELSE n

(* The first digits that count, whether there is more behind them, and     *)
(* the exponent that the last of them has.                                 *)
NumberValue(u, negative, size) ==
    LET radix  == IF IsHex(u) THEN 16 ELSE 10
        unit   == IF IsHex(u) THEN 4 ELSE 1
        m      == Mantissa(u)
        digits == Significant(RemoveFirst(m, "."))
        n      == Min({Len(digits), Kept[radix]})
        exp    == Written(Exponent(u)) - unit * Fractional(m)
        top    == exp + unit * Len(digits)
    IN IF digits = <<>> THEN [class |-> "zero", neg |-> negative]
       ELSE IF top > Largest[size][radix] THEN [class |-> "over", neg |-> negative]
       ELSE IF top < Smallest[size][radix] THEN [class |-> "under", neg |-> negative]
       ELSE [class |-> "number", neg |-> negative, hex |-> IsHex(u),
             num |-> Numeral(SubSeq(digits, 1, n), radix),
             tail |-> ~All(SubSeq(digits, n + 1, Len(digits)), LAMBDA ch : ch = "0"),
             exp |-> top - unit * n]

FloatValue(s, size) ==
    LET u == Unsigned(s)
    IN IF u[1] = "i" THEN [class |-> "inf", neg |-> s[1] = "-"]
       ELSE IF u[1] = "n" THEN [class |-> "nan", neg |-> FALSE]
       ELSE NumberValue(u, s[1] = "-", size)

(* ---- the meaning of a format ------------------------------------------ *)

Failed(a) == [a EXCEPT !.on = FALSE, !.n = IF @ = 0 THEN -1 ELSE @]
Stopped(a) == [a EXCEPT !.on = FALSE]
Stored(a, d, value) == [a EXCEPT !.out = IF HasObject(d) THEN Append(@, value) ELSE @]
Counted(a, d, at) == [a EXCEPT !.at = at, !.n = IF d.dest THEN @ + 1 ELSE @]

Matched(a, d, at) ==
    CASE at = Len(text) -> Failed(a)
      [] at < Len(text) /\ text[at + 1] # d.ch -> Stopped(a)
      [] OTHER -> [a EXCEPT !.at = at + 1]

Converted(a, d, at) ==
    LET s == Field(at, d.width)
        n == LongestPrefix(s, LAMBDA q : \A i \in DOMAIN q : InSet(d, q[i]))
        item == Item(s, d.base)
        fp == FloatItem(s)
    IN CASE s = <<>> -> Failed(a)
         [] s # <<>> /\ d.kind = "other" -> Counted(a, d, at)
         [] s # <<>> /\ d.kind = "set" ->
               IF ~d.closed THEN Failed(a)
               ELSE IF n = 0 \/ (d.exact /\ n # d.width) THEN Stopped(a)
               ELSE Counted(Stored(a, d, SubSeq(s, 1, n)), d, at + n)
         [] s # <<>> /\ d.kind = "int" ->
               IF ~IsNumeral(item, d.base) THEN Stopped(a)
               ELSE Counted(Stored(a, d, Narrow(IntValue(item, d.base), d.size)),
                            d, at + Len(item))
         [] s # <<>> /\ d.kind = "float" ->
               IF d.size \notin Precisions \/ ~IsFloat(fp) THEN Stopped(a)
               ELSE Counted(Stored(a, d, FloatValue(fp, d.size)), d, at + Len(fp))

Applied(a, d) ==
    CASE ~a.on -> a
      [] a.on /\ d.kind = "space" -> [a EXCEPT !.at = AfterSpaces(@)]
      [] a.on /\ d.kind = "literal" -> Matched(a, d, a.at)
      [] a.on /\ d.kind = "percent" -> Matched(a, d, AfterSpaces(a.at))
      [] a.on /\ d.kind = "n" -> Stored(a, d, Narrow(a.at, d.size))
      [] a.on /\ d.kind = "bad" -> Failed(a)
      [] a.on /\ d.kind \in {"int", "float", "set", "other"} ->
            Converted(a, d, IF d.kind = "set" /\ ~d.skip THEN a.at ELSE AfterSpaces(a.at))

Meaning(ds) == FoldLeft(Applied, [at |-> 0, n |-> 0, out |-> <<>>, on |-> TRUE], ds)

(* ---- properties ------------------------------------------------------- *)

(* ffintscan and fffloatscan take the longest beginning of a numeral; what  *)
(* is one has its value, in the width of unsigned long long or up to the   *)
(* digits kept, out of range or not, and what is none is given up with     *)
(* nothing taken.                                                          *)
IntegerRead ==
    LET item == Item(Field(pos, D.width), D.base)
    IN IF IsNumeral(item, D.base)
       THEN /\ Count = Len(item)
            /\ num = IntValue(item, D.base)
            /\ Magnitude(item, D.base) > ULLMax => errno = "ERANGE"
       ELSE Count = 0
FloatRead ==
    LET item == FloatItem(Field(pos, D.width))
    IN IF D.size \in Precisions /\ IsFloat(item)
       THEN /\ Count = Len(item)
            /\ flt.val = FloatValue(item, D.size)
            /\ flt.val.class \in {"over", "under"} => errno = "ERANGE"
       ELSE Count = 0
NumbersRead == (pc = "filed" => IntegerRead) /\ (pc = "floated" => FloatRead)

(* Between any two directives and at the end, what was read, stored and    *)
(* counted is what the format means (ff_vfscanf): -1 only when the text    *)
(* or the format ends the scan before the first assignment.                *)
ScannedAsMeant ==
    /\ pc = "next" =>
          /\ Meaning(SubSeq(fmt, 1, k - 1)) =
                [at |-> pos, n |-> matches, out |-> out, on |-> TRUE]
          /\ pos = Consumed
    /\ pc = "end" =>
          LET m == Meaning(fmt)
          IN matches = m.n /\ out = m.out

(* Every scan comes to an end.                                             *)
ScanEnds == <>(pc = "end")
=============================================================================
