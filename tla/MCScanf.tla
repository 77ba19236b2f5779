------------------------------- MODULE MCScanf -------------------------------
(* Texts of up to four characters, a reader that takes over two at a time,   *)
(* and objects of 2 to 8 bits: a number of three digits leaves the widest.   *)
EXTENDS ScanfMeaning

Conv(kind, width, dest) ==
  [kind |-> kind, width |-> width, dest |-> dest, base |-> 10, size |-> "def", ch |-> "%",
   set |-> {}, invert |-> FALSE, closed |-> TRUE, skip |-> FALSE, exact |-> FALSE]
Space == Conv("space", 0, FALSE)
Lit(ch) == [Conv("literal", 0, FALSE) EXCEPT !.ch = ch]
Percent == Conv("percent", 0, FALSE)
Bad == Conv("bad", 0, TRUE)
N(size) == [Conv("n", 0, TRUE) EXCEPT !.size = size]
Integer(b, width, size, dest) == [Conv("int", width, dest) EXCEPT !.base = b, !.size = size]
Str(width) == [Conv("set", width, TRUE) EXCEPT !.set = {" "}, !.invert = TRUE, !.skip = TRUE]
Float(width, size) == [Conv("float", width, TRUE) EXCEPT !.size = size]
Ch(width, dest) == [Conv("set", width, dest) EXCEPT !.invert = TRUE, !.exact = TRUE]
Set(chars, invert, closed) ==
  [Conv("set", 0, TRUE) EXCEPT !.set = chars, !.invert = invert, !.closed = closed]

Few == {" ", "-", "0", "x", "2", "5"}
MCChar == DOMAIN Digits \cup {" ", "-", "+", "%", ".", "(", ")"}
MCBits == [hh |-> 2, h |-> 3, def |-> 5, l |-> 8, ll |-> 8]

Plain ==
  { <<Integer(0, 0, "ll", TRUE), N("def")>>,                           \* "%lli%n"
    <<Integer(10, 2, "l", TRUE), N("hh"), Integer(16, 0, "ll", TRUE)>>,    \* "%2ld%hhn%llx"
    <<Integer(16, 3, "ll", TRUE), Integer(8, 0, "h", FALSE), N("def")>>,   \* "%3llx%*ho%n"
    <<Integer(10, 0, "ll", TRUE), Bad>>,                               \* "%llu%!"
    <<Integer(10, 1, "L", TRUE), N("L"), N("def")>>,                   \* "%1Ld%Ln%n"
    <<Space, Lit("2"), Str(2), N("l"), Bad>>,                      \* " 2%2s%ln%!"
    <<Ch(2, TRUE), Space, Percent, Integer(8, 0, "ll", TRUE)>>,        \* "%2c %%%llo"
    <<Ch(1, FALSE), Set({"0", "x"}, FALSE, TRUE), Lit("5")>>,      \* "%*c%[0x]5"
    <<Set({" "}, TRUE, FALSE), Bad>>,                              \* "%[^ "
    <<Conv("other", 0, TRUE), Set({"2"}, TRUE, TRUE), Str(0)>> }   \* "%hq%[^2]%s"
PlainTexts == [1 .. 4 -> Few] \cup UNION {[1 .. n -> Few \cup {"%", "+", "9", "a"}] : n \in 0 .. 3}

\* Numbers of four characters, and of a few more where it takes them: a point or
\* an exponent behind digits, more digits than are kept, an exponent at the bound.
Floats ==
  { <<Float(0, "def"), N("def")>>,                                 \* "%f%n"
    <<Float(3, "l"), N("hh"), Float(0, "L")>>,                     \* "%3lf%hhn%Lf"
    <<Float(0, "hh"), Bad>> }                                      \* "%hhf%!"
Join(heads, tails) == {h \o t : h \in heads, t \in tails}
Letters == {<<"i">>, <<"n">>, <<"f">>, <<"(">>, <<")">>, <<"5">>}
FloatTexts ==
  UNION {[1 .. n -> {"0", "5", ".", "e", "-", "x", "p"}] : n \in 0 .. 4}
  \cup Join({<<"0", "x">>, <<"-", "0", "x">>},
            UNION {[1 .. n -> {"0", "a", ".", "p", "5"}] : n \in 1 .. 4})
  \cup Join({<<"5">>, <<"0", ".">>, <<"5", "0", "5">>, <<"0", "x", "5">>},
            UNION {[1 .. n -> {"0", "5", "e", "p", "+"}] : n \in 1 .. 3})
  \cup Join({<<"5", "e">>, <<"5", "e", "-">>, <<"0", "x", "5", "p">>, <<"0", "x", "5", "p", "-">>},
            [1 .. 3 -> {"0", "2", "5", "9"}])
  \cup Join({SubSeq(<<"-", "i", "n", "f", "i", "n", "i", "t", "y">>, m, n) : m \in 1 .. 2, n \in 2 .. 9},
            {<<>>} \cup Letters)
  \cup Join({<<"n">>, <<"n", "a">>, <<"n", "a", "n">>, <<"n", "a", "n", "(">>},
            {<<>>} \cup Join(Letters, {<<>>} \cup Letters))

MCFormats == Plain \cup Floats
MCTexts   == [f \in MCFormats |-> IF f \in Floats THEN FloatTexts ELSE PlainTexts]
MCKept     == [r \in {10, 16} |-> IF r = 10 THEN 3 ELSE 2]
\* A float's range is the narrower one.
MCLargest  == [z \in Precisions |-> [r \in {10, 16} |-> CASE z = "def" -> IF r = 10 THEN 9 ELSE 12
                                                          [] OTHER -> IF r = 10 THEN 10 ELSE 16]]
MCSmallest == [z \in Precisions |-> [r \in {10, 16} |-> CASE z = "def" -> IF r = 10 THEN -6 ELSE -8
                                                          [] OTHER -> IF r = 10 THEN -10 ELSE -12]]
==============================================================================
