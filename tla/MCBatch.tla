---------------------------- MODULE MCBatch ----------------------------
(* Batches for cfiadd_cc.py.  The rewriter sees programs of two functions:  *)
(* each has one expression of up to two levels of calls, printed in lines   *)
(* of Width tokens; the driver sees lists of up to four files.              *)
EXTENDS Batch, TLC

CONSTANTS Widths

\* Expression trees.
Name(t)        == [kind |-> "name", token |-> t]
Index(e, x)    == [kind |-> "index", of |-> e, at |-> x]
Call(e, args, sig) ==
  [kind |-> "call", of |-> e, args |-> args, sig |-> sig,
   base   |-> CASE e.kind = "call"  -> e.base
                [] e.kind = "index" -> "pointer"
                [] OTHER -> [fp |-> "pointer", fq |-> "pointer", fr |-> "pointer", fd |-> "deref",
                             fn |-> "function", fo |-> "odd"][e.token],
   levels |-> IF e.kind = "call" THEN e.levels + 1 ELSE 0]

RECURSIVE Text(_), Calls(_, _), Want(_)
\* Arguments, each printed by P, with commas.
Listing(args, P(_)) == FlattenSeq([n \in DOMAIN args |-> (IF n = 1 THEN << >> ELSE <<",">>) \o P(args[n])])
Text(e) ==
  CASE e.kind = "name"  -> <<e.token>>
    [] e.kind = "index" -> Text(e.of) \o <<"[">> \o Text(e.at) \o <<"]">>
    [] OTHER            -> Text(e.of) \o <<"(">> \o Listing(e.args, Text) \o <<")">>

\* The calls in e in preorder, places counted in tokens; n tokens precede e.
Calls(e, n) ==
  LET m == n + Len(Text(e.of)) + 1 IN
  CASE e.kind = "name"  -> << >>
    [] e.kind = "index" -> Calls(e.of, n) \o Calls(e.at, m)
    [] OTHER ->
         <<[base |-> e.base, levels |-> e.levels, sig |-> e.sig, from |-> n + 1, to |-> m,
            first |-> m + 1, bare |-> e.args = << >>]>>
         \o Calls(e.of, n)
         \o FlattenSeq([k \in DOMAIN e.args |->
              Calls(e.args[k], m + Len(Listing(SubSeq(e.args, 1, k - 1), Text)) + (IF k = 1 THEN 0 ELSE 1))])

Token(t) == [guard |-> FALSE, token |-> t]
Want(e) ==
  CASE e.kind = "name"  -> <<Token(e.token)>>
    [] e.kind = "index" -> Want(e.of) \o <<Token("[")>> \o Want(e.at) \o <<Token("]")>>
    [] OTHER ->
         LET args == FlattenSeq([k \in DOMAIN e.args |->
                       (IF k = 1 THEN << >> ELSE <<Token(",")>>) \o Want(e.args[k])])
         IN IF Ought(e)
              THEN <<[guard |-> TRUE, sig |-> e.sig], Token("(")>> \o Want(e.of)
                   \o (IF args = << >> THEN << >> ELSE <<Token(",")>>) \o args \o <<Token(")")>>
              ELSE Want(e.of) \o <<Token("(")>> \o args \o <<Token(")")>>

\* Function bodies e1 and e2, in lines of w tokens.
Lines(tokens, w) ==
  [l \in 1 .. (Len(tokens) + w - 1) \div w |->
     SubSeq(tokens, (l - 1) * w + 1, IF l * w > Len(tokens) THEN Len(tokens) ELSE l * w)]
Place(n, w) == <<((n - 1) \div w) + 1, ((n - 1) % w) + 1>>
Placed(call, fn, w) ==
  [call EXCEPT !.from  = Place(call.from, w),
               !.to    = <<Place(call.to - 1, w)[1], Place(call.to - 1, w)[2] + 1>>,
               !.first = Place(call.first, w)] @@ [fn |-> fn]
Program(e1, e2, w) ==
  LET first == <<"F", "{">> \o Text(e1) \o <<"}">>
      calls(e, n, fn) == LET cs == Calls(e, n) IN [k \in DOMAIN cs |-> Placed(cs[k], fn, w)]
  IN [lines |-> Lines(first \o <<"F", "{">> \o Text(e2) \o <<"}">>, w),
      fns   |-> <<Place(1, w), Place(Len(first) + 1, w)>>,
      calls |-> calls(e1, 2, 1) \o calls(e2, Len(first) + 2, 2),
      want  |-> <<Token("F"), Token("{")>> \o Want(e1) \o <<Token("}"), Token("F"), Token("{")>>
                  \o Want(e2) \o <<Token("}")>>]

-----------------------------------------------------------------------------
Arg   == Name("a")
Lists == {<< >>, <<Arg>>, <<Arg, Arg>>}
\* Pointers of two listed signatures and an unlisted one, a function, an
\* pointer dereferenced (one token here), what clang_reveal_call_expr does not
\* know.
Of(args) == {Call(Name("fp"), args, "s1"), Call(Name("fq"), args, "s2"), Call(Name("fr"), args, "s3"),
             Call(Name("fn"), args, "s1"), Call(Name("fd"), args, "s1"), Call(Name("fo"), args, "s1")}
Flat     == UNION {Of(args) : args \in Lists}
Simple   == Of(<<Arg>>) \cup Of(<< >>)
InArgs   == UNION {Of(<<x>>) \cup Of(<<Arg, x>>) : x \in Simple}
InIndex  == {Call(Index(Name("t"), x), <<y>>, "s1") : x, y \in Simple}
Chained  == {Call(x, args, "s2") : x \in Simple, args \in Lists}
               \cup {Call(Call(Call(Name("fn"), << >>, "s1"), << >>, "s1"), <<Arg>>, "s2")}
Second   == {z \in Simple : z.base # "odd"}

MCReduced  == [s1 |-> "r1", s2 |-> "r1", s3 |-> "r3"]
MCNames    == <<"G1", "G2", "G3", "G4">>
MCDecls    == <<"D1", "D2", "D3", "D4">>
Of2(exprs) == {Program(x, y, w) : x \in exprs, y \in Second, w \in Widths}

\* One file each, of every shape; without -E.
One(p) == [commands |-> <<"f1">>, num_parts |-> 1, text |-> [f1 |-> p], expand |-> FALSE]
Singles(exprs) == {One(p) : p \in Of2(exprs)}

\* Lists of files in one to three parts, the same file twice among them: g has
\* a call to guard, n has none, r makes cfiadd.py raise.
Small(token) == LET x == Call(Name(token), << >>, "s1") IN Program(x, x, 40)
Three == [g |-> Small("fp"), n |-> Small("fn"), r |-> Small("fo")]
Longer == {<<"g">>, <<"g", "n">>, <<"n", "g", "g">>, <<"g", "r", "n">>, <<"n", "g", "r", "g">>, <<"g", "n", "n", "n">>}
Several == {[commands |-> c, num_parts |-> k, text |-> Three, expand |-> e] :
              c \in Longer, k \in 1 .. 3, e \in BOOLEAN}

MCBatches == Singles(Flat \cup InArgs \cup InIndex \cup Chained) \cup Several
MCIndexed == Singles(InIndex)

\* What is meant of a program whose callees are plain, said by its positions, is
\* what its expressions say.
MCSigs == <<"s1", "s2", "s3">>
ASSUME MeantAsWanted ==
  \A b \in Batches : \A f \in DOMAIN b.text :
    LET p == b.text[f] IN
      Plain(p) => Meant(p, MCSigs, ToGuard(p)) =
        FlattenSeq([n \in DOMAIN p.want |->
          IF p.want[n].guard THEN <<GuardName[NumberIn(MCSigs, p.want[n].sig)]>> ELSE <<p.want[n].token>>])
=============================================================================
