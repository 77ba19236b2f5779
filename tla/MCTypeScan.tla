----------------------------- MODULE MCTypeScan -----------------------------
(* Graphs over an int, an enum, a long, two records, a pointer to anything, *)
(* two function types f and h, and one without prototype, g; headers of two *)
(* declarations.  The library calls f, h and g, g with and without          *)
(* arguments, with more arguments than f names where f is variadic.         *)
EXTENDS GuardThunks

MCTypes == {"i", "e", "l", "r", "q", "p", "f", "g", "h"}
MCKind  == [i |-> "integer", e |-> "enum", l |-> "integer", r |-> "record", q |-> "record",
            p |-> "pointer", f |-> "function", g |-> "noproto", h |-> "function"]
MCWidth == [i |-> 4, e |-> 4, l |-> 8, r |-> 16, q |-> 8, p |-> 8, f |-> 0, g |-> 0, h |-> 0]

Fields   == {<< >>, <<"p">>, <<"i", "p">>, <<"q">>}
Pointees == {"i", "r", "q", "f", "g"}
Heads    == {<<"i", "r">>, <<"p">>, <<"r", "p">>}

World1(fields, pointee, result, params, variadic, types, again) ==
  [kind |-> MCKind,
   kids |-> [i |-> << >>, e |-> << >>, l |-> << >>, r |-> fields, q |-> <<"h">>, p |-> <<pointee>>,
             f |-> result \o params, g |-> result, h |-> <<"i", "e">>],
   variadic |-> IF variadic THEN {"f"} ELSE {},
   decls    |-> <<[name |-> "api", types |-> types], [name |-> again, types |-> <<"i", "g">>]>>,
   symbols  |-> {"api", "gone"},
   calls    |-> <<[type |-> "g", args |-> << >>],
                  [type |-> "f", args |-> params \o (IF variadic THEN <<"l">> ELSE << >>)],
                  [type |-> "g", args |-> <<"i">>],
                  [type |-> "h", args |-> <<"e">>]>>]

MCWorlds ==
  {World1(fields, pointee, result, params, variadic, types, again) :
     fields \in Fields, pointee \in Pointees, result \in {<<"i">>, <<"p">>},
     params \in {<< >>, <<"i">>, <<"l">>, <<"r", "p">>}, variadic \in BOOLEAN,
     types \in Heads, again \in {"api", "gone", "other"}}
MCKilled == {World1(fields, "f", <<"i">>, <<"i">>, FALSE, types, "gone") : fields \in Fields, types \in Heads}
=============================================================================
