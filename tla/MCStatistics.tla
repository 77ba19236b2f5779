---------------------------- MODULE MCStatistics ---------------------------
(* Three records, one of them a union, with up to two fields each, and       *)
(* packages of two functions in one or two headers; packages with files of    *)
(* all sorts in all places.                                                   *)
EXTENDS PackageFilter

F(to, far) == [to |-> to, far |-> far]
Simple(to) == <<F(to, FALSE)>>
\* Fields for cycles, diamonds, trees, and pointers at the bottom.
OfA  == {<<f, g>> : f, g \in {F("b", TRUE), F("b", FALSE), F("u", FALSE), F("function", FALSE)}}
          \cup {<< >>, <<F("plain", FALSE), F("function", TRUE)>>}
OfB  == {<< >>, Simple("function"), <<F("a", TRUE), F("u", FALSE)>>, <<F("b", TRUE), F("function", FALSE)>>}
OfU  == {<<F("plain", FALSE), F("function", FALSE)>>, <<F("a", TRUE)>>}
Layout == {[a |-> x, b |-> y, u |-> z] : x \in OfA, y \in OfB, z \in OfU}
Opaque == [a |-> << >>, b |-> << >>, u |-> << >>]
Heads  == {Simple("a"), <<F("b", FALSE), F("a", TRUE)>>, <<F("u", FALSE), F("function", FALSE)>>}
Decl1(name, types) == [name |-> name, types |-> types, args |-> << >>, variadic |-> FALSE]

MCRecords == {"a", "b", "u"}

Plain == [path |-> "h", exists |-> TRUE, suffix |-> "h", dotted |-> FALSE, flags |-> {},
          works |-> TRUE, layout |-> Opaque, decls |-> << >>]
Header(path, l, ds) == [Plain EXCEPT !.path = path, !.layout = l, !.decls = ds]
Pkg(package, stem, fs) ==
  [package |-> package, dev |-> TRUE, stem |-> stem, known |-> TRUE, files |-> fs]

\* Libraries with all layouts: two functions in one header, or in two of which
\* the first sees the records only declared; or one function, declared twice.
Rich ==
  {<<Header("h", l, <<Decl1("f", x), Decl1("g", y)>>)>> :
     l \in Layout, x \in Heads, y \in Heads \ {Simple("a")}}
  \cup {<<Header("h", l, <<Decl1("f", x), Decl1("f", Simple("a"))>>)>> : l \in Layout, x \in Heads}
  \cup {<<Header("h", Opaque, <<Decl1("f", x)>>), Header("k", l, <<Decl1("g", y)>>)>> :
          l \in Layout, x \in Heads, y \in Heads \ {Simple("a")}}
One(fs) == Pkg("one-dev", "one", fs)
\* A second library with records of the same names.
OtherLayout == [a |-> Simple("u"), b |-> Simple("function"), u |-> << >>]
OtherFiles  == <<Header("o", OtherLayout, <<Decl1("h", Simple("a")), Decl1("k", Simple("b"))>>)>>
Two == Pkg("two-dev", "two", OtherFiles)
\* A third of the second's name, as packages lose what follows -dev.
TwoBin(fs) == Pkg("two-dev-bin", "two", fs)
Few == {<<Header("h", l, <<Decl1("f", x), Decl1("g", Simple("a"))>>)>> :
          l \in {x \in Layout : x.a = << >> \/ x.b = << >>}, x \in Heads}

\* Files of all sorts: a .pc file, with a dot in its name or refused, in front
\* of or behind the headers that need its flags, listed twice or not there.
Pc(path, dotted, works) ==
  [Plain EXCEPT !.path = path, !.suffix = "pc", !.dotted = dotted, !.works = works, !.flags = {"I"}]
Needy(there, loads) ==
  [Header("n", OtherLayout, <<[Decl1("v", Simple("plain")) EXCEPT !.args = <<"text", "va_list">>],
                              [Decl1("w", Simple("b")) EXCEPT !.args = <<"other">>, !.variadic = TRUE]>>)
     EXCEPT !.flags = {"I"}, !.exists = there, !.works = loads]
Cxx   == [Header("x", Opaque, <<Decl1("c", Simple("a"))>>) EXCEPT !.flags = {"c++"}]
Dotty == [Header("d.h", Opaque, <<Decl1("d", Simple("a"))>>) EXCEPT !.dotted = TRUE]
Lib   == [Plain EXCEPT !.path = "so.2", !.suffix = "so", !.dotted = TRUE]
Same  == Header("s", Opaque, <<[Decl1("v", Simple("plain")) EXCEPT !.args = <<"va_list">>],
                               [Decl1("s", Simple("plain")) EXCEPT !.args = <<"text">>, !.variadic = TRUE]>>)
Odd ==
  LET Orders(pc, h) == {<<pc, h>>, <<h, pc>>, <<h, pc, h, Same>>, <<Same, Lib, h, Cxx, pc>>, <<h, Dotty>>, <<pc>>}
  IN UNION {Orders(Pc("p", dotted, works), Needy(there, loads)) :
              dotted, works, there, loads \in BOOLEAN}
MCPackageLists ==
  {{One(fs)} : fs \in Rich}
  \cup {{One(fs), Two} : fs \in Few}
  \cup {{TwoBin(fs), Two} : fs \in Few \cup Odd}
  \cup {{One(fs), [TwoBin(OtherFiles) EXCEPT !.known = k], [Two EXCEPT !.dev = d]} :
           fs \in Odd, k, d \in BOOLEAN}

\* The lists that can come of these.
Lists(ps) ==
  LET usable == {p \in ps : p.dev /\ p.known /\ ValidHeaders(p) # << >>}
  IN {[n \in DOMAIN order |-> [name |-> order[n].stem, lib |-> Contents(Loaded(ValidHeaders(order[n])))]] :
        order \in SetToSeqs(usable)}
MCInfoDocs == UNION {Lists(ps) : ps \in MCPackageLists}
=============================================================================
