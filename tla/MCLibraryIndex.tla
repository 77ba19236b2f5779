--------------------------- MODULE MCLibraryIndex ---------------------------
(* Every mapping file of up to three entries over two libraries, whose      *)
(* three files share the library's name; the third entry may be anything.  *)
(* Lookups from native libraries are made with some of them: the native    *)
(* files z and x, z also through a link whose name is x's; the guest library *)
(* y cannot be opened.                                                     *)
EXTENDS NativeSymbols

Item(alias, valid, g, h, n) ==
  [alias |-> alias, valid |-> valid, G |-> [dir |-> "@", name |-> g],
   H |-> [dir |-> "/h", name |-> h], N |-> [dir |-> "/n", name |-> n]]

MCNames == {"z", "x", "y"}
MCItems == {Item(alias, valid, g, h, n) :
             alias \in BOOLEAN, valid \in BOOLEAN, g \in {"z", "x"}, h \in {"z", "x"}, n \in {"z", "x", "y"}}
Good    == {i \in MCItems : i.valid}
MCLookupDocs ==
  [kind : {"object"}, items : {<<i, j>> : i \in {Item(FALSE, TRUE, "z", "z", n) : n \in {"z", "x", "y"}},
                                          j \in {Item(a, v, g, "x", n) : a, v \in BOOLEAN, g \in {"x", "y"}, n \in {"z", "x"}}}]
MCDocs  ==
  MCLookupDocs \cup
  [kind : {"missing", "unparsable", "scalar"}, items : {<< >>}]
    \cup [kind : {"object"}, items : {<<i, j>> : i, j \in MCItems} \cup
                                     {<<i, j, k>> : i, j, k \in Good}]
    \cup [kind : {"array"}, items : {<<i, j>> : i, j \in {x \in MCItems : ~ x.alias}}]

MCLinks ==
  LET native(n) == [dir |-> "/n", name |-> n]  link == [dir |-> "/home", name |-> "x"]
  IN  [p \in {native("z"), native("x"), link} |-> IF p = link THEN native("z") ELSE p]
MCGuests     == [dir : {"/home"}, name : {"z", "x"}]
=============================================================================
