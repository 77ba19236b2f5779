-------------------------- MODULE LibraryIndexProofs --------------------------
(***************************************************************************)
(* For every set of names and directories and every mapping file: where    *)
(* names lead, and whose symbol native code gets, whichever threads look   *)
(* symbols up at a time.                                                   *)
(***************************************************************************)
EXTENDS NativeSymbols, TLAPS

USE HomeAssumption, DocsAssumption

LEMMA EscapeType == \A p \in Paths : Escape(p) \in Paths
BY DEF Escape, Paths

LEMMA EntryType ==
  ASSUME NEW item \in Items, NEW m \in Modes
  PROVE  Entry(item, m)[1] \in Paths /\ Entry(item, m)[2] \in Paths
BY DEF Items, Modes, Entry

LEMMA NextItem ==
  ASSUME TypeOK, ReadItem PROVE doc.items[at + 1] \in Items
<1>1. doc.items \in Seq(Items) /\ at \in Nat /\ at < Len(doc.items)
  BY DEF TypeOK, ReadItem, DocType
<1>2. at + 1 \in 1 .. Len(doc.items)
  BY <1>1
<1> QED
  BY <1>1, <1>2

\* The index after an entry was read, at any place of it.
LEMMA Filed ==
  ASSUME TypeOK, ReadItem, NEW m \in Modes, NEW n \in Names
  PROVE  LET item == doc.items[at + 1] IN
         index'[m][n] = IF item.valid /\ m \in ModesOf(item) /\ Entry(item, m)[1].name = n
                          THEN Escape(Entry(item, m)[2]) ELSE index[m][n]
<1> DEFINE item == doc.items[at + 1]
<1>1. index[m] \in [Names -> Paths \cup {NoPath}]
  BY DEF TypeOK
<1>2. CASE ~ item.valid
  BY <1>2 DEF ReadItem
<1>3. CASE item.valid
  <2>1. index'[m] = IF m \notin ModesOf(item) THEN index[m] ELSE
          [index[m] EXCEPT ![Entry(item, m)[1].name] = Escape(Entry(item, m)[2])]
    BY <1>3 DEF ReadItem, LastWins
  <2> QED
    BY <1>1, <1>3, <2>1
<1> QED
  BY <1>2, <1>3

LEMMA TypeInit == Init => TypeOK
BY DEF Init, TypeOK, DocType

LEMMA TypeStep == TypeOK /\ [Next]_vars => TypeOK'
<1> SUFFICES ASSUME TypeOK, [Next]_vars PROVE TypeOK'
  OBVIOUS
<1>1. CASE ReadItem
  <2> DEFINE item == doc.items[at + 1]
  <2>1. item \in Items
    BY <1>1, NextItem
  <2>2. CASE ~ item.valid
    BY <1>1, <2>2 DEF ReadItem, TypeOK
  <2>3. CASE item.valid
    <3>1. index' = [m \in Modes |-> IF m \notin ModesOf(item) THEN index[m] ELSE
            [index[m] EXCEPT ![Entry(item, m)[1].name] = Escape(Entry(item, m)[2])]]
      BY <1>1, <2>3 DEF ReadItem, LastWins
    <3>2. ASSUME NEW m \in Modes PROVE index'[m] \in [Names -> Paths \cup {NoPath}]
      <4> DEFINE p == Escape(Entry(item, m)[2])
      <4>1. p \in Paths
        BY <2>1, EntryType, EscapeType
      <4>2. index'[m] \in {index[m], [index[m] EXCEPT ![Entry(item, m)[1].name] = p]}
        BY <3>1
      <4>3. index[m] \in [Names -> Paths \cup {NoPath}]
        BY DEF TypeOK
      <4> HIDE DEF p, item
      <4> QED
        BY <4>1, <4>2, <4>3
    <3>3. index' \in [Modes -> [Names -> Paths \cup {NoPath}]]
      BY <3>1, <3>2
    <3> QED
      BY <1>1, <3>3 DEF ReadItem, TypeOK
  <2> QED
    BY <2>2, <2>3
<1>2. CASE Finish \/ AbortLoad \/ UNCHANGED vars
  BY <1>2 DEF Finish, AbortLoad, vars, TypeOK
<1> QED
  BY <1>1, <1>2 DEF Next, Done

LEMMA Types == Spec => []TypeOK
BY TypeInit, TypeStep, PTL DEF Spec

-----------------------------------------------------------------------------
(* What has been read, one entry at a time.                                *)

LEMMA ReadGrows ==
  ASSUME TypeOK, ReadItem
  PROVE  /\ Read' = Read \cup {k \in {at + 1} : doc.items[k].valid}
         /\ Primary' = Primary \cup {k \in {at + 1} : doc.items[k].valid /\ ~ doc.items[k].alias}
         /\ \A k \in Read : k # at + 1 /\ k <= at
<1>1. at \in Nat /\ at' = at + 1 /\ doc' = doc
  BY DEF TypeOK, ReadItem
<1>2. 1 .. (at + 1) = (1 .. at) \cup {at + 1}
  BY <1>1
<1>3. Read' = Read \cup {k \in {at + 1} : doc.items[k].valid}
  BY <1>1, <1>2 DEF Read
<1>4. Primary' = {k \in Read' : ~ doc.items[k].alias}
  BY <1>1 DEF Primary
<1> QED
  BY <1>1, <1>3, <1>4 DEF Read, Primary

LEMMA Stays ==
  ASSUME TypeOK, Finish \/ AbortLoad \/ UNCHANGED vars
  PROVE  UNCHANGED <<doc, at, index>>
BY DEF Finish, AbortLoad, vars

\* Where native names lead: each entry that is read overrides those before it.
LEMMA LeadStep == TypeOK /\ NativeNamesLead /\ [Next]_vars => NativeNamesLead'
<1> SUFFICES ASSUME TypeOK, NativeNamesLead, [Next]_vars PROVE NativeNamesLead'
  OBVIOUS
<1>1. CASE ReadItem
  <2> DEFINE item == doc.items[at + 1]
             Named(n) == {k \in Read : doc.items[k].N.name = n}
  <2>1. at \in Nat /\ doc' = doc /\ item \in Items
    BY <1>1, NextItem DEF TypeOK, ReadItem
  <2>2. SUFFICES ASSUME NEW n \in Names
                 PROVE  LET named == {k \in Read' : doc.items[k].N.name = n} IN
                        IF named = {} THEN index'["N2G"][n] = NoPath /\ index'["N2H"][n] = NoPath
                        ELSE \E k \in named : /\ \A j \in named : j <= k
                                              /\ index'["N2G"][n] = Escape(doc.items[k].G)
                                              /\ index'["N2H"][n] = Escape(doc.items[k].H)
    BY <2>1 DEF NativeNamesLead
  <2>3. "N2G" \in Modes /\ "N2H" \in Modes /\ "N2G" \in ModesOf(item) /\ "N2H" \in ModesOf(item)
    BY DEF Modes, ModesOf
  <2>4. Entry(item, "N2G") = <<item.N, item.G>> /\ Entry(item, "N2H") = <<item.N, item.H>>
    BY DEF Entry
  <2>5. CASE item.valid /\ item.N.name = n
    <3>1. index'["N2G"][n] = Escape(item.G) /\ index'["N2H"][n] = Escape(item.H)
      BY <1>1, <2>3, <2>4, <2>5, Filed
    <3>2. at + 1 \in {k \in Read' : doc.items[k].N.name = n}
      BY <1>1, <2>5, ReadGrows
    <3>3. \A j \in Read' : j <= at + 1
      BY <1>1, <2>1, ReadGrows DEF Read
    <3> QED
      BY <3>1, <3>2, <3>3
  <2>6. CASE ~ (item.valid /\ item.N.name = n)
    <3>1. index'["N2G"][n] = index["N2G"][n] /\ index'["N2H"][n] = index["N2H"][n]
      BY <1>1, <2>3, <2>4, <2>6, Filed
    <3>2. {k \in Read' : doc.items[k].N.name = n} = Named(n)
      BY <1>1, <2>6, ReadGrows
    <3> QED
      BY <3>1, <3>2 DEF NativeNamesLead
  <2> QED
    BY <2>5, <2>6
<1>2. CASE Finish \/ AbortLoad \/ UNCHANGED vars
  BY <1>2, Stays DEF NativeNamesLead, Read
<1> QED
  BY <1>1, <1>2 DEF Next, Done

\* Where a native name leads, in both maps, is the last entry that names it.
THEOREM NativeNamesFollow == Spec => []NativeNamesLead
<1>1. ASSUME Init PROVE NativeNamesLead
  <2>1. Read = {}
    BY <1>1 DEF Init, Read
  <2>2. ASSUME NEW n \in Names PROVE index["N2G"][n] = NoPath /\ index["N2H"][n] = NoPath
    BY <1>1 DEF Init, Modes
  <2> QED
    BY <2>1, <2>2 DEF NativeNamesLead
<1> QED
  BY <1>1, Types, LeadStep, PTL DEF Spec

-----------------------------------------------------------------------------
(* The routes of libraries.                                                *)

\* Where the names of guest and host delegates lead: to the last primary entry
\* that gives the name; aliases do not touch these maps.
GuestNamesLead ==
  \A n \in Names :
    LET giving == {i \in Primary : doc.items[i].G.name = n} IN
    giving # {} => \E i \in giving :
      /\ \A j \in giving : j <= i
      /\ index["G2H"][n] = Escape(doc.items[i].H)
      /\ index["G2N"][n] = Escape(doc.items[i].N)

HostNamesLead ==
  \A n \in Names :
    LET giving == {i \in Primary : doc.items[i].H.name = n} IN
    giving # {} => \E i \in giving :
      /\ \A j \in giving : j <= i
      /\ index["H2N"][n] = Escape(doc.items[i].N)
      /\ index["H2G"][n] = Escape(doc.items[i].G)

\* The four maps after an entry was read.
LEMMA FiledByDelegates ==
  ASSUME TypeOK, ReadItem, NEW n \in Names
  PROVE  LET item == doc.items[at + 1]  gives == item.valid /\ ~ item.alias IN
         /\ index'["G2H"][n] = IF gives /\ item.G.name = n THEN Escape(item.H) ELSE index["G2H"][n]
         /\ index'["G2N"][n] = IF gives /\ item.G.name = n THEN Escape(item.N) ELSE index["G2N"][n]
         /\ index'["H2N"][n] = IF gives /\ item.H.name = n THEN Escape(item.N) ELSE index["H2N"][n]
         /\ index'["H2G"][n] = IF gives /\ item.H.name = n THEN Escape(item.G) ELSE index["H2G"][n]
<1> DEFINE item == doc.items[at + 1]
<1>1. item \in Items
  BY NextItem
<1>2. {"G2H", "G2N", "H2N", "H2G"} \subseteq Modes
  BY DEF Modes
<1>3. \A m \in {"G2H", "G2N", "H2N", "H2G"} : m \in ModesOf(item) <=> ~ item.alias
  BY <1>2 DEF ModesOf
<1>4. /\ Entry(item, "G2H") = <<item.G, item.H>> /\ Entry(item, "G2N") = <<item.G, item.N>>
      /\ Entry(item, "H2N") = <<item.H, item.N>> /\ Entry(item, "H2G") = <<item.H, item.G>>
  BY DEF Entry
<1>5. \A m \in {"G2H", "G2N", "H2N", "H2G"} :
        index'[m][n] = IF item.valid /\ m \in ModesOf(item) /\ Entry(item, m)[1].name = n
                         THEN Escape(Entry(item, m)[2]) ELSE index[m][n]
  BY <1>2, Filed
<1> HIDE DEF item
<1> QED
  BY <1>3, <1>4, <1>5 DEF item

LEMMA DelegatesStep ==
  TypeOK /\ GuestNamesLead /\ HostNamesLead /\ [Next]_vars => GuestNamesLead' /\ HostNamesLead'
<1> SUFFICES ASSUME TypeOK, GuestNamesLead, HostNamesLead, [Next]_vars
             PROVE  GuestNamesLead' /\ HostNamesLead'
  OBVIOUS
<1>1. CASE ReadItem
  <2> DEFINE item == doc.items[at + 1]
             gives == item.valid /\ ~ item.alias
  <2>1. at \in Nat /\ doc' = doc
    BY <1>1 DEF TypeOK, ReadItem
  <2>2. /\ gives => at + 1 \in Primary' /\ Primary' = Primary \cup {at + 1}
        /\ ~ gives => Primary' = Primary
        /\ \A k \in Primary : k \in Nat /\ k <= at + 1
    BY <1>1, <2>1, ReadGrows DEF Read, Primary
  <2>3. GuestNamesLead'
    <3> SUFFICES ASSUME NEW n \in Names
                 PROVE  LET giving == {i \in Primary' : doc.items[i].G.name = n} IN
                        giving # {} => \E i \in giving :
                          /\ \A j \in giving : j <= i
                          /\ index'["G2H"][n] = Escape(doc.items[i].H)
                          /\ index'["G2N"][n] = Escape(doc.items[i].N)
      BY <2>1 DEF GuestNamesLead
    <3>1. CASE gives /\ item.G.name = n
      <4>1. index'["G2H"][n] = Escape(item.H) /\ index'["G2N"][n] = Escape(item.N)
        BY <1>1, <3>1, FiledByDelegates
      <4>2. at + 1 \in {i \in Primary' : doc.items[i].G.name = n}
        BY <2>2, <3>1
      <4>3. \A j \in Primary' : j <= at + 1
        BY <2>1, <2>2, <3>1
      <4> QED
        BY <4>1, <4>2, <4>3
    <3>2. CASE ~ (gives /\ item.G.name = n)
      <4>1. index'["G2H"][n] = index["G2H"][n] /\ index'["G2N"][n] = index["G2N"][n]
        BY <1>1, <3>2, FiledByDelegates
      <4>2. {i \in Primary' : doc.items[i].G.name = n} = {i \in Primary : doc.items[i].G.name = n}
        BY <2>2, <3>2
      <4> QED
        BY <4>1, <4>2 DEF GuestNamesLead
    <3> QED
      BY <3>1, <3>2
  <2>4. HostNamesLead'
    <3> SUFFICES ASSUME NEW n \in Names
                 PROVE  LET giving == {i \in Primary' : doc.items[i].H.name = n} IN
                        giving # {} => \E i \in giving :
                          /\ \A j \in giving : j <= i
                          /\ index'["H2N"][n] = Escape(doc.items[i].N)
                          /\ index'["H2G"][n] = Escape(doc.items[i].G)
      BY <2>1 DEF HostNamesLead
    <3>1. CASE gives /\ item.H.name = n
      <4>1. index'["H2N"][n] = Escape(item.N) /\ index'["H2G"][n] = Escape(item.G)
        BY <1>1, <3>1, FiledByDelegates
      <4>2. at + 1 \in {i \in Primary' : doc.items[i].H.name = n}
        BY <2>2, <3>1
      <4>3. \A j \in Primary' : j <= at + 1
        BY <2>1, <2>2, <3>1
      <4> QED
        BY <4>1, <4>2, <4>3
    <3>2. CASE ~ (gives /\ item.H.name = n)
      <4>1. index'["H2N"][n] = index["H2N"][n] /\ index'["H2G"][n] = index["H2G"][n]
        BY <1>1, <3>2, FiledByDelegates
      <4>2. {i \in Primary' : doc.items[i].H.name = n} = {i \in Primary : doc.items[i].H.name = n}
        BY <2>2, <3>2
      <4> QED
        BY <4>1, <4>2 DEF HostNamesLead
    <3> QED
      BY <3>1, <3>2
  <2> QED
    BY <2>3, <2>4
<1>2. CASE Finish \/ AbortLoad \/ UNCHANGED vars
  BY <1>2, Stays DEF GuestNamesLead, HostNamesLead, Primary, Read
<1> QED
  BY <1>1, <1>2 DEF Next, Done

LEMMA InFileStep == TypeOK /\ at <= Len(doc.items) /\ [Next]_vars => (at <= Len(doc.items))'
<1> SUFFICES ASSUME TypeOK, at <= Len(doc.items), [Next]_vars PROVE (at <= Len(doc.items))'
  OBVIOUS
<1>1. doc.items \in Seq(Items) /\ at \in Nat /\ Len(doc.items) \in Nat
  BY DEF TypeOK, DocType
<1>2. CASE ReadItem
  BY <1>1, <1>2 DEF ReadItem
<1>3. CASE Finish \/ AbortLoad \/ UNCHANGED vars
  BY <1>3, Stays
<1> QED
  BY <1>2, <1>3 DEF Next, Done

LEMMA ReadType ==
  ASSUME TypeOK, at <= Len(doc.items), NEW k \in Read
  PROVE  doc.items[k] \in Items /\ k \in Nat
<1>1. doc.items \in Seq(Items) /\ at \in Nat
  BY DEF TypeOK, DocType
<1>2. k \in 1 .. Len(doc.items)
  BY <1>1 DEF Read
<1> QED
  BY <1>1, <1>2

LEMMA LeadsGiveRoutes ==
  TypeOK /\ at <= Len(doc.items) /\ GuestNamesLead /\ HostNamesLead => RoutesAgree
<1> SUFFICES ASSUME TypeOK, at <= Len(doc.items), GuestNamesLead, HostNamesLead,
                    NEW i \in Primary, i \in Owner("G", doc.items[i].G.name)
             PROVE  LET g == doc.items[i].G  h == SearchLibrary(g, "G2H") IN
                      /\ h = Escape(doc.items[i].H)
                      /\ SearchLibrary(g, "G2N") = Escape(doc.items[i].N)
                      /\ \E j \in Owner("H", h.name) :
                           /\ SearchLibrary(h, "H2N") = Escape(doc.items[j].N)
                           /\ SearchLibrary(h, "H2G") = Escape(doc.items[j].G)
  BY DEF RoutesAgree
<1> DEFINE g == doc.items[i].G
           h == Escape(doc.items[i].H)
           giving(n) == {j \in Primary : doc.items[j].H.name = n}
<1>1. /\ doc.items[i] \in Items /\ i \in Nat
      /\ \A j \in Primary : j \in Nat
  BY ReadType DEF Primary
<1>2. g \in Paths /\ g.name \in Names /\ h.name = doc.items[i].H.name /\ h.name \in Names
  BY <1>1 DEF Items, Paths, Escape
<1>3. {"G2H", "G2N", "H2N", "H2G"} \subseteq Modes
  BY DEF Modes
<1>4. index["G2H"][g.name] = h /\ index["G2N"][g.name] = Escape(doc.items[i].N)
  <2> DEFINE same == {j \in Primary : doc.items[j].G.name = g.name}
  <2>1. i \in same /\ \A j \in same : j <= i
    BY DEF Owner
  <2>2. PICK k \in same : /\ \A j \in same : j <= k
                          /\ index["G2H"][g.name] = Escape(doc.items[k].H)
                          /\ index["G2N"][g.name] = Escape(doc.items[k].N)
    BY <1>2, <2>1 DEF GuestNamesLead
  <2>3. k = i
    BY <1>1, <2>1, <2>2
  <2> QED
    BY <2>2, <2>3
<1>5. PICK j \in giving(h.name) : /\ \A k \in giving(h.name) : k <= j
                                  /\ index["H2N"][h.name] = Escape(doc.items[j].N)
                                  /\ index["H2G"][h.name] = Escape(doc.items[j].G)
  <2>1. i \in giving(h.name)
    BY <1>2
  <2> QED
    BY <1>2, <2>1 DEF HostNamesLead
<1>6. j \in Owner("H", h.name)
  BY <1>5 DEF Owner
<1> QED
  BY <1>3, <1>4, <1>5, <1>6 DEF SearchLibrary

DelegatesInv == GuestNamesLead /\ HostNamesLead /\ at <= Len(doc.items)

LEMMA DelegatesStart == Init => DelegatesInv
BY DEF Init, DelegatesInv, GuestNamesLead, HostNamesLead, Primary, Read, DocType

\* From the guest file that has its name last, both ways lead on to that entry's
\* files; the way over the host delegate goes by the last entry of its name, and
\* parts from the direct one exactly where that is another library's.
THEOREM RoutesMeet == Spec => []RoutesAgree
<1>1. TypeOK /\ DelegatesInv /\ [Next]_vars => DelegatesInv'
  BY DelegatesStep, InFileStep DEF DelegatesInv
<1>2. TypeOK /\ DelegatesInv => RoutesAgree
  BY LeadsGiveRoutes DEF DelegatesInv
<1> QED
  BY <1>1, <1>2, Types, DelegatesStart, PTL DEF Spec

-----------------------------------------------------------------------------
(* Lookups of native code (NativeSymbols), after the file has been read.   *)

\* What the index has for a native library, and what of it gives the symbol.
GuestOf(module) == SearchLibrary(Links[module], "N2G")
Had(module)     == ({GuestOf(module)} \ {NoPath}) \cap Loadable \cap Exporting

\* The guest files of the mapping.
GuestFiles == {Escape(doc.items[i].G) : i \in Read}

Pcs == {"idle", "known", "module", "realpath", "null", "search", "open", "answered", "crashed"}
Lookups == [module : DOMAIN Links \cup {NoPath}, pc : Pcs, path : Paths \cup {NoPath},
            result : Paths \cup {NoPath}, alone : BOOLEAN]

\* A thread that asked is on its way with its library; who is alone between the
\* start of realpath and the search finds its own path in the buffer.
OnItsWay(t) ==
  LET l == lookups[t] IN
  /\ l.pc = "idle" => l = Idle
  /\ l.pc \in {"module", "realpath", "search", "open"} => l.module \in DOMAIN Links
  /\ l.pc # "answered" => l.result = NoPath
  /\ l.pc \in {"realpath", "search"} /\ l.alone =>
       \A u \in Threads \ {t} : lookups[u].pc # "realpath"
  /\ l.pc = "search" /\ l.alone => realPath = Links[l.module]

\* What it has found is a guest file of the mapping; if it was alone, the one the
\* index has for its own library.
Fits(t) ==
  LET l == lookups[t] IN
  /\ l.pc = "open" => /\ l.path \in GuestFiles
                      /\ l.alone => l.path = GuestOf(l.module)
  /\ l.pc = "answered" =>
       /\ l.module = NoPath => l.result = NoPath
       /\ l.module # NoPath /\ l.alone => {l.result} \ {NoPath} = Had(l.module)
       /\ l.result # NoPath => l.result \in loadedG \cap GuestFiles

SymInv ==
  /\ lookups \in [Threads -> Lookups]
  /\ realPath \in Texts
  /\ (\E t \in Threads : lookups[t].pc # "idle") => state = "ready"
  /\ \A t \in Threads : OnItsWay(t) /\ Fits(t)

USE LinksAssumption, NoPathAssumption

LEMMA MeantIsHad ==
  ASSUME TypeOK, at <= Len(doc.items), NativeNamesLead, NEW m \in DOMAIN Links
  PROVE  Meant(m) = Had(m)
<1> DEFINE n == Links[m].name
           named == {k \in Read : doc.items[k].N.name = n}
           last == {j \in named : \A k \in named : k <= j}
<1>1. n \in Names
  BY DEF Paths
<1>2. GuestOf(m) = index["N2G"][n]
  BY DEF GuestOf, SearchLibrary, Modes
<1>3. CASE named = {}
  <2>1. GuestOf(m) = NoPath
    BY <1>1, <1>2, <1>3 DEF NativeNamesLead
  <2> QED
    BY <1>3, <2>1 DEF Meant, Had
<1>4. CASE named # {}
  <2>1. PICK k \in named : (\A j \in named : j <= k) /\ index["N2G"][n] = Escape(doc.items[k].G)
    BY <1>1, <1>4 DEF NativeNamesLead
  <2>2. k \in 1 .. Len(doc.items) /\ \A j \in named : j \in Nat
    BY <2>1 DEF TypeOK, DocType, Read
  <2>3. Escape(doc.items[k].G) # NoPath
    <3>1. doc.items \in Seq(Items)
      BY DEF TypeOK, DocType
    <3>2. doc.items[k] \in Items
      BY <2>2, <3>1
    <3>3. doc.items[k].G \in Paths
      BY <3>2 DEF Items
    <3> QED
      BY <3>3, EscapeType
  <2>4. last = {k}
    <3> HIDE DEF named
    <3>1. \A j \in last : j \in named /\ k <= j /\ j <= k
      BY <2>1
    <3>2. k \in last
      BY <2>1
    <3>3. \A j \in last : j = k
      BY <2>1, <2>2, <3>1
    <3> HIDE DEF last
    <3> QED
      BY <3>2, <3>3
  <2>5. {Escape(doc.items[j].G) : j \in last} = {GuestOf(m)}
    BY <1>2, <2>1, <2>4
  <2> QED
    BY <1>2, <2>1, <2>3, <2>5 DEF Meant, Had
<1> QED
  BY <1>3, <1>4

\* A step of t that does not start a realpath leaves the other lookups right.
LEMMA OthersKeep ==
  ASSUME SymInv, UNCHANGED vars, NEW t \in Threads, NEW u \in Threads \ {t},
         \A w \in Threads \ {t} : lookups'[w] = lookups[w],
         loadedG \subseteq loadedG',
         lookups'[t].pc = "realpath" => lookups[t].pc = "realpath",
         realPath' = realPath \/ lookups[t].pc = "realpath"
  PROVE  OnItsWay(u)' /\ Fits(u)'
<1>1. OnItsWay(u) /\ Fits(u) /\ lookups'[u] = lookups[u]
  BY DEF SymInv
<1>2. OnItsWay(u)'
  BY <1>1 DEF OnItsWay
<1>3. Fits(u)'
  BY <1>1 DEF Fits, GuestFiles, Read, GuestOf, Had, SearchLibrary, vars
<1> QED
  BY <1>2, <1>3

\* What is left to show of such a step.
LEMMA StepOfOne ==
  ASSUME SymInv, UNCHANGED vars, state = "ready", NEW t \in Threads,
         lookups' \in [Threads -> Lookups],
         \A u \in Threads \ {t} : lookups'[u] = lookups[u],
         loadedG \subseteq loadedG',
         lookups'[t].pc = "realpath" => lookups[t].pc = "realpath",
         realPath' \in Texts, realPath' = realPath \/ lookups[t].pc = "realpath",
         OnItsWay(t)', Fits(t)'
  PROVE  SymInv'
<1>1. ASSUME NEW u \in Threads \ {t} PROVE OnItsWay(u)' /\ Fits(u)'
  BY OthersKeep
<1>2. state' = "ready"
  BY DEF vars
<1> QED
  BY <1>1, <1>2 DEF SymInv, Texts

\* Lookups that begin, with a library or without.
LEMMA BeginStep ==
  ASSUME SymInv, UNCHANGED vars, state = "ready", NEW t \in Threads,
         \/ Known(t) \/ BeginNowhere(t)
         \/ \E module \in DOMAIN Links : Begin(t, module)
  PROVE  SymInv'
<1>1. lookups \in [Threads -> Lookups] /\ lookups[t] = Idle
  BY DEF SymInv, OnItsWay, Known, BeginNowhere, Begin, At
<1>2. UNCHANGED <<loadedG, realPath>> /\ realPath \in Texts
  BY DEF SymInv, Known, BeginNowhere, Begin
<1>3. CASE Known(t) \/ BeginNowhere(t)
  <2>1. PICK pc \in {"known", "answered"} : lookups' = [lookups EXCEPT ![t] = [Idle EXCEPT !.pc = pc]]
    BY <1>1, <1>3 DEF Known, BeginNowhere
  <2>2. lookups'[t] = [module |-> NoPath, pc |-> pc, path |-> NoPath, result |-> NoPath, alone |-> TRUE]
    BY <1>1, <2>1 DEF Idle
  <2>3. lookups'[t] \in Lookups
    BY <2>2 DEF Lookups, Pcs
  <2>4. lookups' \in [Threads -> Lookups] /\ \A u \in Threads \ {t} : lookups'[u] = lookups[u]
    BY <1>1, <2>1, <2>3
  <2>5. OnItsWay(t)' /\ Fits(t)'
    BY <2>2 DEF OnItsWay, Fits
  <2> QED
    BY <1>2, <2>2, <2>4, <2>5, StepOfOne
<1>4. CASE \E module \in DOMAIN Links : Begin(t, module)
  <2>1. PICK m \in DOMAIN Links : Begin(t, m)
    BY <1>4
  <2>2. lookups'[t] = [module |-> m, pc |-> "module", path |-> NoPath, result |-> NoPath, alone |-> TRUE]
    BY <1>1, <2>1 DEF Begin, Idle
  <2>3. lookups'[t] \in Lookups
    BY <2>2 DEF Lookups, Pcs
  <2>4. lookups' \in [Threads -> Lookups] /\ \A u \in Threads \ {t} : lookups'[u] = lookups[u]
    BY <1>1, <2>1, <2>3 DEF Begin
  <2>5. OnItsWay(t)' /\ Fits(t)'
    BY <2>2 DEF OnItsWay, Fits
  <2> QED
    BY <1>2, <2>2, <2>4, <2>5, StepOfOne
<1> QED
  BY <1>3, <1>4

\* realpath begins to write: nobody who is in the buffer is alone any more.
LEMMA RealPathStartStep ==
  ASSUME SymInv, UNCHANGED vars, state = "ready", NEW t \in Threads, RealPathStart(t)
  PROVE  SymInv'
<1> DEFINE shared == {u \in Threads \ {t} : lookups[u].pc \in {"realpath", "search"}}
<1>1. lookups \in [Threads -> Lookups] /\ lookups[t].pc = "module"
  BY DEF SymInv, RealPathStart, At
<1>2. PICK b \in BOOLEAN : b <=> At({"realpath"}) = {}
  OBVIOUS
<1>3. lookups' = [u \in Threads |->
        CASE u = t -> [lookups[t] EXCEPT !.pc = "realpath", !.alone = b]
          [] u # t /\ u \in At({"realpath", "search"}) -> [lookups[u] EXCEPT !.alone = FALSE]
          [] OTHER -> lookups[u]]
  BY <1>2 DEF RealPathStart
<1>4. /\ lookups'[t] = [lookups[t] EXCEPT !.pc = "realpath", !.alone = b]
      /\ \A u \in shared : lookups'[u] = [lookups[u] EXCEPT !.alone = FALSE]
      /\ \A u \in Threads \ ({t} \cup shared) : lookups'[u] = lookups[u]
  BY <1>3 DEF At
<1>5. /\ lookups'[t] \in Lookups /\ lookups'[t].pc = "realpath" /\ lookups'[t].alone = b
      /\ lookups'[t].module = lookups[t].module /\ lookups'[t].result = lookups[t].result
  <2>1. lookups[t] \in Lookups
    BY <1>1
  <2> QED
    BY <1>4, <2>1 DEF Lookups, Pcs
<1>6. ASSUME NEW u \in shared
      PROVE  /\ lookups'[u] \in Lookups /\ lookups'[u].pc = lookups[u].pc /\ lookups'[u].alone = FALSE
             /\ lookups'[u].module = lookups[u].module /\ lookups'[u].result = lookups[u].result
  <2>1. PICK l \in Lookups : l = lookups[u]
    BY <1>1
  <2>2. lookups'[u] = [l EXCEPT !.alone = FALSE]
    BY <1>4, <2>1
  <2> HIDE DEF shared
  <2> QED
    BY <2>1, <2>2 DEF Lookups
<1>7. lookups' \in [Threads -> Lookups]
  <2>1. \A u \in Threads : lookups'[u] \in Lookups
    <3> SUFFICES ASSUME NEW u \in Threads PROVE lookups'[u] \in Lookups
      OBVIOUS
    <3>1. u = t \/ u \in shared \/ u \in Threads \ ({t} \cup shared)
      OBVIOUS
    <3> HIDE DEF shared
    <3> QED
      BY <1>1, <1>4, <1>5, <1>6, <3>1
  <2>2. lookups' = [u \in Threads |-> lookups'[u]]
    <3> DEFINE new(u) == CASE u = t -> [lookups[t] EXCEPT !.pc = "realpath", !.alone = b]
                           [] u # t /\ u \in At({"realpath", "search"}) -> [lookups[u] EXCEPT !.alone = FALSE]
                           [] OTHER -> lookups[u]
    <3>1. lookups' = [u \in Threads |-> new(u)]
      BY <1>3
    <3> HIDE DEF new
    <3> QED
      BY <3>1
  <2> QED
    BY <2>1, <2>2
<1>8. UNCHANGED <<loadedG, realPath>> /\ state' = "ready"
  BY DEF RealPathStart, vars
<1>9. OnItsWay(t)'
  <2>1. b => \A u \in Threads \ {t} : lookups'[u].pc # "realpath"
    BY <1>1, <1>2, <1>4, <1>6 DEF At
  <2>2. lookups[t].module \in DOMAIN Links /\ lookups[t].result = NoPath
    BY <1>1 DEF SymInv, OnItsWay
  <2> QED
    BY <1>5, <2>1, <2>2 DEF OnItsWay
<1>10. ASSUME NEW u \in Threads \ {t} PROVE OnItsWay(u)'
  <2>1. OnItsWay(u)
    BY DEF SymInv
  <2>2. CASE u \in shared
    <3>1. lookups[u].module \in DOMAIN Links /\ lookups[u].result = NoPath
      BY <2>1, <2>2 DEF OnItsWay
    <3> QED
      BY <1>6, <2>2, <3>1 DEF OnItsWay
  <2>3. CASE u \notin shared
    BY <1>4, <2>1, <2>3 DEF OnItsWay
  <2> QED
    BY <2>2, <2>3
<1>11. ASSUME NEW u \in Threads PROVE Fits(u)'
  <2>1. CASE lookups'[u].pc \in {"open", "answered"}
    <3>1. lookups'[u] = lookups[u]
      BY <1>4, <1>5, <1>6, <2>1
    <3>2. Fits(u)
      BY DEF SymInv
    <3> QED
      BY <1>8, <3>1, <3>2 DEF Fits, GuestFiles, Read, GuestOf, Had, SearchLibrary, vars
  <2>2. CASE lookups'[u].pc \notin {"open", "answered"}
    BY <2>2 DEF Fits
  <2> QED
    BY <2>1, <2>2
<1>12. \A u \in Threads : OnItsWay(u)'
  BY <1>9, <1>10
<1> QED
  BY <1>7, <1>8, <1>11, <1>12 DEF SymInv, Texts

\* realpath returns: alone, with the path asked for.
LEMMA RealPathEndStep ==
  ASSUME SymInv, UNCHANGED vars, state = "ready", NEW t \in Threads, RealPathEnd(t)
  PROVE  SymInv'
<1>1. PICK l \in Lookups : l = lookups[t]
  BY DEF SymInv
<1>2. l.pc = "realpath" /\ l.module \in DOMAIN Links /\ l.result = NoPath
  BY <1>1 DEF RealPathEnd, At, SymInv, OnItsWay
<1>3. realPath' \in Texts /\ (l.alone => realPath' = Links[l.module])
  BY <1>1, <1>2 DEF RealPathEnd, Writes, Texts
<1>4. lookups' = [lookups EXCEPT ![t] = [l EXCEPT !.pc = "search"]] /\ loadedG' = loadedG
  BY <1>1 DEF RealPathEnd
<1>5. /\ lookups' \in [Threads -> Lookups] /\ \A u \in Threads \ {t} : lookups'[u] = lookups[u]
      /\ lookups'[t].pc = "search" /\ lookups'[t].module = l.module /\ lookups'[t].alone = l.alone
      /\ lookups'[t].result = NoPath
  BY <1>2, <1>4 DEF SymInv, Lookups, Pcs
<1>6. OnItsWay(t)'
  <2>1. l.alone => \A u \in Threads \ {t} : lookups'[u].pc # "realpath"
    BY <1>1, <1>2, <1>5 DEF SymInv, OnItsWay
  <2> QED
    BY <1>2, <1>3, <1>5, <2>1 DEF OnItsWay
<1>7. Fits(t)'
  BY <1>5 DEF Fits
<1> QED
  BY <1>1, <1>2, <1>3, <1>4, <1>5, <1>6, <1>7, StepOfOne

\* realpath fails, and the NULL is searched for.
LEMMA RealPathFailsStep ==
  ASSUME SymInv, UNCHANGED vars, state = "ready", NEW t \in Threads, RealPathFails(t) \/ SearchNull(t)
  PROVE  SymInv'
<1>1. PICK l \in Lookups : l = lookups[t]
  BY DEF SymInv
<1>2. PICK pc \in {"null", "crashed"} : lookups' = [lookups EXCEPT ![t] = [l EXCEPT !.pc = pc]]
  BY <1>1 DEF RealPathFails, SearchNull
<1>3. l.pc \in {"realpath", "null"} /\ l.result = NoPath
  BY <1>1 DEF RealPathFails, SearchNull, At, SymInv, OnItsWay
<1>4. realPath' \in Texts /\ (realPath' = realPath \/ l.pc = "realpath") /\ loadedG' = loadedG
  BY <1>1 DEF RealPathFails, SearchNull, At, SymInv
<1>5. /\ lookups' \in [Threads -> Lookups] /\ \A u \in Threads \ {t} : lookups'[u] = lookups[u]
      /\ lookups'[t].pc = pc /\ lookups'[t].result = NoPath
  BY <1>2, <1>3 DEF SymInv, Lookups, Pcs
<1>6. OnItsWay(t)' /\ Fits(t)'
  BY <1>5 DEF OnItsWay, Fits
<1> QED
  BY <1>1, <1>4, <1>5, <1>6, StepOfOne

\* A native name leads to a guest file of the mapping or nowhere.
LEMMA LeadsToGuestFiles ==
  ASSUME TypeOK, at <= Len(doc.items), NativeNamesLead, NEW p \in Paths
  PROVE  SearchLibrary(p, "N2G") \in (GuestFiles \cap Paths) \cup {NoPath}
<1>1. SearchLibrary(p, "N2G") = index["N2G"][p.name] /\ p.name \in Names
  BY DEF SearchLibrary, Modes, Paths
<1>2. CASE {i \in Read : doc.items[i].N.name = p.name} = {}
  BY <1>1, <1>2 DEF NativeNamesLead
<1>3. CASE {i \in Read : doc.items[i].N.name = p.name} # {}
  <2>1. PICK i \in Read : index["N2G"][p.name] = Escape(doc.items[i].G)
    BY <1>1, <1>3 DEF NativeNamesLead
  <2>2. doc.items[i].G \in Paths
    BY ReadType DEF Items
  <2> QED
    BY <1>1, <2>1, <2>2, EscapeType DEF GuestFiles
<1> QED
  BY <1>2, <1>3

\* The text is looked up: alone, it is that of the library asked about.
LEMMA SearchStep ==
  ASSUME SymInv, UNCHANGED vars, state = "ready", NEW t \in Threads, Search(t),
         TypeOK, at <= Len(doc.items), NativeNamesLead
  PROVE  SymInv'
<1>1. PICK l \in Lookups : l = lookups[t]
  BY DEF SymInv
<1>2. l.pc = "search" /\ l.module \in DOMAIN Links /\ l.module # NoPath /\ l.result = NoPath
  BY <1>1 DEF Search, At, SymInv, OnItsWay
<1>3. PICK p \in Texts :
        /\ At({"realpath"}) = {} => p = realPath
        /\ \E g : /\ g = IF p = NoPath THEN NoPath ELSE SearchLibrary(p, "N2G")
                  /\ lookups' = [lookups EXCEPT ![t].pc = IF g = NoPath THEN "answered" ELSE "open", ![t].path = g]
  BY DEF Search, SymInv
<1>4. PICK g : /\ g = IF p = NoPath THEN NoPath ELSE SearchLibrary(p, "N2G")
               /\ lookups' = [lookups EXCEPT ![t].pc = IF g = NoPath THEN "answered" ELSE "open", ![t].path = g]
  BY <1>3
<1>5. g \in (GuestFiles \cap Paths) \cup {NoPath}
  BY <1>4, LeadsToGuestFiles DEF Texts
<1>6. l.alone => g = GuestOf(l.module)
  <2> SUFFICES ASSUME l.alone PROVE g = GuestOf(l.module)
    OBVIOUS
  <2>1. At({"realpath"}) = {}
    BY <1>1, <1>2 DEF At, SymInv, OnItsWay
  <2>2. realPath = Links[l.module] /\ realPath # NoPath
    BY <1>1, <1>2 DEF SymInv, OnItsWay
  <2> QED
    BY <1>3, <1>4, <2>1, <2>2 DEF GuestOf
<1>7. PICK pc \in {"answered", "open"} : pc = IF g = NoPath THEN "answered" ELSE "open"
  OBVIOUS
<1>8. lookups' = [lookups EXCEPT ![t] = [l EXCEPT !.pc = pc, !.path = g]]
  BY <1>1, <1>4, <1>7 DEF SymInv
<1>9. UNCHANGED <<loadedG, realPath>> /\ realPath \in Texts
  BY DEF Search, SymInv
<1>10. /\ lookups' \in [Threads -> Lookups] /\ \A u \in Threads \ {t} : lookups'[u] = lookups[u]
       /\ lookups'[t].pc = pc /\ lookups'[t].path = g /\ lookups'[t].module = l.module
       /\ lookups'[t].alone = l.alone /\ lookups'[t].result = NoPath
  BY <1>2, <1>5, <1>8 DEF SymInv, Lookups, Pcs
<1>11. OnItsWay(t)'
  BY <1>2, <1>7, <1>10 DEF OnItsWay
<1>12. Fits(t)'
  <2>1. /\ GuestOf(l.module)' = GuestOf(l.module) /\ Had(l.module)' = Had(l.module)
        /\ GuestFiles' = GuestFiles
    BY DEF GuestOf, Had, SearchLibrary, GuestFiles, Read, vars
  <2>2. CASE g = NoPath
    <3>1. l.alone => Had(l.module) = {}
      BY <1>6, <2>2 DEF Had
    <3> QED
      BY <1>2, <1>7, <1>10, <2>2, <3>1 DEF Fits, Had, GuestOf, SearchLibrary, vars
  <2>3. CASE g # NoPath
    BY <1>2, <1>5, <1>6, <1>7, <1>10, <2>1, <2>3 DEF Fits, GuestOf, SearchLibrary, vars
  <2> QED
    BY <2>2, <2>3
<1> QED
  BY <1>1, <1>2, <1>7, <1>9, <1>10, <1>11, <1>12, StepOfOne

\* The library is opened, if it can be, and has the symbol or not.
LEMMA OpenStep ==
  ASSUME SymInv, UNCHANGED vars, state = "ready", NEW t \in Threads, Open(t)
  PROVE  SymInv'
<1>1. PICK l \in Lookups : l = lookups[t]
  BY DEF SymInv
<1>2. l.pc = "open" /\ l.module \in DOMAIN Links /\ l.module # NoPath
  BY <1>1 DEF Open, At, SymInv, OnItsWay
<1>3. l.path \in GuestFiles /\ (l.alone => l.path = GuestOf(l.module)) /\ l.path \in Paths \cup {NoPath}
  BY <1>1, <1>2 DEF SymInv, Fits, Lookups
<1>5. PICK r \in Paths \cup {NoPath} : r = IF l.path \in Loadable \cap Exporting THEN l.path ELSE NoPath
  BY <1>3
<1>6. lookups' = [lookups EXCEPT ![t] = [l EXCEPT !.pc = "answered", !.result = r]]
  BY <1>1, <1>5 DEF SymInv, Open
<1>7. loadedG' = loadedG \cup ({l.path} \cap Loadable) /\ realPath' = realPath /\ realPath \in Texts
  BY <1>1 DEF Open, SymInv
<1>8. /\ lookups' \in [Threads -> Lookups] /\ \A u \in Threads \ {t} : lookups'[u] = lookups[u]
      /\ lookups'[t].pc = "answered" /\ lookups'[t].module = l.module
      /\ lookups'[t].alone = l.alone /\ lookups'[t].result = r
  BY <1>5, <1>6 DEF SymInv, Lookups, Pcs
<1>9. OnItsWay(t)'
  BY <1>8 DEF OnItsWay
<1>10. Fits(t)'
  <2>1. Had(l.module)' = Had(l.module) /\ GuestFiles' = GuestFiles
    BY DEF GuestOf, Had, SearchLibrary, GuestFiles, Read, vars
  <2>2. l.alone => {r} \ {NoPath} = Had(l.module)
    BY <1>3, <1>5 DEF Had
  <2>3. r # NoPath => r \in loadedG' \cap GuestFiles
    BY <1>3, <1>5, <1>7
  <2> QED
    BY <1>2, <1>8, <2>1, <2>2, <2>3 DEF Fits, Had, GuestOf, SearchLibrary, vars
<1> QED
  BY <1>1, <1>2, <1>7, <1>8, <1>9, <1>10, StepOfOne

-----------------------------------------------------------------------------
(* Reading the file and looking up, together.                              *)

ReadInv == TypeOK /\ NativeNamesLead /\ DelegatesInv

LEMMA ReadInvAlways == ReadInv /\ [LookupNext]_<<vars, symVars>> => ReadInv'
<1> SUFFICES ASSUME ReadInv, [LookupNext]_<<vars, symVars>> PROVE ReadInv'
  OBVIOUS
<1>1. [Next]_vars
  BY DEF LookupNext, Lookup
<1> QED
  BY <1>1, TypeStep, LeadStep, DelegatesStep, InFileStep DEF ReadInv, DelegatesInv

LEMMA ReadInvInit == Init => ReadInv
<1> SUFFICES ASSUME Init PROVE ReadInv
  OBVIOUS
<1>1. Read = {} /\ Primary = {}
  BY DEF Init, Read, Primary
<1>2. \A n \in Names : index["N2G"][n] = NoPath /\ index["N2H"][n] = NoPath
  BY DEF Init, Modes
<1>3. NativeNamesLead
  BY <1>1, <1>2 DEF NativeNamesLead
<1> QED
  BY <1>3, TypeInit, DelegatesStart DEF ReadInv

LEMMA SymStart == SymInit => SymInv
<1> SUFFICES ASSUME SymInit PROVE SymInv
  OBVIOUS
<1>1. \A t \in Threads : lookups[t] = Idle
  BY DEF SymInit
<1>2. Idle \in Lookups /\ Idle.pc = "idle" /\ Idle.result = NoPath
  BY DEF Idle, Lookups, Pcs
<1>3. \A t \in Threads : OnItsWay(t) /\ Fits(t)
  BY <1>1, <1>2 DEF OnItsWay, Fits
<1> QED
  BY <1>1, <1>2, <1>3 DEF SymInit, SymInv, Texts

LEMMA SymStep == ReadInv /\ SymInv /\ [LookupNext]_<<vars, symVars>> => SymInv'
<1> SUFFICES ASSUME ReadInv, SymInv, [LookupNext]_<<vars, symVars>> PROVE SymInv'
  OBVIOUS
<1>1. CASE Lookup
  <2>1. state = "ready" /\ UNCHANGED vars /\ TypeOK /\ at <= Len(doc.items) /\ NativeNamesLead
    BY <1>1 DEF Lookup, ReadInv, DelegatesInv
  <2>2. PICK t \in Threads : \/ \E module \in DOMAIN Links : Begin(t, module)
                             \/ Known(t) \/ BeginNowhere(t)
                             \/ RealPathStart(t) \/ RealPathEnd(t) \/ RealPathFails(t)
                             \/ Search(t) \/ SearchNull(t) \/ Open(t)
    BY <1>1 DEF Lookup
  <2> QED
    BY <2>1, <2>2, BeginStep, RealPathStartStep, RealPathEndStep, RealPathFailsStep, SearchStep, OpenStep
<1>2. CASE [Next]_vars /\ UNCHANGED symVars
  <2>1. CASE UNCHANGED vars
    BY <1>2, <2>1 DEF vars, symVars, SymInv, Texts, OnItsWay, Fits, GuestFiles, Read, GuestOf, Had, SearchLibrary
  <2>2. CASE ~ UNCHANGED vars
    <3>1. state = "reading"
      BY <1>2, <2>2 DEF Next, ReadItem, Finish, AbortLoad, Done
    <3>2. \A t \in Threads : lookups'[t] = lookups[t] /\ lookups[t] = Idle
      BY <1>2, <3>1 DEF symVars, SymInv, OnItsWay
    <3>3. Idle.pc = "idle" /\ Idle.result = NoPath
      BY DEF Idle
    <3>4. ASSUME NEW t \in Threads PROVE OnItsWay(t)' /\ Fits(t)'
      BY <3>2, <3>3 DEF OnItsWay, Fits
    <3>5. lookups' = lookups /\ realPath' = realPath
      BY <1>2 DEF symVars
    <3> QED
      BY <3>2, <3>3, <3>4, <3>5 DEF SymInv, Texts
  <2> QED
    BY <2>1, <2>2
<1> QED
  BY <1>1, <1>2 DEF LookupNext

LEMMA SymAlways == LookupSpec => [](ReadInv /\ SymInv)
<1>1. LookupInit => ReadInv /\ SymInv
  BY ReadInvInit, SymStart DEF LookupInit
<1>2. ReadInv /\ SymInv /\ [LookupNext]_<<vars, symVars>> => (ReadInv /\ SymInv)'
  BY ReadInvAlways, SymStep
<1> QED
  BY <1>1, <1>2, PTL DEF LookupSpec

\* A native library that looks a guest symbol up, alone in the buffer of
\* x64nc_GetProcAddress_N2G, gets it from the guest library that stands for it;
\* beside others, from some guest library of the mapping, or not at all.
THEOREM SymbolsOfCallers == LookupSpec => []SymbolOfCaller
<1>1. ReadInv /\ SymInv => SymbolOfCaller
  <2> SUFFICES ASSUME ReadInv, SymInv, NEW t \in At({"answered"})
               PROVE  LET l == lookups[t] IN
                      /\ l.alone => {l.result} \ {NoPath} = IF l.module = NoPath THEN {} ELSE Meant(l.module)
                      /\ l.result # NoPath => /\ l.result \in loadedG
                                              /\ \E i \in Read : l.result = Escape(doc.items[i].G)
    BY DEF SymbolOfCaller
  <2>1. t \in Threads /\ lookups[t].pc = "answered" /\ Fits(t) /\ lookups[t] \in Lookups
    BY DEF At, SymInv
  <2>2. \A m \in DOMAIN Links : Meant(m) = Had(m)
    BY MeantIsHad DEF ReadInv, DelegatesInv
  <2>3. lookups[t].module = NoPath => lookups[t].result = NoPath
    BY <2>1 DEF Fits
  <2>4. lookups[t].module # NoPath /\ lookups[t].alone =>
          {lookups[t].result} \ {NoPath} = Meant(lookups[t].module)
    BY <2>1, <2>2 DEF Fits, Lookups
  <2>5. lookups[t].result # NoPath => lookups[t].result \in loadedG \cap GuestFiles
    BY <2>1 DEF Fits
  <2> QED
    BY <2>3, <2>4, <2>5 DEF GuestFiles
<1> QED
  BY <1>1, SymAlways, PTL

\* What the indexes promise holds on while native code looks symbols up.
THEOREM RoutesWhileLookingUp == LookupSpec => [](RoutesAgree /\ NativeNamesLead)
<1>1. ReadInv => RoutesAgree /\ NativeNamesLead
  BY LeadsGiveRoutes DEF ReadInv, DelegatesInv
<1> QED
  BY <1>1, SymAlways, PTL

=============================================================================
