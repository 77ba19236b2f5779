---------------------------- MODULE LibraryIndex ----------------------------
(***************************************************************************)
(* The six path indexes of the host runtime (X64NC_HostRuntimeData in      *)
(* src/hostrt/hostapi.cpp), filled from the mapping file when the runtime  *)
(* is loaded and searched by x64nc_SearchLibraryH afterwards.              *)
(*                                                                         *)
(* A path is a directory and a file name; the indexes are keyed by the     *)
(* name alone.  "@" in a path stands for X64NC_HOME.                       *)
(***************************************************************************)
EXTENDS Naturals, Sequences

CONSTANTS Names,     \* file names
          Dirs,      \* directories, "@" and Home among them
          Home,      \* what X64NC_HOME holds
          Docs,      \* mapping files, see DocType
          NoPath     \* nullptr

Paths == [dir : Dirs, name : Names]
\* An entry: its key ends in '^' or not, and the three paths are strings or not.
Items == [alias : BOOLEAN, valid : BOOLEAN, G : Paths, H : Paths, N : Paths]
DocType == [kind : {"missing", "unparsable", "scalar", "object", "array"}, items : Seq(Items)]

ASSUME HomeAssumption == "@" \in Dirs /\ Home \in Dirs \ {"@"}
ASSUME DocsAssumption == Docs \subseteq DocType
ASSUME NoPathAssumption == NoPath \notin Paths

Modes == {"G2H", "G2N", "H2G", "H2N", "N2G", "N2H"}

VARIABLES doc, state, at, index
vars == <<doc, state, at, index>>

TypeOK ==
  /\ doc   \in DocType
  /\ state \in {"reading", "ready", "aborted"}
  /\ at    \in Nat                       \* entries read so far
  /\ index \in [Modes -> [Names -> Paths \cup {NoPath}]]

Init ==
  /\ doc \in Docs
  /\ state = "reading"
  /\ at = 0
  /\ index = [m \in Modes |-> [n \in Names |-> NoPath]]

\* escape_mapping_path
Escape(p) == IF p.dir = "@" THEN [p EXCEPT !.dir = Home] ELSE p

\* Mutant: a key that ends in '^' is like any other.
AllModes(item) == Modes

\* An entry whose key ends in '^' is another native name of a library: it is
\* entered in the maps from native names only.
ModesOf(item) == IF item.alias THEN {"N2G", "N2H"} ELSE Modes

\* The path whose name an entry is filed under in map m, and the one filed.
Entry(item, m) == CASE m = "G2H" -> <<item.G, item.H>> [] m = "G2N" -> <<item.G, item.N>>
                    [] m = "H2G" -> <<item.H, item.G>> [] m = "H2N" -> <<item.H, item.N>>
                    [] m = "N2G" -> <<item.N, item.G>> [] OTHER -> <<item.N, item.H>>

\* Mutant: an entry filed under a name stays.
FirstWins(old, path) == IF old = NoPath THEN path ELSE old

\* operator[] and assignment: a later entry of the same name replaces it.
LastWins(old, path) == path

\* readMappingItem
ReadItem ==
  /\ state = "reading"
  /\ doc.kind \in {"object", "array"}
  /\ at < Len(doc.items)
  /\ LET item == doc.items[at + 1] IN
       index' = IF ~ item.valid THEN index ELSE
         [m \in Modes |-> IF m \notin ModesOf(item) THEN index[m] ELSE
            [index[m] EXCEPT ![Entry(item, m)[1].name] = LastWins(@, Escape(Entry(item, m)[2]))]]
  /\ at' = at + 1
  /\ UNCHANGED <<doc, state>>

Finish ==
  /\ state = "reading"
  /\ doc.kind \in {"object", "array"}
  /\ at = Len(doc.items)
  /\ state' = "ready"
  /\ UNCHANGED <<doc, at, index>>

\* No file, no JSON, or neither an object nor an array.
AbortLoad ==
  /\ state = "reading"
  /\ doc.kind \in {"missing", "unparsable", "scalar"}
  /\ state' = "aborted"
  /\ UNCHANGED <<doc, at, index>>

Done == state # "reading" /\ UNCHANGED vars

Next == ReadItem \/ Finish \/ AbortLoad \/ Done

Spec == Init /\ [][Next]_vars

\* x64nc_SearchLibraryH, with a path or a bare name: only the name counts.
SearchLibrary(p, m) == IF m \in Modes THEN index[m][p.name] ELSE NoPath

-----------------------------------------------------------------------------
(* Properties.                                                             *)

Read     == {i \in 1 .. at : doc.items[i].valid}
Primary  == {i \in Read : ~ doc.items[i].alias}
\* The library that has a name on a side: of those that give it, the last.
Owner(side, n) ==
  LET giving == {i \in Primary : doc.items[i][side].name = n}
  IN  {i \in giving : \A j \in giving : j <= i}

\* The two ways from a guest delegate to its native library: directly by G2N, or
\* by G2H to the host delegate and from there by H2N.  They meet, and the way
\* back leads home, unless another library (j) has the host delegate's name by a
\* later entry; then all that is asked of that name is answered by j's entry.
\* Aliases change nothing about it.
RoutesAgree ==
  \A i \in Primary : i \in Owner("G", doc.items[i].G.name) =>
    LET g == doc.items[i].G  h == SearchLibrary(g, "G2H") IN
      /\ h = Escape(doc.items[i].H)
      /\ SearchLibrary(g, "G2N") = Escape(doc.items[i].N)
      /\ \E j \in Owner("H", h.name) :
           /\ SearchLibrary(h, "H2N") = Escape(doc.items[j].N)
           /\ SearchLibrary(h, "H2G") = Escape(doc.items[j].G)

\* Where a native name leads, in both maps, is one entry of the file: the last
\* that names it, alias or not; G and H of different entries never mix.
NativeNamesLead ==
  \A n \in Names :
    LET named == {i \in Read : doc.items[i].N.name = n} IN
    IF named = {} THEN index["N2G"][n] = NoPath /\ index["N2H"][n] = NoPath
    ELSE \E i \in named :
      /\ \A j \in named : j <= i
      /\ index["N2G"][n] = Escape(doc.items[i].G)
      /\ index["N2H"][n] = Escape(doc.items[i].H)

=============================================================================
