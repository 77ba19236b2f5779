---------------------------- MODULE PackageFilter ----------------------------
(***************************************************************************)
(* scripts/ncifilter.py, before the statistics: of a list of Debian        *)
(* packages it finds those that are C libraries, asking dpkg for their     *)
(* files, pkg-config for the compiler's flags and gcc which headers        *)
(* compile, and leaves the list that ncistat.py goes through.              *)
(***************************************************************************)
EXTENDS Statistics

CONSTANT PackageLists   \* sets of packages, as a packages file may have them

\* A file as dpkg lists it: the real path behind it, the suffix its name ends
\* with and whether there is another dot in the name.  A .pc file, if
\* pkg-config accepts it, has flags to give; a header compiles with the flags
\* it needs, declares functions under the layouts it sees, and libclang loads
\* it or not.
File ==
  [path : STRING, exists : BOOLEAN, suffix : {"pc", "h", "so", ""}, dotted : BOOLEAN,
   flags : SUBSET STRING, works : BOOLEAN, layout : [Records -> Seq(Field)],
   decls : Seq([name : STRING, types : Seq(Field),
                args : Seq({"text", "va_list", "other"}), variadic : BOOLEAN])]

\* A package: the name up to the first "-dev" if it has one, whether dpkg knows
\* it, and its files in dpkg's order.
Package == [package : STRING, dev : BOOLEAN, stem : STRING, known : BOOLEAN, files : Seq(File)]

ASSUME PackagesAssumption == PackageLists \subseteq SUBSET Package

VARIABLES
  packages,     \* the packages file
  left,         \* packages_set, as far as it is still to be gone through
  doc,          \* the list so far
  listed        \* the output is written; until then nothing of it is on disk
filterVars == <<packages, left, doc, listed>>
allVars    == <<vars, filterVars>>

FilterInit ==
  /\ packages \in PackageLists
  /\ left = packages /\ doc = << >> /\ listed = FALSE
  /\ info_doc = << >> /\ Fresh

-----------------------------------------------------------------------------
\* ext: all suffixes of a name together.  A second dot in it makes a header or
\* a .pc file one of neither kind, but not a library.
Ext(file) == IF file.dotted /\ file.suffix # "so" THEN "other" ELSE file.suffix

\* The places of a package's files of a kind, and those at places.
OfExt(p, ext) == {n \in DOMAIN p.files : p.files[n].exists /\ Ext(p.files[n]) = ext}
Picked(s, places) == FlattenSeq([n \in DOMAIN s |-> IF n \in places THEN <<s[n]>> ELSE << >>])

FlagsOf(p, places) == UNION {p.files[n].flags : n \in {n \in places : p.files[n].works}}

\* Each real path once, where it is first listed.
Distinct(p, places) == {n \in places : \A m \in places : m < n => p.files[m] # p.files[n]}

\* Mutant: headers are checked as they are met, with the flags so far.
ValidHeadersSoFar(p) ==
  Picked(p.files, {n \in Distinct(p, OfExt(p, "h")) :
                     p.files[n].flags \subseteq FlagsOf(p, {m \in OfExt(p, "pc") : m < n})})

\* Headers are compiled with the flags of all .pc files of the package.
ValidHeaders(p) ==
  Picked(p.files, {n \in Distinct(p, OfExt(p, "h")) :
                     p.files[n].flags \subseteq FlagsOf(p, OfExt(p, "pc"))})

\* What ncistat finds in the headers: the functions that each declares itself.
\* A header that cannot be loaded is passed over.
Loaded(headers) == Picked(headers, {n \in DOMAIN headers : headers[n].works})
Contents(loaded) ==
  LET DeclsOf(n) == [d \in DOMAIN loaded[n].decls |->
                       [name  |-> loaded[n].decls[d].name,  header   |-> n,
                        types |-> loaded[n].decls[d].types, args     |-> loaded[n].decls[d].args,
                        variadic |-> loaded[n].decls[d].variadic]]
  IN [layouts |-> [n \in DOMAIN loaded |-> loaded[n].layout],
      decls   |-> FlattenSeq([n \in DOMAIN loaded |-> DeclsOf(n)])]

\* process_package, for the packages in the order a Python set has them.
ProcessPackage ==
  /\ ~ listed
  /\ \E p \in left : \E headers \in {ValidHeaders(p)} :
       /\ left' = left \ {p}
       /\ doc' = IF p.dev /\ p.known /\ headers # << >>
                 THEN Append(doc, [name |-> p.stem, lib |-> Contents(Loaded(headers))])
                 ELSE doc
  /\ UNCHANGED <<vars, packages, listed>>

\* The list is written at the end, in one go, and ncistat is started on it.
WriteList ==
  /\ ~ listed /\ left = {}
  /\ listed' = TRUE
  /\ info_doc' = doc
  /\ UNCHANGED <<scanVars, i, files, phase, rows, crashes, packages, left, doc>>

StatisticWork == listed /\ Work /\ UNCHANGED filterVars

PipelineWork == ProcessPackage \/ WriteList \/ StatisticWork
PipelineNext ==
  \/ PipelineWork
  \/ listed /\ (Crash \/ Done) /\ UNCHANGED filterVars

PipelineSpec == FilterInit /\ [][PipelineNext]_allVars /\ WF_allVars(PipelineWork)

-----------------------------------------------------------------------------
(* Properties.                                                             *)
\* The headers of a package that ought to be counted, said without an order:
\* there, called *.h with no further dot, compiling with what all of the
\* package's accepted *.pc files give.
Counted(p) ==
  LET there == {f \in Range(p.files) : f.exists /\ ~ f.dotted}
      given == UNION {f.flags : f \in {f \in there : f.suffix = "pc" /\ f.works}}
  IN {f \in there : f.suffix = "h" /\ f.flags \subseteq given}
Usable(p) == p.dev /\ p.known /\ Counted(p) # {}

Declared(p, Cond(_)) ==
  UNION {{h.decls[n].name : n \in {n \in DOMAIN h.decls : Cond(h.decls[n])}} :
           h \in {h \in Counted(p) : h.works}}
Varies(d) == d.variadic \/ \E n \in DOMAIN d.args : d.args[n] = "va_list"

\* The table has a row for every package with headers that compile, whatever
\* the order in which dpkg lists the files and the packages come up; a row's
\* figures are those of one package of that name: each function of its headers
\* once, and among the variadic ones every function that is so in all headers
\* and none that is in no header.
TableOfPackages ==
  phase = "tabled" =>
    /\ {row.name : row \in rows} = {p.stem : p \in {q \in packages : Usable(q)}}
    /\ \A row \in rows : \E p \in packages :
         LET all     == Declared(p, LAMBDA d : TRUE)
             varying == Declared(p, Varies)
             steady  == Declared(p, LAMBDA d : ~ Varies(d))
             count   == row.simple_va + row.complex_va
         IN /\ Usable(p) /\ p.stem = row.name
            /\ row.function_cnt = Cardinality(all)
            /\ count <= Cardinality(varying)
            /\ count >= Cardinality(varying \ steady)
=============================================================================
