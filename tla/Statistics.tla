----------------------------- MODULE Statistics -----------------------------
(***************************************************************************)
(* The runs of scripts/ncistat.py over the libraries that ncifilter.py     *)
(* lists, and of ncicol.py over the files they leave.  ncistat writes one  *)
(* file per library and does not redo a library whose file is there, so    *)
(* that a run may be broken off and started again.                         *)
(***************************************************************************)
EXTENDS FpRecords

CONSTANTS InfoDocs,    \* info files: sequences of libraries with their names
          MaxCrashes   \* bound: how often a run is broken off

ASSUME InfoDocsAssumption == InfoDocs \subseteq Seq([name : STRING, lib : Library])

VARIABLES
  info_doc,
  i,          \* the library that is next, or under way
  files,      \* the output directory: per name a file, whole or cut off
  phase,      \* "idle" between libraries, "scanning", "writing", "over"; then
              \* what became of ncicol, "tabled" or "failed"
  rows,       \* ncicol: the table
  crashes
vars == <<scanVars, info_doc, i, files, phase, rows, crashes>>

Nothing == [layouts |-> << >>, decls |-> << >>]
Partial == [whole |-> FALSE, verdicts |-> << >>, va |-> << >>]

Fresh ==
  /\ i = 1 /\ files = << >> /\ phase = "idle" /\ rows = {} /\ crashes = 0
  /\ lib = Nothing /\ todo = << >> /\ stack = << >>
  /\ visited = {} /\ records_map = << >> /\ verdicts = << >>

Init == info_doc \in InfoDocs /\ Fresh

-----------------------------------------------------------------------------
\* Mutant: the loop does not go on to the next library.
PassStuck ==
  /\ phase = "idle" /\ i <= Len(info_doc)
  /\ info_doc[i].name \in DOMAIN files
  /\ UNCHANGED vars

\* "Exists": the library is passed over.
Pass ==
  /\ phase = "idle" /\ i <= Len(info_doc)
  /\ info_doc[i].name \in DOMAIN files
  /\ i' = i + 1
  /\ UNCHANGED <<scanVars, info_doc, files, phase, rows, crashes>>

\* Mutant: records_map is that of the run, not of the library.
BeginKeepingMap ==
  /\ phase = "idle" /\ i <= Len(info_doc)
  /\ info_doc[i].name \notin DOMAIN files
  /\ lib' = info_doc[i].lib /\ todo' = info_doc[i].lib.decls
  /\ stack' = << >> /\ visited' = {} /\ verdicts' = << >>
  /\ phase' = "scanning"
  /\ UNCHANGED <<records_map, info_doc, i, files, rows, crashes>>

Begin ==
  /\ phase = "idle" /\ i <= Len(info_doc)
  /\ info_doc[i].name \notin DOMAIN files
  /\ Start(info_doc[i].lib)
  /\ phase' = "scanning"
  /\ UNCHANGED <<info_doc, i, files, rows, crashes>>

Scan ==
  /\ phase = "scanning"
  /\ Step
  /\ UNCHANGED <<info_doc, i, files, phase, rows, crashes>>

\* The output is opened: from now on the file is there, with nothing in it.
Open ==
  /\ phase = "scanning" /\ Scanned
  /\ files' = [name \in DOMAIN files \cup {info_doc[i].name} |->
                 IF name \in DOMAIN files THEN files[name] ELSE Partial]
  /\ phase' = "writing"
  /\ UNCHANGED <<scanVars, info_doc, i, rows, crashes>>

Names(decls) == {decls[n].name : n \in DOMAIN decls}
FirstOf(decls, name) ==
  decls[CHOOSE n \in DOMAIN decls : decls[n].name = name /\ \A m \in 1 .. n - 1 : decls[m].name # name]

Write ==
  /\ phase = "writing"
  /\ files' = [files EXCEPT ![info_doc[i].name] =
                 [whole |-> TRUE, verdicts |-> verdicts,
                  va |-> [name \in Names(verdicts) |-> IsVa(FirstOf(lib.decls, name))]]]
  /\ phase' = "idle"
  /\ i' = i + 1
  /\ UNCHANGED <<scanVars, info_doc, rows, crashes>>

\* The process is killed, or an exception ends it, and it is started again.
Crash ==
  /\ phase \in {"idle", "scanning", "writing"} /\ crashes < MaxCrashes
  /\ crashes' = crashes + 1
  /\ phase' = "idle" /\ i' = 1
  /\ Start(Nothing)
  /\ UNCHANGED <<info_doc, files, rows>>

\* Mutant: the last library is left out.
ExitEarly ==
  /\ phase = "idle" /\ i >= Len(info_doc)
  /\ phase' = "over"
  /\ UNCHANGED <<scanVars, info_doc, i, files, rows, crashes>>

Exit ==
  /\ phase = "idle" /\ i > Len(info_doc)
  /\ phase' = "over"
  /\ UNCHANGED <<scanVars, info_doc, i, files, rows, crashes>>

\* A row of the table: how many functions the file counts, and how many are in
\* each of its lists, over all headers.
RowOf(name) ==
  LET file == files[name]
      Handing(kind) == Cardinality({n \in DOMAIN file.verdicts : file.verdicts[n].answer = kind})
      Varying(kind) == Cardinality({f \in DOMAIN file.va : file.va[f] = kind})
  IN [name |-> name, function_cnt |-> Len(file.verdicts),
      simple_va |-> Varying("simple"), complex_va |-> Varying("complex"),
      simple_fp |-> Handing("simple"), complex_fp |-> Handing("complex")]

\* ncicol reads each file; a cut-off one is no JSON and ends it, no table made.
Table ==
  /\ phase = "over"
  /\ IF \A name \in DOMAIN files : files[name].whole
       THEN phase' = "tabled" /\ rows' = {RowOf(name) : name \in DOMAIN files}
       ELSE phase' = "failed" /\ UNCHANGED rows
  /\ UNCHANGED <<scanVars, info_doc, i, files, crashes>>

Done == phase \in {"tabled", "failed"} /\ UNCHANGED vars

Work == Pass \/ Begin \/ Scan \/ Open \/ Write \/ Exit \/ Table
Next == Work \/ Crash \/ Done

Spec == Init /\ [][Next]_vars /\ WF_vars(Work)

-----------------------------------------------------------------------------
(* Properties.                                                             *)
TypeOK ==
  /\ i \in 1 .. Len(info_doc) + 1
  /\ phase \in {"idle", "scanning", "writing", "over", "tabled", "failed"}
  /\ visited \subseteq Records
  /\ records_map \in [DOMAIN records_map -> Answers] /\ DOMAIN records_map \subseteq Records
  /\ \A n \in DOMAIN stack : stack[n].sofar \in Answers
  /\ \A n \in 2 .. Len(stack) : stack[n].of \in visited \ DOMAIN records_map

\* No false alarm: what is said to have function pointers has some, whatever
\* searches, cut short by cycles or answered from records_map, said so.
Justified(l, types) == \E n \in DOMAIN types : Bad(l, types[n])
NoFalseAlarm ==
  /\ \A r \in DOMAIN records_map : Found(records_map[r]) => LeadsToFunction(lib, r)
  /\ \A n \in DOMAIN stack : Found(stack[n].sofar) => Justified(lib, FieldsOf(stack[n]))
  /\ \A n \in DOMAIN verdicts : Found(verdicts[n].answer) => Justified(lib, verdicts[n].types)

\* The first search of a library misses nothing, in spite of cycles and of
\* records met twice: a pointer below any record is reported all the way up.
FirstSearchComplete ==
  Len(lib.layouts) = 1 /\ verdicts # << >> =>
    LET types == verdicts[1].types IN
      Cardinality({n \in DOMAIN types : types[n].to \in Records}) = 1
        => (Justified(lib, types) => Found(verdicts[1].answer))

\* Where every record is used in one place and all headers see the same
\* fields, the verdicts are right, and as simple or complex as they should be.
ExactOnForests ==
  lib # Nothing /\ Forest(lib) => \A n \in DOMAIN verdicts : verdicts[n].answer = Truth(lib, verdicts[n].types)

\* An answer that functions were judged by is not revised in the same library.
AnswersStand ==
  [][phase = "scanning" /\ phase' = "scanning" =>
       \A r \in DOMAIN records_map : r \in DOMAIN records_map' /\ records_map'[r] = records_map[r]]_vars

\* At the end there is a file for each name, with a verdict on every function
\* of the first library of that name; none is cut off unless a run was.
ResultsFiled ==
  phase = "over" => \A n \in DOMAIN info_doc :
    /\ info_doc[n].name \in DOMAIN files
    /\ crashes = 0 => files[info_doc[n].name].whole
    /\ LET file  == files[info_doc[n].name]
           first == CHOOSE m \in DOMAIN info_doc : /\ info_doc[m].name = info_doc[n].name
                      /\ \A k \in 1 .. m - 1 : info_doc[k].name # info_doc[m].name
       IN file.whole => /\ Names(file.verdicts) = Names(info_doc[first].lib.decls)
                        /\ Len(file.verdicts) = Cardinality(Names(file.verdicts))

\* The runs come to an end, on types that contain pointers to themselves too,
\* and without a crash there is a table.
RunsEnd == <>(phase = "tabled" \/ (phase = "failed" /\ crashes > 0))
=============================================================================
