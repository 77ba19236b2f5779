------------------------------ MODULE FpRecords ------------------------------
(***************************************************************************)
(* How scripts/ncistat.py tells which functions of a library hand function *)
(* pointers over, and which of them in a way that is hard to wrap: the     *)
(* types of each function are searched with is_fp_record, which goes down  *)
(* into structs and unions, remembers its answers in records_map for the   *)
(* whole library, and does not enter a record twice in one search.         *)
(*                                                                         *)
(* The recursion is a stack of frames, one per call under way; the lowest  *)
(* is the call of is_fp_function.                                          *)
(***************************************************************************)
EXTENDS Naturals, Sequences, FiniteSets, SequencesExt, TLC

CONSTANTS Records,
          Unions      \* those of Records that are unions

ASSUME RecordsAssumption == Unions \subseteq Records /\ Records \cap {"function", "plain"} = {}

\* The pair that is_fp_record returns: (False, False), (True, False) and
\* (True, True).
Answers == {"none", "simple", "complex"}

\* A field, or a type in a function's head: what its type leads to through
\* pointers and arrays, and whether on a way that is always complex.  A single
\* pointer to a function is plain enough, and a record by value, in a
\* function's head also a single pointer to a record; longer ways are not.
Field == [to : Records \cup {"function", "plain"}, far : BOOLEAN]

\* The records as each header sees them (one that is only declared has no
\* fields), and the functions the headers declare, with the header they are in.
\* An argument is a text (a pointer to characters), a va_list or another.
Decl    == [name : STRING, header : Nat, types : Seq(Field),
            args : Seq({"text", "va_list", "other"}), variadic : BOOLEAN]
Library == {l \in [layouts : Seq([Records -> Seq(Field)]), decls : Seq(Decl)] :
              \A n \in DOMAIN l.decls : l.decls[n].header \in DOMAIN l.layouts}

VARIABLES
  lib,          \* the library that is scanned
  todo,         \* its declarations that are still to come
  stack,        \* calls of is_fp_function and is_fp_record under way
  visited,      \* visited_spellings
  records_map,
  verdicts      \* what is_fp_function said of each function name
scanVars == <<lib, todo, stack, visited, records_map, verdicts>>

\* The scan of a library starts with an empty records_map.
Start(l) ==
  /\ lib'         = l
  /\ todo'        = l.decls
  /\ stack'       = << >>
  /\ visited'     = {}
  /\ records_map' = << >>
  /\ verdicts'    = << >>

-----------------------------------------------------------------------------
Top == stack[Len(stack)]
InFunction == Len(stack) = 1
FieldsOf(frame) == IF frame.of = "function" THEN frame.types
                   ELSE lib.layouts[frame.header][frame.of]
Over(frame) == frame.sofar = "complex" \/ frame.next > Len(FieldsOf(frame))
Current == FieldsOf(Top)[Top.next]

\* Mutant: the last answer counts.
CombineLast(frame, answer) ==
  CASE answer = "none" -> "none"
    [] answer = "simple" /\ ~ FieldsOf(frame)[frame.next].far /\ frame.of \notin Unions -> "simple"
    [] OTHER -> "complex"

\* What a frame makes of the answer for its current field.
Combine(frame, answer) ==
  CASE answer = "none" -> frame.sofar
    [] answer = "simple" /\ ~ FieldsOf(frame)[frame.next].far /\ frame.of \notin Unions -> "simple"
    [] OTHER -> "complex"

Answered(frame, answer) ==
  [frame EXCEPT !.sofar = Combine(frame, answer), !.next = @ + 1]

\* visited_spellings is made anew for each type of a function's head.
VisitedNow == IF InFunction THEN {} ELSE visited

\* Mutant: a record that is under way, or was, counts as one with pointers.
PresumedGuilty(to) ==
  CASE to = "plain"                -> "none"
    [] to = "function"             -> "simple"
    [] to \in VisitedNow           -> "simple"
    [] to \in DOMAIN records_map \ VisitedNow -> records_map[to]

\* The answers there are without entering a record: visited comes first, so
\* that a record met again in a search has none, known or not.
Ready(to) ==
  CASE to = "plain"                -> "none"
    [] to = "function"             -> "simple"
    [] to \in VisitedNow           -> "none"
    [] to \in DOMAIN records_map \ VisitedNow -> records_map[to]

\* Mutant: records_map is written and not read.
NeedsCallAgain(to) == to \in Records /\ to \notin VisitedNow

NeedsCall(to) == to \in Records /\ to \notin VisitedNow /\ to \notin DOMAIN records_map

-----------------------------------------------------------------------------
Known(name) == \E n \in DOMAIN verdicts : verdicts[n].name = name

\* is_fp_function of a declaration; the first of a name speaks for all.
Take ==
  /\ stack = << >> /\ todo # << >>
  /\ stack' = IF Known(Head(todo).name) THEN << >>
              ELSE <<[of |-> "function", name |-> Head(todo).name, types |-> Head(todo).types,
                      header |-> Head(todo).header, next |-> 1, sofar |-> "none"]>>
  /\ todo'  = Tail(todo)
  /\ UNCHANGED <<lib, visited, records_map, verdicts>>

\* A field, or a type of the head, that needs no search.
Look ==
  /\ stack # << >> /\ ~ Over(Top)
  /\ ~ NeedsCall(Current.to)
  /\ stack'   = Append(Front(stack), Answered(Top, Ready(Current.to)))
  /\ visited' = VisitedNow \cup ({Current.to} \cap Records)
  /\ UNCHANGED <<lib, todo, records_map, verdicts>>

\* The recursive call.
Enter ==
  /\ stack # << >> /\ ~ Over(Top)
  /\ NeedsCall(Current.to)
  /\ stack'   = Append(stack, [of |-> Current.to, header |-> Top.header, next |-> 1, sofar |-> "none"])
  /\ visited' = VisitedNow \cup {Current.to}
  /\ UNCHANGED <<lib, todo, records_map, verdicts>>

Remembering(record, answer) ==
  [r \in DOMAIN records_map \cup {record} |-> IF r = record THEN answer ELSE records_map[r]]

\* A record is done, or its answer can get no worse: it is remembered, and
\* returned to the frame below.
Return ==
  /\ Len(stack) > 1 /\ Over(Top)
  /\ records_map' = Remembering(Top.of, Top.sofar)
  /\ stack' = Append(Front(Front(stack)), Answered(stack[Len(stack) - 1], Top.sofar))
  /\ UNCHANGED <<lib, todo, visited, verdicts>>

\* The function is put in its list, or in none.
Finish ==
  /\ stack # << >> /\ InFunction /\ Over(Top)
  /\ verdicts' = Append(verdicts, [name |-> Top.name, header |-> Top.header,
                                   types |-> Top.types, answer |-> Top.sofar])
  /\ stack' = << >>
  /\ UNCHANGED <<lib, todo, visited, records_map>>

Scanned == todo = << >> /\ stack = << >>

\* is_va_function: simple are those whose variable part follows a text, which
\* may be a format; of several va_lists the first counts.
IsVa(d) ==
  LET last   == Len(d.args)
      lists  == {n \in DOMAIN d.args : d.args[n] = "va_list"}
      TextAt(n) == n \in DOMAIN d.args /\ d.args[n] = "text"
  IN CASE d.variadic /\ TextAt(last)             -> "simple"
       [] ~ d.variadic /\ lists = {}             -> "none"
       [] lists = {last} /\ ~ d.variadic /\ TextAt(last - 1) -> "simple"
       [] OTHER                                  -> "complex"

Step == Take \/ Look \/ Enter \/ Return \/ Finish

-----------------------------------------------------------------------------
(* The reference: what the answers about a library l ought to be.          *)
\* The fields a record has in any of the headers.
FieldsAnywhere(l, r) == UNION {Range(l.layouts[h][r]) : h \in DOMAIN l.layouts}

\* r has a pointer to a function somewhere below: it is in every set that has
\* the records with such a field and those with a way to a member.
Downward(l, S) ==
  \A r \in Records : (\E f \in FieldsAnywhere(l, r) : f.to = "function" \/ f.to \in S) => r \in S
LeadsToFunction(l, r) == \A S \in SUBSET Records : Downward(l, S) => r \in S

Bad(l, f) == f.to = "function" \/ (f.to \in Records /\ LeadsToFunction(l, f.to))

\* Complex: on a far way, in a union, or in a record that is.
Upward(l, S) ==
  \A r \in Records :
    (\E f \in FieldsAnywhere(l, r) : (Bad(l, f) /\ (f.far \/ r \in Unions)) \/ f.to \in S) => r \in S
IsComplex(l, r) == \A S \in SUBSET Records : Upward(l, S) => r \in S

Truth(l, types) ==
  IF \E n \in DOMAIN types : \/ Bad(l, types[n]) /\ types[n].far
                             \/ types[n].to \in Records /\ IsComplex(l, types[n].to)
    THEN "complex"
  ELSE IF \E n \in DOMAIN types : Bad(l, types[n]) THEN "simple" ELSE "none"

Found(answer) == answer # "none"

\* Every header sees the same fields, every record is a field's in one place
\* only, and none is below itself.
UsesOf(l, r) ==
  {u \in UNION {{q} \X DOMAIN l.layouts[1][q] : q \in Records} : l.layouts[1][u[1]][u[2]].to = r}
Forest(l) ==
  /\ \A h \in DOMAIN l.layouts : l.layouts[h] = l.layouts[1]
  /\ \A r \in Records : \A u, v \in UsesOf(l, r) : u = v
  /\ \A S \in (SUBSET Records) \ {{}} : \E r \in S : \A u \in UsesOf(l, r) : u[1] \notin S
=============================================================================
