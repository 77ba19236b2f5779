------------------------------ MODULE TypeScan ------------------------------
(***************************************************************************)
(* Which callback thunks a guest delegate gets: scripts/delegen.py takes   *)
(* the functions of a library that its header declares, scan_types of      *)
(* scripts/python/clang.py collects every type their signatures lead to,   *)
(* and each signature of a function among these types gets a thunk.        *)
(*                                                                         *)
(* Types are nodes of a graph that may have cycles through pointers.       *)
(***************************************************************************)
EXTENDS Naturals, Sequences, SequencesExt

CONSTANTS Types,
          Width,     \* Width[t]: its size in bytes
          Worlds     \* headers and symbol files: see World

\* Arrays are pointers here; an enum is as wide as an int.
Kinds == {"pointer", "function", "noproto", "record", "integer", "enum", "other"}

\* kids[t]: what scan_types goes on to, in order: the pointee, the result and
\* the parameters, the fields.  decls: the header's functions, each with its
\* name and its result and parameter types.  symbols: the symbols file.
\* calls: those that the library makes through pointers, with the function's
\* type and the arguments' (see GuardThunks).
Site  == [type : Types, args : Seq(Types)]
World == [kind : [Types -> Kinds], kids : [Types -> Seq(Types)], variadic : SUBSET Types,
          decls : Seq([name : STRING, types : Seq(Types)]), symbols : SUBSET STRING,
          calls : Seq(Site)]

ASSUME WorldsAssumption == Worlds \subseteq World

VARIABLES
  world,
  todo,       \* declarations that have not been looked at
  remaining,  \* symbols_remaining
  stack,      \* calls of scan_types that are still to come, the next one first
  all,        \* all_types, and all_type_spellings as its range
  functions,  \* names of the functions collected
  looked,     \* how many of all were looked at for callback_types
  callbacks   \* callback_types
vars == <<world, todo, remaining, stack, all, functions, looked, callbacks>>

Init ==
  /\ world \in Worlds
  /\ todo      = world.decls
  /\ remaining = world.symbols
  /\ stack     = << >>
  /\ all       = << >>
  /\ functions = << >>
  /\ looked    = 0
  /\ callbacks = << >>

Visited == Range(all)

\* scan_types of the result and of each parameter.
Roots(decl) == decl.types

\* A declaration of a wanted symbol; a second one of it is not wanted any more.
TakeDecl ==
  /\ stack = << >> /\ todo # << >>
  /\ LET decl == Head(todo) IN
       IF decl.name \in remaining
         THEN /\ stack'     = Roots(decl)
              /\ functions' = Append(functions, decl.name)
              /\ remaining' = remaining \ {decl.name}
         ELSE UNCHANGED <<stack, functions, remaining>>
  /\ todo' = Tail(todo)
  /\ UNCHANGED <<world, all, looked, callbacks>>

\* Mutant: fields of records are not scanned (scan_fields).
KidsNoFields(t) == IF world.kind[t] = "record" THEN << >> ELSE world.kids[t]

\* Where scan_types goes on to.
Kids(t) == world.kids[t]

\* Mutant: spellings are not compared.
ScanAgain ==
  /\ stack # << >> /\ Len(stack) < 9
  /\ all'   = IF Head(stack) \in Visited THEN all ELSE Append(all, Head(stack))
  /\ stack' = Kids(Head(stack)) \o Tail(stack)
  /\ UNCHANGED <<world, todo, remaining, functions, looked, callbacks>>

\* One call of scan_types: a spelling is visited once.
Scan ==
  /\ stack # << >>
  /\ LET t == Head(stack) IN
       IF t \in Visited THEN stack' = Tail(stack) /\ UNCHANGED all
       ELSE /\ all'   = Append(all, t)
            /\ stack' = Kids(t) \o Tail(stack)
  /\ UNCHANGED <<world, todo, remaining, functions, looked, callbacks>>

-----------------------------------------------------------------------------
Pointers == {"pointer", "function", "noproto"}
IntegerOf(bytes) == CASE bytes = 1 -> "char" [] bytes = 2 -> "short" [] bytes = 4 -> "int" [] OTHER -> "long"

\* TypeSpelling.reduced: what a pointer points to and the sign of an integer do
\* not count; others are known by their names.
ReducedType(t) ==
  CASE world.kind[t] \in Pointers  -> "void *"
    [] world.kind[t] = "enum"      -> "int"
    [] world.kind[t] = "integer"   -> IntegerOf(Width[t])
    [] OTHER                       -> t

Ellipsis(t) == IF t \in world.variadic THEN <<"...">> ELSE << >>

\* TypeSpelling.func_type; the result comes first.
Signature(t) == [n \in DOMAIN world.kids[t] |-> ReducedType(world.kids[t][n])] \o Ellipsis(t)

IsFunction(t) == world.kind[t] \in {"function", "noproto"}

\* Pointers lead to types that are in all themselves, so that it is enough to
\* look at the functions; the first of a signature stands for all.
AddCallback(found, t) ==
  IF IsFunction(t) /\ \A n \in DOMAIN found : Signature(found[n]) # Signature(t)
    THEN Append(found, t) ELSE found

\* "Find function prototypes": one type.
Collect ==
  /\ stack = << >> /\ todo = << >> /\ looked < Len(all)
  /\ looked'    = looked + 1
  /\ callbacks' = AddCallback(callbacks, all[looked + 1])
  /\ UNCHANGED <<world, todo, remaining, stack, all, functions>>

\* callback_types is made.
over == stack = << >> /\ todo = << >> /\ looked = Len(all)

ScanStep == TakeDecl \/ Scan \/ Collect

-----------------------------------------------------------------------------
(* Properties.                                                             *)
\* Types of the declarations that were taken, and of those under way.
Wanted == UNION {Range(world.decls[n].types) : n \in {m \in DOMAIN world.decls :
            /\ m <= Len(world.decls) - Len(todo)
            /\ world.decls[m].name \in world.symbols
            /\ \A k \in 1 .. m - 1 : world.decls[k].name # world.decls[m].name}}
ClosedUnder(S) == \A t \in S : Range(world.kids[t]) \subseteq S

\* When the scan is over, it has found all the types that the functions lead
\* to, and no others.
ScanIsClosure ==
  stack = << >> => /\ Wanted \subseteq Visited /\ ClosedUnder(Visited)
                   /\ \A S \in SUBSET Visited : Wanted \subseteq S /\ ClosedUnder(S) => S = Visited
=============================================================================
