----------------------------- MODULE CfiRewrite -----------------------------
(***************************************************************************)
(* How scripts/cfiadd.py puts check guards around the calls of function    *)
(* pointers in a C source file: the calls libclang finds are taken from    *)
(* the last to the first, and each is rewritten in place, at the line and  *)
(* column it had in the file that was parsed.                              *)
(*                                                                         *)
(* The text is lines of tokens, a column each.  A guarded call             *)
(*     callee ( args )     becomes     guard ( callee , args )             *)
(***************************************************************************)
EXTENDS Naturals, Sequences, SequencesExt

CONSTANTS Reduced,     \* Reduced[s]: the spelling that a signature's thunk is keyed by
          Listed,      \* the callbacks file (-c); {}: none is given
          GuardName,   \* GuardName[n]: the token __X64NC_CHECK_GUARD_n
          DeclOf       \* DeclOf[n]: its declaration, as one token

(* A program: its lines, the position where each function starts, and its  *)
(* calls in the order of a walk of the tree.  Of a call: the function it   *)
(* is in, what its callee is (base: a "function", a "pointer", a pointer    *)
(* dereferenced in parentheses ("deref"), or "odd"; levels: how many calls *)
(* were made of base to get it),                                           *)
(* its signature, where the callee starts and ends, and where the first    *)
(* argument or, if it has none (bare), the closing parenthesis is.         *)

\* The counter's names: one each, none of them a declaration or a comma.
ASSUME GuardNamesAssumption ==
  /\ GuardName \in Seq(Range(GuardName)) /\ DeclOf \in Seq(Range(DeclOf))
  /\ Len(GuardName) <= Len(DeclOf)
  /\ \A m, n \in DOMAIN GuardName : GuardName[m] = GuardName[n] => m = n
  /\ Range(GuardName) \cap Range(DeclOf) = {}
  /\ "," \notin Range(GuardName) \cup Range(DeclOf)

VARIABLES
  prog,     \* the file as it was parsed
  source,   \* its text as it is by now
  left,     \* what is still to be done, last first
  guards,   \* check_guard_map: signatures by number
  pending,  \* forward_decl_stack
  status
cfiVars == <<prog, source, left, guards, pending, status>>

Empty == [lines |-> << >>, fns |-> << >>, calls |-> << >>, want |-> << >>]

Leq(p, q) == p[1] < q[1] \/ (p[1] = q[1] /\ p[2] <= q[2])

\* What libclang says of a file that was not rewritten yet: functions do not
\* overlap, their calls come in the order of a walk of the tree, and the first
\* argument is the first thing after the callee and its parenthesis.
Alphabet(p) == UNION {Range(p.lines[l]) : l \in DOMAIN p.lines}
Within(p, at) == at[1] \in DOMAIN p.lines /\ at[2] \in 1 .. Len(p.lines[at[1]]) + 1
AtToken(p, at) == Within(p, at) /\ at[2] <= Len(p.lines[at[1]])
Parsed(p) ==
  /\ p.lines \in Seq(Seq(Alphabet(p)))
  /\ Alphabet(p) \cap (Range(GuardName) \cup Range(DeclOf)) = {}
  /\ p.calls \in Seq(Range(p.calls))
  /\ Cardinality({p.calls[k].sig : k \in DOMAIN p.calls}) <= Len(GuardName)
  /\ p.fns \in Seq(Range(p.fns)) /\ \A f \in DOMAIN p.fns : Within(p, p.fns[f])
  /\ \A k \in DOMAIN p.calls :
       LET c == p.calls[k] IN
         /\ c.fn \in DOMAIN p.fns
         /\ AtToken(p, c.from) /\ Within(p, c.to) /\ AtToken(p, c.first)
         /\ Leq(p.fns[c.fn], c.from) /\ Leq(c.from, c.to) /\ Leq(c.to, c.first)
         /\ ~ Leq(c.to, c.from)
         /\ \A f \in DOMAIN p.fns : f > c.fn => Leq(c.first, p.fns[f])
         /\ \A j \in DOMAIN p.calls :
              j > k => /\ c.fn <= p.calls[j].fn
                       /\ Leq(c.to, p.calls[j].from) => Leq(c.first, p.calls[j].from)

\* Mutant: the calls are rewritten in the order they were found in.
MarkedForward(calls) ==
  FlattenSeq([k \in DOMAIN calls |->
    LET n == Len(calls) + 1 - k IN
    IF n = 1 \/ calls[n].fn # calls[n - 1].fn
      THEN <<[mark |-> TRUE, call |-> n], [mark |-> FALSE, call |-> n]>>
      ELSE <<[mark |-> FALSE, call |-> n]>>])

\* sorted_target_cursors: a mark of the function goes before its first call.
Marked(calls) ==
  FlattenSeq([k \in DOMAIN calls |->
    IF k = 1 \/ calls[k].fn # calls[k - 1].fn
      THEN <<[mark |-> TRUE, call |-> k], [mark |-> FALSE, call |-> k]>>
      ELSE <<[mark |-> FALSE, call |-> k]>>])

\* The file is parsed and read.
Load(p) ==
  /\ prog'    = p
  /\ source'  = p.lines
  /\ left'    = Marked(p.calls)
  /\ guards'  = << >>
  /\ pending' = << >>
  /\ status'  = "rewriting"

-----------------------------------------------------------------------------
(* Python's slices: bounds beyond the end are cut.                         *)
Before(line, col) == SubSeq(line, 1, IF col - 1 > Len(line) THEN Len(line) ELSE col - 1)
From(line, col)   == SubSeq(line, col, Len(line))

Insert(text, at, tokens) ==
  [text EXCEPT ![at[1]] = Before(@, at[2]) \o tokens \o From(@, at[2])]

\* get_source_range, of the text as it was parsed
RangeText(from, to) ==
  FlattenSeq([n \in DOMAIN prog.lines |->
    LET upto == IF n = to[1] THEN Before(prog.lines[n], to[2]) ELSE prog.lines[n]
    IN  CASE n < from[1] \/ n > to[1] -> << >>
          [] n = from[1]              -> From(upto, from[2])
          [] OTHER                    -> upto])

\* replace_source_range: lines the range spans are joined at its end.
Replace(text, from, to, token) ==
  [n \in DOMAIN text |->
     LET head == IF n = from[1] THEN Before(text[n], from[2]) ELSE << >>
     IN  CASE n < from[1] \/ n > to[1] -> text[n]
           [] n = to[1]                -> head \o <<token>> \o From(text[n], to[2])
           [] OTHER                    -> head]

-----------------------------------------------------------------------------
Item == left[Len(left)]
Current == prog.calls[Item.call]

\* clang_reveal_call_expr: a result type is taken for each level, and only a
\* function type has one; a pointer to a function has none.
Reveal(call) ==
  IF call.base = "odd" THEN "odd"
  ELSE IF call.levels = 0 THEN IF call.base = "deref" THEN "pointer" ELSE call.base
  ELSE IF call.levels = 1 /\ call.base # "pointer" THEN "pointer" ELSE "untyped"

HasThunk(call) == Listed = {} \/ Reduced[call.sig] \in Listed
\* What the loop body does not pass over: function pointers with a thunk.
Selected(call) == Reveal(call) = "pointer" /\ HasThunk(call)

\* Mutant: the declarations are dropped, not written.
DeclareNothing ==
  /\ status = "rewriting" /\ left # << >> /\ Item.mark
  /\ pending' = << >>
  /\ left' = Front(left)
  /\ UNCHANGED <<prog, source, guards, status>>

\* A function's mark: the declarations its guards need go before it.
Declare ==
  /\ status = "rewriting" /\ left # << >> /\ Item.mark
  /\ source'  = Insert(source, prog.fns[Current.fn], pending)
  /\ pending' = << >>
  /\ left'    = Front(left)
  /\ UNCHANGED <<prog, guards, status>>

Skip ==
  /\ status = "rewriting" /\ left # << >> /\ ~ Item.mark
  /\ Reveal(Current) # "odd"
  /\ ~ Selected(Current)
  /\ left' = Front(left)
  /\ UNCHANGED <<prog, source, guards, pending, status>>

\* clang_reveal_call_expr raises: nothing is written.
Unexpected ==
  /\ status = "rewriting" /\ left # << >> /\ ~ Item.mark
  /\ Reveal(Current) = "odd"
  /\ status' = "raised"
  /\ UNCHANGED <<prog, source, left, guards, pending>>

\* A signature has one guard, numbered as it is first used.
NumberIn(gs, sig) ==
  IF \E n \in DOMAIN gs : gs[n] = sig THEN CHOOSE n \in DOMAIN gs : gs[n] = sig ELSE Len(gs) + 1
Number(sig) == NumberIn(guards, sig)

\* "Prepend first argument", "Replace callee": from the back to the front.
Edit(call, token) ==
  LET callee == RangeText(call.from, call.to)
  IN  Replace(Insert(source, call.first, IF call.bare THEN callee ELSE Append(callee, ",")),
              call.from, call.to, token)

Guard ==
  /\ status = "rewriting" /\ left # << >> /\ ~ Item.mark
  /\ Selected(Current)
  /\ LET n == Number(Current.sig) IN
       /\ source'  = Edit(Current, GuardName[n])
       /\ guards'  = IF n > Len(guards) THEN Append(guards, Current.sig) ELSE guards
       /\ pending' = <<DeclOf[n]>> \o pending
  /\ left' = Front(left)
  /\ UNCHANGED <<prog, status>>

\* The file is written, with the guards' definitions, if there is any guard.
Write ==
  /\ status = "rewriting" /\ left = << >>
  /\ status' = IF guards = << >> THEN "unchanged" ELSE "written"
  /\ UNCHANGED <<prog, source, left, guards, pending>>

Step == Declare \/ Skip \/ Unexpected \/ Guard \/ Write

-----------------------------------------------------------------------------
(* Properties.                                                             *)

Tokens == FlattenSeq(source)

\* A call that ought to be guarded: of a pointer, however it is come by.
Ought(call) == (call.base \in {"pointer", "deref"} \/ call.levels > 0) /\ HasThunk(call)

\* No callee of such a call contains another, or is what a call of a pointer,
\* or of a call, returns.
Plain(p) ==
  \A i \in DOMAIN p.calls :
    LET outer == p.calls[i] IN
      Ought(outer) =>
        /\ outer.levels = 0 \/ (outer.levels = 1 /\ outer.base # "pointer")
        /\ \A j \in DOMAIN p.calls :
             LET inner == p.calls[j] IN
               j > i /\ Ought(inner) => Leq(outer.to, inner.from)
CalleesPlain == Plain(prog)

\* How many tokens of p are before a position, and those of a call's callee.
Offset(p, at) == Len(FlattenSeq(SubSeq(p.lines, 1, at[1] - 1))) + at[2] - 1
Callee(p, call) == SubSeq(FlattenSeq(p.lines), Offset(p, call.from) + 1, Offset(p, call.to))

\* p with the calls K guarded, token by token, if their callees are plain: in
\* front of token n + 1 goes the callee of the call whose arguments start there,
\* then the guard of the call that starts there, its number taken from gs; what
\* is in a callee is gone.
Handed(p, K, n) ==
  IF \E k \in K : Offset(p, p.calls[k].first) = n
    THEN LET call == p.calls[CHOOSE k \in K : Offset(p, p.calls[k].first) = n]
         IN  IF call.bare THEN Callee(p, call) ELSE Append(Callee(p, call), ",")
    ELSE << >>
Entered(p, gs, K, n) ==
  IF \E k \in K : Offset(p, p.calls[k].from) = n
    THEN <<GuardName[NumberIn(gs, p.calls[CHOOSE k \in K : Offset(p, p.calls[k].from) = n].sig)]>>
    ELSE << >>
Kept(p, K, n) ==
  IF \E k \in K : Offset(p, p.calls[k].from) <= n /\ n < Offset(p, p.calls[k].to)
    THEN << >> ELSE <<FlattenSeq(p.lines)[n + 1]>>
Meant(p, gs, K) ==
  FlattenSeq([n \in DOMAIN FlattenSeq(p.lines) |->
                Handed(p, K, n - 1) \o Entered(p, gs, K, n - 1) \o Kept(p, K, n - 1)])

Without(tokens, S) ==
  FlattenSeq([n \in DOMAIN tokens |-> IF tokens[n] \in S THEN << >> ELSE <<tokens[n]>>])
ToGuard(p) == {k \in DOMAIN p.calls : Ought(p.calls[k])}

\* But for the guards' declarations, the file that is written is the file that
\* was parsed with every call guarded that ought to be, and nothing else changed.
PlainCallsReplaced ==
  status = "written" /\ CalleesPlain =>
    Without(Tokens, Range(DeclOf)) = Meant(prog, guards, ToGuard(prog))

\* The same, nested callees included (prog.want).
Wanted == FlattenSeq([n \in DOMAIN prog.want |->
            IF prog.want[n].guard THEN <<GuardName[Number(prog.want[n].sig)]>>
                                  ELSE <<prog.want[n].token>>])
Rewritten == Without(Tokens, Range(DeclOf)) = Wanted

\* doc/compile.md: the call site is replaced by a call of the check function
\* with the pointer in front of the arguments.  Of every call site.
CallSitesReplaced == status = "written" => Rewritten

\* A guard is declared before the function that uses it, what is used is
\* defined at the end of the file, and a signature has one guard.
DeclaredBeforeUse ==
  status = "written" /\ CalleesPlain =>
    /\ \A m, n \in DOMAIN guards : guards[m] = guards[n] => m = n
    /\ \A n \in DOMAIN GuardName : \A p \in DOMAIN Tokens :
         Tokens[p] = GuardName[n] => n <= Len(guards) /\ \E q \in 1 .. p - 1 : Tokens[q] = DeclOf[n]

=============================================================================
