---------------------------- MODULE GuardThunks ----------------------------
(***************************************************************************)
(* The guards that scripts/cfiadd.py writes for the function pointers a    *)
(* native library calls, met with the thunks that the library's delegate   *)
(* has (Delegen): which calls get a guard, whether each guard finds its    *)
(* thunk when the library is loaded, and what a guest callback is given    *)
(* by way of both.  Where in the text guards go is CfiRewrite's.           *)
(***************************************************************************)
EXTENDS Delegen

\* What holds of types in C.  A function has a result, which is no function, and
\* its parameters and arguments are none either; one without prototype has no
\* parameters; a prototype tells how many arguments there are at least.  Names
\* of integers and pointers are no other types' names, and widths are those of
\* x86-64, where an enum of ISO C is an int (wider integers and bool, known by
\* their names, are other types).
FunctionTypes(w) == {t \in Types : w.kind[t] \in {"function", "noproto"}}
Passed(w, types) == Range(types) \cap FunctionTypes(w) = {}
HasHead(w, t) == w.kids[t] # << >> /\ Passed(w, w.kids[t])
Callable(w, call) ==
  /\ call.type \in FunctionTypes(w) /\ Passed(w, call.args)
  /\ w.kind[call.type] = "function" => IF call.type \in w.variadic
                                         THEN Len(call.args) + 1 >= Len(w.kids[call.type])
                                         ELSE Len(call.args) + 1 = Len(w.kids[call.type])
WidthsOf(kind) ==
  CASE kind = "pointer" -> {8}
    [] kind = "enum"    -> {4}
    [] kind = "integer" -> {1, 2, 4, 8}
    [] OTHER            -> Nat

ASSUME NamesAssumption == Types \cap {"void *", "char", "short", "int", "long", "..."} = {}
ASSUME TypingAssumption == \A w \in Worlds :
  /\ \A t \in FunctionTypes(w) : HasHead(w, t)
  /\ \A t \in FunctionTypes(w) : w.kind[t] = "noproto" => Len(w.kids[t]) = 1 /\ t \notin w.variadic
  /\ \A t \in Types : Width[t] \in WidthsOf(w.kind[t])
  /\ \A n \in DOMAIN w.calls : Callable(w, w.calls[n])
  /\ \A n \in DOMAIN w.decls : w.decls[n].types # << >>

VARIABLES
  callbacks_set,  \* the callbacks file of -c; {} without -c
  at,             \* the call that is next, the last one first
  guards,         \* check_guard_map and the entries of check_guards it leads to
  outcome         \* "none", "guarding", "loaded", "aborted"
guardVars == <<callbacks_set, at, guards, outcome>>

GuardInit ==
  DelegenInit /\ callbacks_set = {} /\ at = 0 /\ guards = << >> /\ outcome = "none"

Calls == world.calls

-----------------------------------------------------------------------------
\* A call with arguments of a function without prototype: the call's own
\* argument types (call_expr) stand for the parameters.
NoProtoWithArgs(call) == world.kind[call.type] = "noproto" /\ call.args # << >>

\* Mutant: a function without prototype is spelled by its type, as its thunk is.
ParametersOfType(call) == Tail(world.kids[call.type])

\* cg.arg_types
Parameters(call) == IF NoProtoWithArgs(call) THEN call.args ELSE Tail(world.kids[call.type])

Result(call) == world.kids[call.type][1]

\* canonical_spelling and reduced_spelling
Canonical(call) == <<Result(call)>> \o Parameters(call) \o Ellipsis(call.type)
Key(call) ==
  LET types == <<Result(call)>> \o Parameters(call)
  IN  [n \in DOMAIN types |-> ReducedType(types[n])] \o Ellipsis(call.type)

\* Mutant: the list is not looked at.
AlwaysListed(call) == TRUE

\* An empty list is no list.
Listed(call) == callbacks_set = {} \/ Key(call) \in callbacks_set

\* cfiadd.py, with the callbacks file of the delegate or without.
StartGuarding ==
  /\ Written /\ outcome = "none"
  /\ callbacks_set' \in {CallbacksFile, {}}
  /\ at' = Len(Calls)
  /\ outcome' = "guarding"
  /\ UNCHANGED <<vars, outVars, guards>>

\* A spelling has one guard, made for the call that has it first.
GuardCall ==
  /\ outcome = "guarding" /\ at > 0
  /\ LET call == Calls[at] IN
       guards' = IF Listed(call) /\ \A n \in DOMAIN guards : guards[n].canonical # Canonical(call)
                   THEN Append(guards, [canonical |-> Canonical(call), sign |-> Key(call),
                                        result |-> Result(call), args |-> Parameters(call)])
                   ELSE guards
  /\ at' = at - 1
  /\ UNCHANGED <<vars, outVars, callbacks_set, outcome>>

\* x64nc_LookUpCallbackThunk, after the delegate has added its thunks.
Thunks(sign) == {CallbackForeach[n].thunk : n \in {m \in DOMAIN CallbackForeach : CallbackForeach[m].sign = sign}}

\* __X64NC_Initialize when the library is loaded: a guard that finds no thunk
\* ends the process.
LoadLibrary ==
  /\ outcome = "guarding" /\ at = 0
  /\ outcome' = IF \A n \in DOMAIN guards : Thunks(guards[n].sign) # {} THEN "loaded" ELSE "aborted"
  /\ UNCHANGED <<vars, outVars, callbacks_set, at, guards>>

GuardStep == StartGuarding \/ GuardCall \/ LoadLibrary

Work   == (DelegenStep /\ UNCHANGED guardVars) \/ GuardStep
Repeat == outcome = "none" /\ RunAgain /\ UNCHANGED guardVars
Stop   == outcome \in {"loaded", "aborted"} /\ UNCHANGED <<vars, outVars, guardVars>>

ToolsNext == Work \/ Repeat \/ Stop
ToolsSpec == GuardInit /\ [][ToolsNext]_<<vars, outVars, guardVars>> /\ WF_<<vars, outVars, guardVars>>(Work)

-----------------------------------------------------------------------------
(* Properties.                                                             *)

GuardOf(call) == guards[CHOOSE n \in DOMAIN guards : guards[n].canonical = Canonical(call)]
Guarded(call) == \E n \in DOMAIN guards : guards[n].canonical = Canonical(call)
\* The delegate's API leads to the type that is called.
OfApi(call) == call.type \in Visited

\* Made with the callbacks file of its delegate, unless that is empty, a native
\* library finds a thunk for every guard, and every call of a type that the API
\* leads to is guarded, but for calls with arguments of functions without
\* prototype (cfiadd.py:266).
GuardsMatchThunks ==
  callbacks_set # {} =>
    /\ outcome # "aborted"
    /\ outcome = "loaded" => \A n \in DOMAIN Calls :
         OfApi(Calls[n]) /\ ~ NoProtoWithArgs(Calls[n]) => Guarded(Calls[n])

\* A guest callback gets by way of guard and thunk what the library passes, its
\* result gets back, and however two spellings were merged there is no more
\* than one thunk; of a variadic call it gets the named arguments alone.  And
\* an API function gets by way of both delegates what the guest passes.
CallbackArrives ==
  \A n \in DOMAIN Calls : Guarded(Calls[n]) =>
    LET call  == Calls[n]
        guard == GuardOf(call)
        named == IF call.type \in world.variadic THEN Len(world.kids[call.type]) - 1 ELSE Len(call.args)
    IN  \A m \in Thunks(guard.sign) :
          /\ Thunks(guard.sign) = {m}
          /\ ReadAs(ThunkArgs(m), ArrayOf(guard.args)) = [k \in 1 .. named |-> k]
          /\ Cell(world.kids[callbacks[m]][1]) = Cell(guard.result)
ApiCallArrives ==
  \A n \in DOMAIN ApiForeach : LET name == ApiForeach[n] IN
    ReadAs(HostArgs(name), ArrayOf(GuestArgs(name))) = [k \in 1 .. Len(DeclOfApi(name).types) - 1 |-> k]
ArgumentsArrive == outcome = "loaded" => CallbackArrives /\ ApiCallArrives
=============================================================================
