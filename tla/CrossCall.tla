------------------------------ MODULE CrossCall ------------------------------
(***************************************************************************)
(* What the call machinery promises to a program, no serve loop, buffer or *)
(* condition variable in sight: a native call behaves like a procedure     *)
(* call of its thread.  It may ask for guest work, is suspended until that *)
(* very work is done, and goes on; open calls of a thread end last first.  *)
(* A new thread runs the routine it was asked for, once, and its creator   *)
(* goes on only when the routine has been handed over.  A thread that asks *)
(* to exit never goes on.                                                  *)
(***************************************************************************)
EXTENDS Sequences, Naturals

CONSTANTS Threads, AppThreads, Fns, None

VARIABLES
  stack,    \* stack[t]: t's open native calls, outermost first
  status,   \* status[t]: "unborn", "given" (a routine), "ready", "running", "exited"
  job,      \* job[u]: the routine u was created for
  made      \* made[t]: the thread t's outstanding request has created

vars == <<stack, status, job, made>>

Init ==
  /\ stack  = [t \in Threads |-> << >>]
  /\ status = [t \in Threads |-> IF t \in AppThreads THEN "running" ELSE "unborn"]
  /\ job    = [t \in Threads |-> None]
  /\ made   = [t \in Threads |-> None]

Top(t) == stack[t][Len(stack[t])]
\* t's innermost call is at one of these points of its life.
TopAt(t, points) == stack[t] # << >> /\ Top(t).at \in points
SetTop(t, at, arg) ==
  stack' = [stack EXCEPT ![t][Len(stack[t])] = [@ EXCEPT !.at = at, !.arg = arg]]
Push(t, f) ==
  stack' = [stack EXCEPT ![t] = Append(@, [fn |-> f, at |-> "native", arg |-> None])]

Call(t, f) ==
  /\ status[t] = "running"
  /\ stack[t] = << >> \/ TopAt(t, {"guest"})
  /\ Push(t, f)
  /\ UNCHANGED <<status, job, made>>

Ask(t, kind, f) ==
  /\ TopAt(t, {"native"})
  /\ SetTop(t, kind, f)
  /\ UNCHANGED <<status, job, made>>

\* The callback that was asked for runs, and returns.
RunCallback(t) ==
  /\ TopAt(t, {"Callback"})
  /\ SetTop(t, "guest", Top(t).arg)
  /\ UNCHANGED <<status, job, made>>

Return(t) ==
  /\ TopAt(t, {"guest"})
  /\ SetTop(t, "answered", Top(t).arg)
  /\ UNCHANGED <<status, job, made>>

Spawn(t, u) ==
  /\ TopAt(t, {"PThreadCreate"})
  /\ made[t] = None
  /\ status[u] = "unborn"
  /\ status' = [status EXCEPT ![u] = "given"]
  /\ job'    = [job EXCEPT ![u] = Top(t).arg]
  /\ made'   = [made EXCEPT ![t] = u]
  /\ UNCHANGED stack

\* The request is answered: it failed, or the new thread has its routine.
Spawned(t) ==
  /\ TopAt(t, {"PThreadCreate"})
  /\ made[t] # None => status[made[t]] # "given"
  /\ SetTop(t, "answered", Top(t).arg)
  /\ made' = [made EXCEPT ![t] = None]
  /\ UNCHANGED <<status, job>>

Take(u) ==
  /\ status[u] = "given"
  /\ status' = [status EXCEPT ![u] = "ready"]
  /\ UNCHANGED <<stack, job, made>>

Start(u) ==
  /\ status[u] = "ready"
  /\ status' = [status EXCEPT ![u] = "running"]
  /\ Push(u, job[u])
  /\ UNCHANGED <<job, made>>

Continue(t) ==
  /\ TopAt(t, {"answered"})
  /\ SetTop(t, "native", None)
  /\ UNCHANGED <<status, job, made>>

Finish(t) ==
  /\ TopAt(t, {"native"})
  /\ stack' = [stack EXCEPT ![t] = SubSeq(@, 1, Len(@) - 1)]
  /\ UNCHANGED <<status, job, made>>

\* A created thread ends with its routine, any thread when it asks to.
End(t) ==
  /\ status[t] = "running"
  /\ \/ stack[t] = << >> /\ t \notin AppThreads
     \/ TopAt(t, {"PThreadExit"})
  /\ status' = [status EXCEPT ![t] = "exited"]
  /\ stack'  = [stack EXCEPT ![t] = << >>]
  /\ UNCHANGED <<job, made>>

Next == \E t \in Threads :
  \/ \E f \in Fns : Call(t, f)
                    \/ Ask(t, "Callback", f) \/ Ask(t, "PThreadCreate", f)
  \/ Ask(t, "PThreadExit", None)
  \/ RunCallback(t) \/ Return(t)
  \/ \E u \in Threads : Spawn(t, u)
  \/ Spawned(t) \/ Take(t) \/ Start(t)
  \/ Continue(t) \/ Finish(t) \/ End(t)

Spec == Init /\ [][Next]_vars

=============================================================================
