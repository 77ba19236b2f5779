------------------------------- MODULE Stream -------------------------------
(***************************************************************************)
(* What the string reader of guestapi_variadic.c promises the scanner: a   *)
(* text that is read one character at a time, where the last character     *)
(* read can be put back and a limit can be set on what is read from here   *)
(* on.  Nothing of buffers, refills or pointers is visible.                *)
(***************************************************************************)
EXTENDS Naturals, Sequences

CONSTANTS EOF,      \* what a read at the end of the text or the limit gives
          None      \* there is no character that could be put back

VARIABLES text,     \* the string
          at,       \* how many of its characters have been read
          since,    \* where the limit counts from
          lim,      \* how many may be read from there; 0 for all
          last      \* what the last read gave

Stream == <<text, at, since, lim, last>>

Init == at = 0 /\ since = 0 /\ lim = 0 /\ last = None

Limit ==
    /\ lim' \in Nat
    /\ since' = at
    /\ last' = None
    /\ UNCHANGED <<text, at>>

Exhausted == at = Len(text) \/ (lim # 0 /\ at - since >= lim)

Get ==
    /\ IF Exhausted THEN at' = at /\ last' = EOF
                    ELSE at' = at + 1 /\ last' = text[at + 1]
    /\ UNCHANGED <<text, since, lim>>

(* Putting back the end is no step back.                                   *)
Unget ==
    /\ last # None
    /\ at' = (IF last = EOF THEN at ELSE at - 1)
    /\ last' = None
    /\ UNCHANGED <<text, since, lim>>

Next == Limit \/ Get \/ Unget

Spec == Init /\ [][Next]_Stream
=============================================================================
