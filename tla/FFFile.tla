------------------------------- MODULE FFFile -------------------------------
(***************************************************************************)
(* The reader under av_sscanf (guestapi_variadic.c, FFFILE and its macros) *)
(* over a string.  A pointer is the index of the character it points to:   *)
(* the first one is at Buf, the terminator at Len(text) + 1, and NULL is   *)
(* 0.  The macros read from a window rpos..shend; at its end ffshgetc      *)
(* refills it with one character and up to Ahead further ones, or finds    *)
(* the limit or the terminator and closes it by shend = NULL.              *)
(*                                                                         *)
(* c is what the last shgetc gave and may be put back by one shunget.      *)
(***************************************************************************)
EXTENDS Integers, Sequences

CONSTANTS Char,     \* the characters of a text
          EOF,      \* -1
          None,     \* nothing read since the last shunget or shlim
          Ahead     \* how far ffstring_read looks beyond what is asked; 256

ASSUME AheadAssumption == Ahead \in Nat
ASSUME CharAssumption == EOF \notin Char /\ None \notin Char /\ None # EOF

VARIABLES text, cookie, rpos, rend, shend, shlim, shcnt, c

file == <<text, cookie, rpos, rend, shend, shlim, shcnt, c>>

NULL == 0
Buf == 1

(* shcnt(f): how many characters lie behind since the limit was set.       *)
Count == shcnt + (rpos - Buf)

FileInit ==
    /\ cookie = Buf
    /\ rpos = NULL /\ rend = NULL /\ shend = NULL
    /\ shlim = 0 /\ shcnt = 0
    /\ c = None

(* A mutant: the window ends where the buffer does.                        *)
WindowUnlimited(from, to, n, left) == to

(* The end of the window under limit n when `left' more may be read.       *)
Window(from, to, n, left) ==
    IF n # 0 /\ to - from > left THEN from + left ELSE to

ShLim(n) ==
    /\ shlim' = n
    /\ shcnt' = Buf - rpos
    /\ shend' = Window(rpos, rend, n, n)
    /\ c' = None
    /\ UNCHANGED <<text, cookie, rpos, rend>>

InWindow ==
    /\ rpos < shend
    /\ c' = text[rpos]
    /\ rpos' = rpos + 1
    /\ UNCHANGED <<text, cookie, rend, shend, shlim, shcnt>>

AtLimit ==
    /\ rpos >= shend
    /\ shlim # 0 /\ Count >= shlim
    /\ shcnt' = Buf - rpos + Count
    /\ shend' = NULL
    /\ c' = EOF
    /\ UNCHANGED <<text, cookie, rpos, rend, shlim>>

(* ffuflow and ffstring_read: k characters are taken over, the first one   *)
(* of which is the answer; none at the terminator.                         *)
Refill ==
    LET left == Len(text) + 1 - cookie
        k == IF left < 1 + Ahead THEN left ELSE 1 + Ahead
        cnt == Count
    IN /\ rpos >= shend
       /\ ~(shlim # 0 /\ cnt >= shlim)
       /\ rend' = cookie + k
       /\ cookie' = cookie + k
       /\ IF k = 0
          THEN /\ rpos' = cookie
               /\ shcnt' = Buf - rpos' + cnt
               /\ shend' = NULL
               /\ c' = EOF
          ELSE /\ rpos' = cookie + 1
               /\ shcnt' = Buf - rpos' + cnt + 1
               /\ shend' = Window(rpos', rend', shlim, shlim - (cnt + 1))
               /\ c' = text[cookie]
       /\ UNCHANGED <<text, shlim>>

ShGetC == InWindow \/ AtLimit \/ Refill

ShUnget ==
    /\ c # None
    /\ rpos' = (IF shend # NULL THEN rpos - 1 ELSE rpos)
    /\ c' = None
    /\ UNCHANGED <<text, cookie, rend, shend, shlim, shcnt>>

(* How much of the text has been handed out, and where the count began;    *)
(* before the first read both are the beginning.                           *)
Consumed == IF rpos = NULL THEN 0 ELSE rpos - Buf
CountsFrom == IF rend = NULL THEN 0 ELSE Consumed - Count

(* The window lies in what was taken over, which lies in the text; it ends *)
(* where the buffer or the limit does, and once it is closed one of them   *)
(* is reached; a character that may be put back lies just behind.          *)
FileOK ==
    /\ cookie \in Buf .. Len(text) + 1
    /\ rend \in {NULL, cookie}
    /\ IF rend = NULL THEN rpos = NULL /\ cookie = Buf ELSE rpos \in Buf .. rend
    /\ shend = NULL \/ shend \in rpos .. rend
    /\ shlim \in Nat /\ shcnt \in Int
    /\ IF rend = NULL THEN shcnt \in {0, Buf} ELSE Count \in 0 .. Consumed
    /\ shend # NULL /\ shlim # 0 => shend - rpos <= shlim - Count
    /\ shend # NULL => shend = rend \/ (shlim # 0 /\ shend - rpos = shlim - Count)
    /\ shend = NULL => rpos = rend \/ (shlim # 0 /\ Count >= shlim)
    /\ c \in Char \cup {EOF, None}
    /\ c = EOF => shend = NULL
    /\ c \in Char => shend # NULL /\ Count > 0 /\ c = text[rpos - 1]
=============================================================================
