-------------------------------- MODULE Batch --------------------------------
(***************************************************************************)
(* Rewriting the sources of a whole library: scripts/split_cc.py cuts the  *)
(* compile commands into parts, and scripts/cfiadd_cc.py runs cfiadd.py    *)
(* (CfiRewrite) on the source of each command of a part, in place, with -E *)
(* on its preprocessed text.  The first failure ends the run of a part;    *)
(* whoever started it may start it again.                                  *)
(***************************************************************************)
EXTENDS CfiRewrite, SplitCommands

CONSTANTS Batches,     \* see Init
          MaxReruns    \* bound: how often a part is started again

ASSUME BatchesAssumption ==
  \A b \in Batches :
    /\ b.num_parts \in Nat \ {0} /\ b.commands \in Seq(DOMAIN b.text)
    /\ \A f \in DOMAIN b.text : Parsed(b.text[f])

VARIABLES
  text,      \* per source file, the program it holds at first
  expand,    \* -E
  running,   \* the part that is rewritten
  i,         \* its command
  phase,     \* "split", "next" command, "expanded", "adding", "failed", "done"
  guarded,   \* per source file, how often guards were put into it
  temps,     \* source files whose .tmp file exists
  reruns
batchVars == <<text, expand, running, i, phase, guarded, temps, reruns>>
vars == <<cfiVars, splitVars, batchVars>>

Init ==
  /\ \E b \in Batches : /\ commands = b.commands /\ num_parts = b.num_parts
                        /\ text = b.text /\ expand = b.expand
  /\ part = 1 /\ start_idx = 0 /\ parts = << >>
  /\ running = 1 /\ i = 1 /\ phase = "split" /\ reruns = 0
  /\ guarded = [f \in DOMAIN text |-> 0]
  /\ temps = {}
  /\ prog = Empty /\ source = << >> /\ left = << >> /\ guards = << >>
  /\ pending = << >> /\ status = "none"

-----------------------------------------------------------------------------
Split ==
  /\ phase = "split"
  /\ SplitStep
  /\ UNCHANGED <<cfiVars, batchVars>>

SplitEnds ==
  /\ phase = "split" /\ SplitOver
  /\ phase' = "next"
  /\ UNCHANGED <<cfiVars, splitVars, text, expand, running, i, guarded, temps, reruns>>

AtCommand == phase = "next" /\ running <= num_parts /\ i <= Len(parts[running])
File == parts[running][i]

\* The compiler's -E run: source to temp_file ...
Expand ==
  /\ AtCommand /\ expand
  /\ temps' = temps \cup {File}
  /\ phase' = "expanded"
  /\ UNCHANGED <<cfiVars, splitVars, text, expand, running, i, guarded, reruns>>

\* ... or it fails, and so does the part.
ExpandFails ==
  /\ AtCommand /\ expand
  /\ phase' = "failed"
  /\ UNCHANGED <<cfiVars, splitVars, text, expand, running, i, guarded, temps, reruns>>

CfiReady == phase = "expanded" \/ (AtCommand /\ ~ expand)

\* cfiadd.py on a file that has no guards yet.
Add ==
  /\ CfiReady /\ guarded[File] = 0
  /\ Load(text[File])
  /\ phase' = "adding"
  /\ UNCHANGED <<splitVars, text, expand, running, i, guarded, temps, reruns>>

Rewrite ==
  /\ phase = "adding"
  /\ Step
  /\ UNCHANGED <<splitVars, batchVars>>

\* Mutant: a command that adds no guard is taken for the last.
AdvanceOrStop(times) ==
  /\ guarded' = [guarded EXCEPT ![File] = times]
  /\ temps'   = temps \ {File}
  /\ i'       = IF times = 0 THEN Len(parts[running]) + 1 ELSE i + 1
  /\ phase'   = "next"
  /\ UNCHANGED <<cfiVars, splitVars, text, expand, running, reruns>>

\* The command is done with: os.remove(temp_file), and on to the next.
Advance(times) ==
  /\ guarded' = [guarded EXCEPT ![File] = times]
  /\ temps'   = temps \ {File}
  /\ i' = i + 1 /\ phase' = "next"
  /\ UNCHANGED <<cfiVars, splitVars, text, expand, running, reruns>>

Added ==
  /\ phase = "adding" /\ status \in {"written", "unchanged"}
  /\ Advance(IF status = "written" THEN 1 ELSE 0)

AddFails ==
  /\ phase = "adding" /\ status = "raised"
  /\ phase' = "failed"
  /\ UNCHANGED <<cfiVars, splitVars, text, expand, running, i, guarded, temps, reruns>>

\* cfiadd.py on a file it has written: the guards' own calls of _callback go
\* through a pointer, and are guarded in their turn.
AddAgain ==
  /\ CfiReady /\ guarded[File] > 0
  /\ Advance(guarded[File] + 1)

NextPart ==
  /\ phase = "next" /\ running <= num_parts /\ i > Len(parts[running])
  /\ running' = running + 1 /\ i' = 1
  /\ phase'   = IF running = num_parts THEN "done" ELSE "next"
  /\ UNCHANGED <<cfiVars, splitVars, text, expand, guarded, temps, reruns>>

\* A part that failed is run again, from its first command.
Rerun ==
  /\ phase = "failed" /\ reruns < MaxReruns
  /\ reruns' = reruns + 1
  /\ i' = 1 /\ phase' = "next"
  /\ UNCHANGED <<cfiVars, splitVars, text, expand, running, guarded, temps>>

Done == phase \in {"failed", "done"} /\ UNCHANGED vars

Next ==
  \/ Split \/ SplitEnds
  \/ Expand \/ ExpandFails \/ Add \/ Rewrite \/ Added \/ AddFails \/ AddAgain
  \/ NextPart \/ Rerun
  \/ Done

Spec == Init /\ [][Next]_vars

-----------------------------------------------------------------------------
(* Properties.                                                             *)

\* The parts are the commands, none lost, none twice, in order; and no part is
\* more than one command longer than another (split_cc.py's remainder).
PartsAreCommands ==
  SplitOver =>
    /\ FlattenSeq(parts) = commands
    /\ \A k, l \in DOMAIN parts : Len(parts[k]) <= Len(parts[l]) + 1

Files == DOMAIN text
Distinct == \A k, l \in DOMAIN commands : commands[k] = commands[l] => k = l
HasGuards(f) == \E k \in DOMAIN text[f].calls : Selected(text[f].calls[k])

\* However the commands are cut into parts: once every part was run to its end,
\* the sources with calls to guard have guards, each source that is listed once
\* (and no part was run again) exactly once.
AllGuarded ==
  phase = "done" =>
    /\ \A k \in DOMAIN commands : guarded[commands[k]] > 0 <=> HasGuards(commands[k])
    /\ Distinct /\ reruns = 0 => \A f \in Files : guarded[f] <= 1

=============================================================================
