---------------------------- MODULE SplitCommands ----------------------------
(***************************************************************************)
(* scripts/split_cc.py: a list of compile commands is cut into parts for   *)
(* runs of cfiadd_cc.py.                                                   *)
(***************************************************************************)
EXTENDS Integers, Sequences

VARIABLES
  commands,   \* compile_commands
  num_parts,
  part,       \* the loop's i
  start_idx,
  parts       \* the files compile_commands_<i>.json
splitVars == <<commands, num_parts, part, start_idx, parts>>

\* Mutant: the remainder goes to one part fewer.
PartSizeShort(k) ==
  (Len(commands) \div num_parts) + (IF k < Len(commands) % num_parts THEN 1 ELSE 0)

\* commands_per_part, and one more for each of the first remainder parts.
PartSize(k) ==
  (Len(commands) \div num_parts) + (IF k <= Len(commands) % num_parts THEN 1 ELSE 0)

SplitOver == part > num_parts

\* One file is written; a slice's end may lie behind the list's.
SplitStep ==
  /\ ~ SplitOver
  /\ LET end_idx == start_idx + PartSize(part) IN
       /\ parts' = Append(parts, SubSeq(commands, start_idx + 1,
                                        IF end_idx > Len(commands) THEN Len(commands) ELSE end_idx))
       /\ start_idx' = end_idx
  /\ part' = part + 1
  /\ UNCHANGED <<commands, num_parts>>
=============================================================================
