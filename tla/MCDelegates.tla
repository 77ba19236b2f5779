----------------------------- MODULE MCDelegates -----------------------------
(* Four libraries: top is linked to mid and low, mid to low, side to none;  *)
(* every one of them guards cmp, and mid alone guards visit.               *)
EXTENDS Delegates

CONSTANTS top, mid, low, side, cmp, visit

MCNeeds == [l \in Libs |->
  CASE l = top -> {mid, low} [] l = mid -> {low} [] OTHER -> {}]
MCSigs  == [l \in Libs |-> IF l = mid THEN {cmp, visit} ELSE {cmp}]
=============================================================================
