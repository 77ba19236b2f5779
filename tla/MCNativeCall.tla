---------------------------- MODULE MCNativeCall ----------------------------
(* NativeCall for TLC: named threads m, a, b and functions f, g.  The cfg    *)
(* files choose which threads the program starts itself, and the flags.    *)
EXTENDS NativeCall, TLC

CONSTANTS m, a, b, f, g

\* No function is treated specially: runs of invariants may identify states
\* that differ in the names of functions only.
FnSymmetry == Permutations(Fns)
=============================================================================
