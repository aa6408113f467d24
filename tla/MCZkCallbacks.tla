---------------------------- MODULE MCZkCallbacks ----------------------------
(***************************************************************************)
(* Model values for checking ZkCallbacks.  Objects and handles are         *)
(* interchangeable.                                                        *)
(***************************************************************************)
EXTENDS ZkCallbacks, TLC

CONSTANTS o1, o2, h1, h2

Symmetry == Permutations(Objects) \cup Permutations(Handles)
=============================================================================
