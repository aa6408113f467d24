------------------------------ MODULE MCZkData ------------------------------
(***************************************************************************)
(* Model values for checking ZkData.  Scripts are interchangeable, and so  *)
(* are the entries of an ACL.                                              *)
(***************************************************************************)
EXTENDS ZkData, TLC

CONSTANTS s1, s2, a1, a2

MCLengths == {-1, 0, 1, 2}
MCLists   == {{}, {BAD}, {a1, BAD}, {a2, BAD}}

Symmetry == Permutations(Scripts) \cup Permutations(Acls)
=============================================================================
