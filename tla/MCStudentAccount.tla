-------------------------- MODULE MCStudentAccount --------------------------
(***************************************************************************)
(* Small instances of StudentAccount for TLC.                              *)
(***************************************************************************)
EXTENDS StudentAccount, TLC

CONSTANTS r1, r2

RequestSymmetry == Permutations(Requests)
=============================================================================
