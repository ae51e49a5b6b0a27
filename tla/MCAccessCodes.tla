--------------------------- MODULE MCAccessCodes ----------------------------
(***************************************************************************)
(* Small instances of AccessCodes for TLC.                                 *)
(***************************************************************************)
EXTENDS AccessCodes, TLC

CONSTANTS r1, r2, k1, k2, ada, bola
=============================================================================
