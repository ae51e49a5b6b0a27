--------------------------- MODULE MCPaymentSync ----------------------------
(***************************************************************************)
(* Five charges: the second is the first's retry, after its card failed;   *)
(* the fourth failed as well.                                              *)
(***************************************************************************)
EXTENDS PaymentSync

CONSTANT s1

Taken == {2, 3, 5}
Shown == {1, 4, 5}
Reference == <<1, 1, 3, 4, 5>>
=============================================================================
