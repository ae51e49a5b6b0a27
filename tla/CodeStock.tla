----------------------------- MODULE CodeStock ------------------------------
(***************************************************************************)
(* What the inventory of access codes promises, with the requests left     *)
(* out: codes come in, and each goes out at one instant, to one student's  *)
(* account or by withdrawal, for good.  There are no rows, no locks, no    *)
(* batches, no exports and no failures.                                    *)
(***************************************************************************)
CONSTANTS Codes, Students, None

VARIABLES
  stock,     \* the codes that can be redeemed
  used,      \* the codes that were redeemed
  withdrawn, \* the codes that were taken back before anyone redeemed them
  opens,     \* the code that opened each student's account
  student    \* the student whose account each code opened

stockVars == <<stock, used, withdrawn, opens, student>>

Init ==
  /\ stock \in SUBSET Codes /\ used = {} /\ withdrawn = {}
  /\ opens = [s \in Students |-> None]
  /\ student = [c \in Codes |-> None]

\* Strings that never were codes become codes.
Add(codes) ==
  /\ codes \cap (stock \cup used \cup withdrawn) = {}
  /\ stock' = stock \cup codes
  /\ UNCHANGED <<used, withdrawn, opens, student>>

\* One code opens one account.
Redeem(s, c) ==
  /\ c \in stock /\ opens[s] = None
  /\ stock' = stock \ {c} /\ used' = used \cup {c}
  /\ opens' = [opens EXCEPT ![s] = c]
  /\ student' = [student EXCEPT ![c] = s]
  /\ UNCHANGED withdrawn

Withdraw(codes) ==
  /\ codes \subseteq stock
  /\ stock' = stock \ codes /\ withdrawn' = withdrawn \cup codes
  /\ UNCHANGED <<used, opens, student>>

Next ==
  \/ \E codes \in SUBSET Codes : Add(codes) \/ Withdraw(codes)
  \/ \E s \in Students, c \in Codes : Redeem(s, c)

Spec == Init /\ [][Next]_stockVars
=============================================================================
