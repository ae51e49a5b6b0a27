----------------------------- MODULE PaidAccess -----------------------------
(***************************************************************************)
(* What the payment handlers promise, with the handlers left out: a charge *)
(* paid in full opens the account or enrols the student, whole and at one  *)
(* instant, and nothing else does.  There are no requests here, no rows,   *)
(* no retries and no failures.                                             *)
(***************************************************************************)
EXTENDS Checkout

VARIABLES
  users,    \* each student's onboarding status and the access code redeemed
  codes,    \* the student who redeemed each access code
  owned     \* the courses each student is enrolled in

accessVars == <<users, codes, owned>>

Init ==
  /\ users = [s \in Students |-> [status |-> InitialStatus[s], code |-> None]]
  /\ codes = [k \in Codes |-> None]
  /\ owned = [s \in Students |-> {}]

\* A new student's onboarding fee opens an account with an unused code.
OpenAccount(c) ==
  /\ Paid(c) /\ Info[c].paidFor = "onboarding"
  /\ users[Info[c].student].status = "none"
  /\ Info[c].code \in ValidCodes /\ codes[Info[c].code] = None
  /\ users' = [users EXCEPT ![Info[c].student] =
                 [status |-> "onboarded", code |-> Info[c].code]]
  /\ codes' = [codes EXCEPT ![Info[c].code] = Info[c].student]
  /\ UNCHANGED owned

\* A registered student's onboarding fee onboards the account.
Onboard(c) ==
  /\ Paid(c) /\ Info[c].paidFor = "onboarding"
  /\ users[Info[c].student].status # "none"
  /\ users' = [users EXCEPT ![Info[c].student].status = "onboarded"]
  /\ UNCHANGED <<codes, owned>>

\* The courses of a payment are granted together, to an onboarded student.
Enrol(c) ==
  /\ Paid(c) /\ Info[c].paidFor = "course"
  /\ users[Info[c].student].status = "onboarded"
  /\ owned' = [owned EXCEPT ![Info[c].student] = @ \cup Info[c].courses]
  /\ UNCHANGED <<users, codes>>

EnrolFree(s, courses) ==
  /\ users[s].status = "onboarded"
  /\ \A k \in courses : Price[k] = 0
  /\ owned' = [owned EXCEPT ![s] = @ \cup courses]
  /\ UNCHANGED <<users, codes>>

Next ==
  \/ \E c \in Charges : OpenAccount(c) \/ Onboard(c) \/ Enrol(c)
  \/ \E s \in Students, courses \in SUBSET Courses : EnrolFree(s, courses)

Spec == Init /\ [][Next]_accessVars
=============================================================================
