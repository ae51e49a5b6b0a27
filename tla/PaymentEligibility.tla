------------------------- MODULE PaymentEligibility -------------------------
(***************************************************************************)
(* The eligibility check of payment-eligibility.service: before the        *)
(* browser opens a checkout it asks whether the student has paid for the   *)
(* same thing already.  The check writes nothing.  It takes two looks, and *)
(* payments go on being fulfilled between them:                            *)
(*                                                                         *)
(*   1. in the database, for the account, the enrolment or a fulfilled     *)
(*      row of the student;                                                *)
(*   2. only if that finds nothing, in Flutterwave's list of successful    *)
(*      charges, which skips the charges whose own row is fulfilled, for   *)
(*      it takes them to have been seen by the first look.                 *)
(*                                                                         *)
(* A purchase is onboarding or one course: the check compares the one      *)
(* courseId of the checkout's metadata, so a paid cart is found by its     *)
(* enrolments and never by its charge.                                     *)
(***************************************************************************)
EXTENDS PaymentFulfillment

Purchases == {[paidFor |-> "onboarding", courses |-> {}]}
               \cup {[paidFor |-> "course", courses |-> {k}] : k \in Courses}

IsFor(c, s, p) ==
  /\ Info[c].student = s
  /\ Info[c].paidFor = p.paidFor
  /\ Info[c].courses = p.courses

\* A row of the student's, of any charge for the purchase, that is fulfilled.
FindFulfilled(s, p) ==
  {k \in RowKeys : Fulfilled(k) /\ txs[k].charge # None /\ IsFor(txs[k].charge, s, p)}

\* What the account itself says of the purchase.
Granted(s, p) ==
  \/ p.paidFor = "onboarding" /\ StatusOf(s) = "onboarded"
  \/ \E k \in p.courses : Enrolled(s, k)

CheckDatabase(s, p) ==
  /\ StatusOf(s) # "none"
  /\ Granted(s, p) \/ FindFulfilled(s, p) # {}

\* Mutant: a charge is skipped for any row of its checkout, fulfilled or not.
SkipKnown(c) == \E k \in RowKeys : HasRef(k, Info[c].ref)

SkipFulfilled(c) == Fulfilled(c)

CheckFlutterwave(s, p) ==
  \E c \in Charges : /\ Info[c].outcome = "successful"
                     /\ IsFor(c, s, p) /\ ~SkipFulfilled(c)

PurchaseOf(c) == [paidFor |-> Info[c].paidFor, courses |-> Info[c].courses]

\* No checkout is opened for what a charge was already taken for: whatever
\* the second look skips, the first look finds.  A student who is told to be
\* eligible has therefore paid nothing, unless the payment was fulfilled
\* between the two looks.
SkippedIsFound ==
  \A c \in Charges :
    /\ Info[c].outcome = "successful"
    /\ PurchaseOf(c) \in Purchases
    /\ SkipFulfilled(c)
    => CheckDatabase(Info[c].student, PurchaseOf(c))
=============================================================================
