---------------------- MODULE PaymentEligibilityProofs ----------------------
(***************************************************************************)
(* The eligibility check's second look skips nothing that its first look   *)
(* cannot find, for every set of charges, students and requests.  Besides  *)
(* the safety of fulfilment it rests on one more invariant: an enrolled    *)
(* student has an account.                                                 *)
(***************************************************************************)
EXTENDS PaymentEligibility, PaymentFulfillmentProofs

EnrolledIsOnboarded ==
  \A s \in Students, k \in Courses : Enrolled(s, k) => StatusOf(s) = "onboarded"

\* A course is granted by a handler that found the student onboarded, or to a
\* student who is; nobody's onboarding is undone.
LEMMA EnrolledStep ==
  ASSUME Safe, EnrolledIsOnboarded, [Next]_vars
  PROVE  EnrolledIsOnboarded'
<1> SUFFICES ASSUME NEW s \in Students, NEW k \in Courses, Enrolled(s, k)'
             PROVE  StatusOf(s)' = "onboarded"
  BY DEF EnrolledIsOnboarded
<1>1. StatusOf(s) = "onboarded" => StatusOf(s)' = "onboarded"
  BY NextGrows DEF Safe, Grows
<1>2. CASE enrollments'[s][k] = enrollments[s][k]
  BY <1>1, <1>2 DEF EnrolledIsOnboarded, Enrolled
<1>3. ASSUME NEW r \in Requests, CommitCourse(r), enrollments'[s][k] # enrollments[s][k]
      PROVE  StatusOf(s) = "onboarded"
  <2>1. ~At(r, "idle") /\ req[r].pc = "commitCourse"
    BY <1>3 DEF CommitCourse, At
  <2>2. StatusOf(InfoOf(r).student) = "onboarded"
    BY <2>1 DEF Safe, RequestsMatch, RequestMatches
  <2>3. s = InfoOf(r).student
    BY <1>3 DEF CommitCourse, Safe, Typed, TypeOK
  <2>4. QED
    BY <2>2, <2>3
<1>4. ASSUME NEW t \in Students, NEW courses \in SUBSET Courses, EnrollFree(t, courses),
             enrollments'[s][k] # enrollments[s][k]
      PROVE  StatusOf(s) = "onboarded"
  BY <1>4 DEF EnrollFree, Safe, Typed, TypeOK
<1>5. QED
  BY <1>1, <1>2, <1>3, <1>4, NextCases
  DEF RedeemCode, CommitOnboarding, RecordFailed, SaveEvent, FinishEvent

\* A charge's own row holds a charge of the same checkout, hence of the same
\* student and purchase.
LEMMA OwnRow ==
  ASSUME Safe, NEW c \in Charges, Fulfilled(c)
  PROVE  /\ txs[c].charge \in Charges /\ txs[c].charge # None
         /\ Info[txs[c].charge].student = Info[c].student
         /\ Info[txs[c].charge].paidFor = Info[c].paidFor
         /\ Info[txs[c].charge].courses = Info[c].courses
<1>1. c \in RowKeys /\ c \notin FreeKeys
  BY KeyAssumption DEF RowKeys
<1>2. txs[c].charge \in Charges /\ Info[txs[c].charge].ref = Info[c].ref
  BY <1>1 DEF Safe, RowsMatch, RowMatches, KeyRef, Fulfilled
<1>3. txs[c].charge # None
  BY <1>2, KeyAssumption DEF RowKeys
<1>4. QED
  BY <1>2, <1>3, CheckoutAssumption

LEMMA SafeFinds ==
  ASSUME Safe, EnrolledIsOnboarded
  PROVE  SkippedIsFound
<1> SUFFICES ASSUME NEW c \in Charges, PurchaseOf(c) \in Purchases, Fulfilled(c)
             PROVE  CheckDatabase(Info[c].student, PurchaseOf(c))
  BY DEF SkippedIsFound, SkipFulfilled
<1> DEFINE s == Info[c].student
           d == txs[c].charge
<1>1. s \in Students /\ c \in RowKeys
  BY ChargeData DEF RowKeys
<1>2. Entitled(d) /\ d \in Charges
  BY <1>1, OwnRow DEF Safe, FulfilledIsEntitled
<1>3. FindFulfilled(s, PurchaseOf(c)) # {}
  BY <1>1, OwnRow DEF FindFulfilled, IsFor, PurchaseOf
<1>4. StatusOf(s) # "none"
  <2>1. CASE Info[c].paidFor = "onboarding"
    BY <1>2, <2>1, OwnRow DEF Entitled
  <2>2. CASE Info[c].paidFor # "onboarding"
    <3>1. PICK k \in Courses : Info[c].courses = {k}
      BY <2>2 DEF Purchases, PurchaseOf
    <3>2. Enrolled(s, k)
      BY <1>2, <2>2, <3>1, OwnRow DEF Entitled
    <3>3. QED
      BY <1>1, <3>1, <3>2 DEF EnrolledIsOnboarded
  <2>3. QED
    BY <2>1, <2>2
<1>5. QED
  BY <1>3, <1>4 DEF CheckDatabase

\* Whatever is fulfilled while the eligibility check looks, a charge that its
\* second look skips is one that its first look finds in the database.
THEOREM EligibilityMissesNothing == Spec => []SkippedIsFound
<1>1. Init => EnrolledIsOnboarded
  BY DEF Init, EnrolledIsOnboarded, Enrolled
<1>2. Safe /\ EnrolledIsOnboarded /\ [Next]_vars => EnrolledIsOnboarded'
  BY EnrolledStep
<1>3. Safe /\ EnrolledIsOnboarded => SkippedIsFound
  BY SafeFinds
<1>4. QED
  BY <1>1, <1>2, <1>3, AlwaysSafe, PTL DEF Spec
=============================================================================
