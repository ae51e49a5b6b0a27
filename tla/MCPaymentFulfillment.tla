------------------------ MODULE MCPaymentFulfillment ------------------------
(***************************************************************************)
(* Small instances of PaymentFulfillment for TLC.                          *)
(***************************************************************************)
EXTENDS PaymentEligibility, TLC

CONSTANTS r1, r2, c1, c2, c3, c4, t1, t2, t3, ada, bola, chidi, web, intro, k1

RequestSymmetry == Permutations(Requests)

Onboarding(ref, student, code, amount, outcome) ==
  [ref |-> ref, student |-> student, paidFor |-> "onboarding", courses |-> {},
   code |-> code, amount |-> amount, outcome |-> outcome]

Purchase(ref, student, courses, amount, outcome) ==
  [ref |-> ref, student |-> student, paidFor |-> "course", courses |-> courses,
   code |-> k1, amount |-> amount, outcome |-> outcome]

Fee == 5

\* Ada's first card fails and her second pays; Bola registers with the same
\* access code on a checkout of her own; Chidi, whom the staff registered, is
\* charged too little.
OnboardingInfo ==
  c1 :> Onboarding(t1, ada, k1, Fee, "failed") @@
  c2 :> Onboarding(t1, ada, k1, Fee, "successful") @@
  c3 :> Onboarding(t2, bola, k1, Fee, "successful") @@
  c4 :> Onboarding(t3, chidi, k1, Fee - 1, "successful")

\* Ada's two attempts alone.
RetriedInfo ==
  c1 :> Onboarding(t1, ada, k1, Fee, "failed") @@
  c2 :> Onboarding(t1, ada, k1, Fee, "successful")

\* A cart whose first card failed, and one of its courses underpaid on a
\* second checkout.  The other course is free.
CourseInfo ==
  c1 :> Purchase(t1, ada, {web, intro}, 2, "failed") @@
  c2 :> Purchase(t1, ada, {web, intro}, 2, "successful") @@
  c3 :> Purchase(t2, ada, {web}, 1, "successful")

CoursePrice == web :> 2 @@ intro :> 0
FreePrice == intro :> 0

NoPrice == [k \in {} |-> 0]

ChidiRegistered == ada :> "none" @@ bola :> "none" @@ chidi :> "registered"
AdaNew == ada :> "none"
AdaOnboarded == ada :> "onboarded"
=============================================================================
