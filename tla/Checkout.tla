------------------------------ MODULE Checkout ------------------------------
(***************************************************************************)
(* What is on sale and what was charged: the constants that the payment    *)
(* modules share.  A charge is one attempt at a checkout, as Flutterwave   *)
(* reports it together with the metadata that the checkout page attached.  *)
(* Money is counted in minor units.                                        *)
(***************************************************************************)
EXTENDS Naturals, FiniteSets, FiniteSetsExt

CONSTANTS
  Charges,      \* Flutterwave charges, by data.id
  TxRefs,       \* checkout references (tx_ref); a retried card keeps its tx_ref
  Students,     \* student e-mail addresses
  Courses,
  Codes,        \* access codes
  ValidCodes,   \* those that exist, are unused and have not expired
  Info,         \* the data of each charge
  Price,        \* effective price of each published course
  OnboardingFee,
  InitialStatus,    \* accounts that exist before the first charge
  None

Statuses == {"none", "registered", "onboarded"}
Outcomes == {"successful", "failed"}

ChargeInfo == [ref : TxRefs, student : Students, paidFor : {"onboarding", "course"},
               courses : SUBSET Courses, code : Codes, amount : Nat,
               outcome : Outcomes]

ASSUME TypeAssumption ==
  /\ Info \in [Charges -> ChargeInfo]
  /\ Price \in [Courses -> Nat]
  /\ OnboardingFee \in Nat
  /\ InitialStatus \in [Students -> Statuses]
  /\ ValidCodes \subseteq Codes

\* The attempts made on one checkout carry the checkout's metadata.
ASSUME CheckoutAssumption ==
  \A c, d \in Charges :
    Info[c].ref = Info[d].ref =>
      /\ Info[c].student = Info[d].student
      /\ Info[c].paidFor = Info[d].paidFor
      /\ Info[c].courses = Info[d].courses

ASSUME NoneAssumption == None \notin Students \cup Codes

Total(courses) == MapThenSumSet(LAMBDA k : Price[k], courses)

\* The price of what the charge is for.
Due(c) == IF Info[c].paidFor = "onboarding" THEN OnboardingFee
                                            ELSE Total(Info[c].courses)

\* The money was taken and it is enough.
Paid(c) == Info[c].outcome = "successful" /\ Info[c].amount >= Due(c)
=============================================================================
