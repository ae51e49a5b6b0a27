\* Two handlers on one student account.  The bounds on requests and sent codes
\* stop the system, so a state without a successor is no deadlock.
SPECIFICATION Spec
CONSTANTS
  r1 = r1
  r2 = r2
  Requests = {r1, r2}
  MaxSends = 3
  MaxRequests = 5
SYMMETRY RequestSymmetry
INVARIANTS
  TypeOK
  
  OnboardedPaid
  
  UnusedCodesBounded
CHECK_DEADLOCK FALSE
