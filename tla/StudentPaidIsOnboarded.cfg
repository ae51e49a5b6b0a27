\* The comment in onboarding-status.util.ts, against a stale save.
SPECIFICATION Spec
CONSTANTS
  r1 = r1
  r2 = r2
  Requests = {r1, r2}
  MaxSends = 1
  MaxRequests = 3
SYMMETRY RequestSymmetry
INVARIANTS
  PaidIsOnboarded
CHECK_DEADLOCK FALSE
