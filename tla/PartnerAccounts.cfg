\* A partner with its login and one disabled member; a second partner may come.
\* The bound on the requests stops the system, so a stop is no deadlock.
SPECIFICATION Spec
CONSTANTS
  r1 = r1
  r2 = r2
  school = school
  academy = academy
  a = a
  b = b
  c = c
  d = d
  None = None
  Partners = {school, academy}
  Emails = {a, b, c, d}
  MaxUsers = 4
  MaxTeam = 2
  Requests = {r1, r2}
  MaxRequests = 3
  InitialPartner <- SchoolOnly
  InitialUser <- SchoolLogins
SYMMETRY RequestSymmetry
INVARIANTS
  TypeOK
  TeamBounded
  LoginFollowsPartner
  
  
CHECK_DEADLOCK FALSE
