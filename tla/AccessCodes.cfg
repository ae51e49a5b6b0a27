\* Two codes, two students and two handlers, without symmetry for the liveness.
\* The bound on the requests stops the system, so a state without a successor is
\* no deadlock.
SPECIFICATION FairSpec
CONSTANTS
  r1 = r1
  r2 = r2
  k1 = k1
  k2 = k2
  ada = ada
  bola = bola
  None = None
  Codes = {k1, k2}
  Students = {ada, bola}
  Requests = {r1, r2}
  PreviewLimit = 1
  BatchSize = 2
  MaxCount = 3
  MaxAttempts = 2
  MaxRequests = 4
INVARIANTS
  TypeOK
  AccountsKeepTheirCode
  ReportedIsInserted
  HandedOutIsMarked
PROPERTIES
  GenerationEnds
  ImplementsCodeStock
CHECK_DEADLOCK FALSE
