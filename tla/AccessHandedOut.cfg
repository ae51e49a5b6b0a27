\* Two exports of ready codes at the same time.
SPECIFICATION Spec
CONSTANTS
  r1 = r1
  r2 = r2
  k1 = k1
  k2 = k2
  ada = ada
  bola = bola
  None = None
  Codes = {k1, k2}
  Students = {ada}
  Requests = {r1, r2}
  PreviewLimit = 1
  BatchSize = 2
  MaxCount = 1
  MaxAttempts = 2
  MaxRequests = 3
INVARIANTS
  HandedOutOnce
CHECK_DEADLOCK FALSE
