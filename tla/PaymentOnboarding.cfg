\* Onboarding: a retried card, an access code two students want, an underpaid fee.
SPECIFICATION Spec
CONSTANTS
  None = None
  r1 = r1
  r2 = r2
  c1 = c1
  c2 = c2
  c3 = c3
  c4 = c4
  t1 = t1
  t2 = t2
  t3 = t3
  ada = ada
  bola = bola
  chidi = chidi
  web = web
  intro = intro
  k1 = k1
  Requests = {r1, r2}
  Charges = {c1, c2, c3, c4}
  TxRefs = {t1, t2, t3}
  Students = {ada, bola, chidi}
  Courses = {}
  Codes = {k1}
  ValidCodes = {k1}
  Info <- OnboardingInfo
  Price <- NoPrice
  OnboardingFee <- Fee
  InitialStatus <- ChidiRegistered
  IdlessWebhooks = {}
  MaxFaults = 1
SYMMETRY RequestSymmetry
INVARIANTS
  TypeOK
  
  CodeOpensOneAccount
  
  MailedOnce
  
