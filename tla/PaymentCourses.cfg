\* Courses: a cart retried after a failed card, an underpaid purchase, a free course.
SPECIFICATION Spec
CONSTANTS
  None = None
  r1 = r1
  r2 = r2
  c1 = c1
  c2 = c2
  c3 = c3
  c4 = c4
  t1 = t1
  t2 = t2
  t3 = t3
  ada = ada
  bola = bola
  chidi = chidi
  web = web
  intro = intro
  k1 = k1
  Requests = {r1, r2}
  Charges = {c1, c2, c3}
  TxRefs = {t1, t2}
  Students = {ada}
  Courses = {web, intro}
  Codes = {k1}
  ValidCodes = {k1}
  Info <- CourseInfo
  Price <- CoursePrice
  OnboardingFee <- Fee
  InitialStatus <- AdaOnboarded
  IdlessWebhooks = {c2}
  MaxFaults = 0
SYMMETRY RequestSymmetry

  
  
PROPERTIES
  EnrollmentIsFinal
