\* A catalogue with one course on sale.  The bounds on the requests and on the
\* ids stop nothing for good: the server may always restart.
SPECIFICATION FairSpec
CONSTANTS
  r1 = r1
  r2 = r2
  web = web
  excel = excel
  v1 = v1
  v2 = v2
  general = general
  office = office
  spare = spare
  None = None
  Courses = {web, excel}
  Videos = {v1, v2}
  Categories = {general, office, spare}
  Requests = {r1, r2}
  InitialCourse <- WebOnSale
  InitialVideo <- WebHasVideo
  General = general
  MaxSuffix = 3
  MaxRequests = 2
INVARIANTS
  TypeOK
  NothingDangles
  RemovalSparesSold
  GeneralIsTheDefault
PROPERTIES
  RequestsEnd
