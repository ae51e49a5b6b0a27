---------------------- MODULE PaymentFulfillmentProofs ----------------------
(***************************************************************************)
(* Proofs about PaymentFulfillment, for every set of charges, students,    *)
(* courses, codes and concurrent requests: its types, its safety, and that *)
(* it implements PaidAccess.                                               *)
(***************************************************************************)
EXTENDS PaymentFulfillment, TLAPS

-----------------------------------------------------------------------------
(* Type correctness.                                                       *)

\* Every charge's data has the shape that Flutterwave's data is parsed into.
LEMMA ChargeData ==
  ASSUME NEW c \in Charges
  PROVE  /\ Info[c].ref \in TxRefs /\ Info[c].student \in Students
         /\ Info[c].paidFor \in {"onboarding", "course"}
         /\ Info[c].courses \in SUBSET Courses /\ Info[c].code \in Codes
         /\ Info[c].amount \in Nat /\ Info[c].outcome \in Outcomes
  BY TypeAssumption DEF ChargeInfo

\* A handler that ends leaves a well-formed request.
LEMMA ConcludeType ==
  ASSUME req \in [Requests -> Request], NEW r \in Requests, NEW ok \in BOOLEAN,
         Conclude(r, ok)
  PROVE  req' \in [Requests -> Request]
<1> DEFINE stored == [req[r] EXCEPT !.pc = "finish", !.ok = ok]
<1>1. req[r] \in Request
  OBVIOUS
<1>2. stored \in Request
  BY <1>1 DEF Request, Steps
<1>3. NoRequest \in Request
  BY DEF NoRequest, Request, Steps
<1> HIDE DEF stored
<1>4. (IF req[r].source = "webhook" THEN stored ELSE NoRequest) \in Request
  BY <1>2, <1>3
<1>5. req' = [req EXCEPT ![r] = IF req[r].source = "webhook" THEN stored ELSE NoRequest]
  BY DEF Conclude, stored
<1>6. QED
  BY <1>4, <1>5

LEMMA GotoType ==
  ASSUME req \in [Requests -> Request], NEW r \in Requests, NEW step \in Steps,
         Goto(r, step)
  PROVE  req' \in [Requests -> Request]
  BY DEF Goto, Request

\* What every request in flight is about.
RequestCharge ==
  \A r \in Requests : ~At(r, "idle") =>
    req[r].charge \in Charges /\ req[r].key \in KeysOf(req[r].charge)

LEMMA KeyType ==
  ASSUME NEW c \in Charges
  PROVE  KeysOf(c) \in SUBSET (Charges \cup TxRefs) /\ c \in KeysOf(c)
  BY ChargeData DEF KeysOf

\* TypeOK with what every request in flight is about: the two are inductive
\* together, for an action writes the data of its request's charge.
Typed == TypeOK /\ RequestCharge

\* A request keeps its charge and key until its handler ends.
Continues(r) ==
  \A q \in Requests : req'[q].pc # "idle" =>
    /\ q = r => req[q].pc # "idle"
    /\ req'[q].charge = req[q].charge /\ req'[q].key = req[q].key
    /\ q # r => req'[q] = req[q]

LEMMA ContinuesCharge ==
  ASSUME RequestCharge, NEW r \in Requests, Continues(r)
  PROVE  RequestCharge'
  BY DEF RequestCharge, Continues, At, KeysOf

LEMMA ConcludeContinues ==
  ASSUME req \in [Requests -> Request], NEW r \in Requests, ~At(r, "idle"),
         NEW ok \in BOOLEAN, Conclude(r, ok)
  PROVE  Continues(r) /\ req' \in [Requests -> Request]
<1>1. req' \in [Requests -> Request]
  BY ConcludeType
<1>2. \A q \in Requests : q # r => req'[q] = req[q]
  BY DEF Conclude
<1>3. req'[r] = IF req[r].source = "webhook"
                THEN [req[r] EXCEPT !.pc = "finish", !.ok = ok] ELSE NoRequest
  BY DEF Conclude
<1>4. req[r] \in Request
  OBVIOUS
<1>5. req'[r].pc # "idle" => req'[r].charge = req[r].charge /\ req'[r].key = req[r].key
  <2>1. CASE req[r].source = "webhook"
    BY <1>3, <1>4, <2>1 DEF Request
  <2>2. CASE req[r].source # "webhook"
    BY <1>3, <2>2 DEF NoRequest
  <2>3. QED
    BY <2>1, <2>2
<1>6. QED
  BY <1>1, <1>2, <1>5 DEF Continues, At

LEMMA GotoContinues ==
  ASSUME req \in [Requests -> Request], NEW r \in Requests, ~At(r, "idle"),
         NEW step \in Steps, Goto(r, step)
  PROVE  Continues(r) /\ req' \in [Requests -> Request]
  BY GotoType DEF Continues, Goto, At, Request

LEMMA AfterCommitContinues ==
  ASSUME req \in [Requests -> Request], NEW r \in Requests, ~At(r, "idle"),
         NEW notify \in BOOLEAN, AfterCommit(r, notify)
  PROVE  Continues(r) /\ req' \in [Requests -> Request]
  BY ConcludeContinues, GotoContinues DEF AfterCommit, Steps, Verifying

LEMMA EndContinues ==
  ASSUME req \in [Requests -> Request], NEW r \in Requests, ~At(r, "idle"),
         req' = [req EXCEPT ![r] = NoRequest]
  PROVE  Continues(r) /\ req' \in [Requests -> Request]
  BY DEF Continues, At, NoRequest, Request, Steps

\* The row that a commit writes has the type of a row.
LEMMA SavedType ==
  ASSUME Typed, NEW r \in Requests, NEW status \in {"success", "failed"},
         NEW fulfilled \in BOOLEAN
  PROVE  Saved(r, status, fulfilled) \in [RowKeys -> Row \cup {None}]
<1>1. req[r].charge \in Charges \cup {None}
  BY DEF Typed, TypeOK, Request
<1>2. [charge |-> req[r].charge, status |-> status, fulfilled |-> fulfilled] \in Row
  BY <1>1 DEF Row
<1>3. QED
  BY <1>2 DEF Saved, Typed, TypeOK

LEMMA ArriveTyped ==
  ASSUME Typed, NEW r \in Requests, Arrive(r)
  PROVE  Typed'
<1>1. PICK c \in Charges, source \in {"api", "webhook", "sync"},
            key \in Charges \cup TxRefs, step \in Steps :
              key \in KeysOf(c) /\ Accept(r, source, c, key, step)
  <2>1. PICK c \in Charges :
          Verify(r, c) \/ SyncTransaction(r, c) \/ ReceiveWebhook(r, c)
    BY DEF Arrive
  <2>2. /\ c \in KeysOf(c) /\ Route(c) \in Steps
        /\ KeysOf(c) \in SUBSET (Charges \cup TxRefs)
    BY KeyType DEF Route, Steps, Verifying, Recording
  <2>3. QED
    BY <2>1, <2>2 DEF Verify, SyncTransaction, ReceiveWebhook, Steps, Verifying
<1> DEFINE new == [NoRequest EXCEPT !.source = source, !.charge = c,
                                    !.key = key, !.pc = step]
<1>3. new \in Request /\ new.charge = c /\ new.key = key
  BY DEF NoRequest, Request
<1> HIDE DEF new
<1>4. req' = [req EXCEPT ![r] = new]
  BY <1>1 DEF Accept, new
<1>5. req' \in [Requests -> Request] /\ RequestCharge'
  BY <1>1, <1>3, <1>4 DEF Typed, TypeOK, RequestCharge, At, KeysOf
<1>6. QED
  BY <1>1, <1>5 DEF Accept, Typed, TypeOK

\* Every step of a handler leaves the requests well formed.
LEMMA ProceedContinues ==
  ASSUME Typed, NEW r \in Requests, Proceed(r) \/ Fail(r)
  PROVE  Continues(r) /\ req' \in [Requests -> Request]
<1> USE DEF Typed, TypeOK
<1>1. ~At(r, "idle")
  BY DEF Proceed, ReadEvent, SaveEvent, FinishEvent, LookUp, ReadAccount,
         CheckRegistered, RedeemCode, CommitOnboarding, ReadCatalog, ReadCart,
         CommitCourse, SendMail, LookUpFailed, RecordFailed, At, Fail
<1>2. req[r] \in Request /\ req[r].charge \in Charges /\ Route(req[r].charge) \in Steps
  BY <1>1 DEF RequestCharge, Route, Steps, Verifying, Recording
<1>3. CASE ReadEvent(r)
  <2>1. PICK seen \in BOOLEAN :
           \/ req' = [req EXCEPT ![r] = NoRequest]
           \/ req' = [req EXCEPT ![r].pc = "saveEvent", ![r].seen = seen]
    BY <1>3, Zenon DEF ReadEvent
  <2>2. CASE req' = [req EXCEPT ![r].pc = "saveEvent", ![r].seen = seen]
    BY <1>1, <1>2, <2>2 DEF Continues, Request, Steps, At
  <2>3. QED
    BY <1>1, <2>1, <2>2, EndContinues
<1>4. CASE SaveEvent(r)
  BY <1>1, <1>2, <1>4, EndContinues, GotoContinues DEF SaveEvent
<1>5. CASE FinishEvent(r)
  BY <1>1, <1>5, EndContinues DEF FinishEvent
<1>6. CASE LookUp(r) \/ LookUpFailed(r)
  <2>1. PICK k \in FindExisting(req[r].key, InfoOf(r).ref), step \in {"account", "recordFailed"} :
           \/ Conclude(r, TRUE) \/ Conclude(r, FALSE)
           \/ req' = [req EXCEPT ![r].existing = k, ![r].pc = step]
    BY <1>6 DEF LookUp, LookUpFailed
  <2>2. k \in RowKeys \cup {None}
    BY <1>1, <1>2, KeyType DEF FindExisting, RequestCharge, RowKeys
  <2>3. CASE req' = [req EXCEPT ![r].existing = k, ![r].pc = step]
    BY <1>1, <1>2, <2>2, <2>3 DEF Continues, Request, Steps, Verifying, Recording, At
  <2>4. QED
    BY <1>1, <2>1, <2>3, ConcludeContinues
<1>7. CASE ReadAccount(r)
  BY <1>1, <1>7, ConcludeContinues, GotoContinues
  DEF ReadAccount, Steps, Verifying, InTransaction
<1>8. CASE CheckRegistered(r)
  BY <1>1, <1>8, GotoContinues DEF CheckRegistered, Steps, Verifying, InTransaction
<1>9. CASE RedeemCode(r)
  BY <1>1, <1>9, ConcludeContinues, GotoContinues, AfterCommitContinues
  DEF RedeemCode, Steps, Verifying, InTransaction
<1>10. CASE CommitOnboarding(r)
  BY <1>1, <1>10, ConcludeContinues, AfterCommitContinues DEF CommitOnboarding
<1>11. CASE ReadCatalog(r) \/ ReadCart(r)
  <2>1. PICK step \in {"cart", "commitCourse"} :
           \/ Conclude(r, FALSE)
           \/ req' = [req EXCEPT ![r].owned = OwnedNow(r), ![r].pc = step]
    BY <1>11 DEF ReadCatalog, ReadCart
  <2>2. OwnedNow(r) \in SUBSET Courses
    BY <1>2, ChargeData DEF OwnedNow, InfoOf
  <2>3. CASE req' = [req EXCEPT ![r].owned = OwnedNow(r), ![r].pc = step]
    BY <1>1, <1>2, <2>2, <2>3 DEF Continues, Request, Steps, Verifying, InTransaction, At
  <2>4. QED
    BY <1>1, <2>1, <2>3, ConcludeContinues
<1>12. CASE CommitCourse(r)
  BY <1>1, <1>12, ConcludeContinues, AfterCommitContinues DEF CommitCourse
<1>13. CASE SendMail(r) \/ RecordFailed(r)
  BY <1>1, <1>13, ConcludeContinues DEF SendMail, RecordFailed
<1>14. CASE Fail(r)
  <2>1. CASE req' = [req EXCEPT ![r] = NoRequest] \/ Conclude(r, FALSE)
    BY <1>1, <2>1, EndContinues, ConcludeContinues
  <2>2. CASE At(r, "finish") /\ req' = [req EXCEPT ![r] = [req[r] EXCEPT !.ok = FALSE]]
    BY <1>1, <1>2, <2>2 DEF Continues, Request, At
  <2>3. QED
    BY <1>14, <2>1, <2>2 DEF Fail
<1>15. QED
  BY <1>3, <1>4, <1>5, <1>6, <1>7, <1>8, <1>9, <1>10, <1>11, <1>12, <1>13, <1>14
  DEF Proceed

LEMMA ProceedTyped ==
  ASSUME Typed, NEW r \in Requests, Proceed(r) \/ Fail(r)
  PROVE  Typed'
<1>1. RequestCharge' /\ req' \in [Requests -> Request]
  BY ProceedContinues, ContinuesCharge DEF Typed
<1>2. ~At(r, "idle")
  BY DEF Proceed, ReadEvent, SaveEvent, FinishEvent, LookUp, ReadAccount,
         CheckRegistered, RedeemCode, CommitOnboarding, ReadCatalog, ReadCart,
         CommitCourse, SendMail, LookUpFailed, RecordFailed, At, Fail
<1>3. req[r].charge \in Charges
  BY <1>2 DEF Typed, RequestCharge
<1>4. /\ Saved(r, "success", TRUE) \in [RowKeys -> Row \cup {None}]
      /\ Saved(r, "failed", FALSE) \in [RowKeys -> Row \cup {None}]
  BY SavedType
<1> USE DEF Typed, TypeOK
<1>5. CASE ReadEvent(r) \/ LookUp(r) \/ LookUpFailed(r) \/ ReadAccount(r)
           \/ CheckRegistered(r) \/ ReadCatalog(r) \/ ReadCart(r)
  BY <1>1, <1>5 DEF ReadEvent, LookUp, LookUpFailed, ReadAccount, CheckRegistered,
                    ReadCatalog, ReadCart
<1>6. CASE SaveEvent(r) \/ FinishEvent(r)
  BY <1>1, <1>6 DEF SaveEvent, FinishEvent
<1>7. CASE RedeemCode(r)
  <2>1. InfoOf(r).student \in Students /\ InfoOf(r).code \in Codes
    BY <1>3, ChargeData DEF InfoOf
  <2>2. NewAccount(InfoOf(r).code) \in [status : Statuses, code : Codes \cup {None}]
    BY <2>1 DEF NewAccount, Statuses
  <2>3. \/ users' = users
        \/ users' = [users EXCEPT ![InfoOf(r).student] = NewAccount(InfoOf(r).code)]
    BY <1>7 DEF RedeemCode
  <2>4. codes' = codes \/ codes' = [codes EXCEPT ![InfoOf(r).code] = InfoOf(r).student]
    BY <1>7 DEF RedeemCode
  <2>5. txs' = txs \/ txs' = Saved(r, "success", TRUE)
    BY <1>7 DEF RedeemCode
  <2>6. users' \in [Students -> [status : Statuses, code : Codes \cup {None}]]
    BY <2>2, <2>3
  <2>7. codes' \in [Codes -> Students \cup {None}]
    BY <2>1, <2>4
  <2>8. QED
    BY <1>1, <1>4, <1>7, <2>5, <2>6, <2>7 DEF RedeemCode
<1>8. CASE CommitOnboarding(r)
  <2>1. users' = users \/ users' = [users EXCEPT ![InfoOf(r).student].status = "onboarded"]
    BY <1>8 DEF CommitOnboarding
  <2> DEFINE account == [users[InfoOf(r).student] EXCEPT !.status = "onboarded"]
  <2>2. users[InfoOf(r).student] \in [status : Statuses, code : Codes \cup {None}]
    BY <1>3, ChargeData DEF InfoOf
  <2>3. account \in [status : Statuses, code : Codes \cup {None}]
    BY <2>2 DEF Statuses
  <2>4. users' = users \/ users' = [users EXCEPT ![InfoOf(r).student] = account]
    BY <2>1
  <2> HIDE DEF account
  <2>5. users' \in [Students -> [status : Statuses, code : Codes \cup {None}]]
    BY <2>3, <2>4
  <2>6. QED
    BY <1>1, <1>4, <1>8, <2>5 DEF CommitOnboarding
<1>9. CASE CommitCourse(r)
  <2>1. RowOf(r) \in RowKeys \cup {None}
    BY DEF RowOf, Request, RowKeys
  <2>2. [enrollments EXCEPT ![InfoOf(r).student] =
           [k \in Courses |-> IF k \in NewCourses(r)
                              THEN RowOf(r) ELSE enrollments[InfoOf(r).student][k]]]
          \in [Students -> [Courses -> RowKeys \cup {None}]]
    BY <1>3, <2>1, ChargeData DEF InfoOf
  <2>3. QED
    BY <1>1, <1>4, <1>9, <2>2 DEF CommitCourse
<1>10. CASE SendMail(r)
  <2>1. PICK n \in {1, 2} : mails' = [mails EXCEPT ![req[r].charge] = n]
    <3>1. CASE mails[req[r].charge] = 0
      BY <1>10, <3>1 DEF SendMail
    <3>2. CASE mails[req[r].charge] # 0
      BY <1>10, <3>2 DEF SendMail
    <3>3. QED
      BY <3>1, <3>2
  <2>2. n \in 0..2
    OBVIOUS
  <2> DEFINE counts == 0..2
  <2> HIDE DEF counts
  <2>3. mails \in [Charges -> counts] /\ n \in counts
    BY <2>2 DEF counts
  <2>4. mails' \in [Charges -> counts]
    BY <2>1, <2>3
  <2>5. QED
    BY <1>1, <1>10, <2>4 DEF SendMail, counts
<1>11. CASE RecordFailed(r)
  BY <1>1, <1>4, <1>11 DEF RecordFailed
<1>12. CASE Fail(r)
  BY <1>1, <1>12, HandlerAssumption DEF Fail
<1>13. QED
  BY <1>5, <1>6, <1>7, <1>8, <1>9, <1>10, <1>11, <1>12 DEF Proceed

LEMMA EnrollFreeTyped ==
  ASSUME Typed, NEW s \in Students, NEW courses \in SUBSET Courses, EnrollFree(s, courses)
  PROVE  Typed'
<1> DEFINE row == [charge |-> None, status |-> "success", fulfilled |-> TRUE]
<1>1. row \in Row
  BY DEF Row
<1> HIDE DEF row
<1>2. txs' \in [RowKeys -> Row \cup {None}]
  BY <1>1 DEF EnrollFree, Typed, TypeOK, row
<1>3. \A k \in courses : <<s, k>> \in RowKeys
  BY DEF RowKeys, FreeKeys
<1>4. [k \in Courses |-> IF k \in courses THEN <<s, k>> ELSE enrollments[s][k]]
        \in [Courses -> RowKeys \cup {None}]
  BY <1>3 DEF Typed, TypeOK
<1>5. enrollments' \in [Students -> [Courses -> RowKeys \cup {None}]]
  BY <1>4 DEF EnrollFree, Typed, TypeOK
<1>6. QED
  BY <1>2, <1>5 DEF EnrollFree, Typed, TypeOK, RequestCharge, At, KeysOf

LEMMA InitTyped == Init => Typed
<1> SUFFICES ASSUME Init PROVE Typed
  OBVIOUS
<1>1. NoRequest \in Request
  BY DEF NoRequest, Request, Steps
<1>2. \A r \in Requests : At(r, "idle")
  BY DEF Init, At, NoRequest
<1>3. TypeOK
  BY <1>1, TypeAssumption, HandlerAssumption DEF Init, TypeOK, Statuses
<1>4. QED
  BY <1>2, <1>3 DEF Typed, RequestCharge

LEMMA NextTyped == Typed /\ [Next]_vars => Typed'
<1> SUFFICES ASSUME Typed, [Next]_vars PROVE Typed'
  OBVIOUS
<1>1. ASSUME NEW r \in Requests, Arrive(r) \/ Proceed(r) \/ Fail(r) PROVE Typed'
  BY <1>1, ArriveTyped, ProceedTyped
<1>2. ASSUME NEW s \in Students, NEW courses \in SUBSET Courses, EnrollFree(s, courses)
      PROVE  Typed'
  BY <1>2, EnrollFreeTyped
<1>3. CASE Restart
  <2>1. NoRequest \in Request
    BY DEF NoRequest, Request, Steps
  <2>2. QED
    BY <1>3, <2>1, HandlerAssumption
    DEF Restart, Typed, TypeOK, RequestCharge, At, NoRequest
<1>4. CASE UNCHANGED vars
  BY <1>4 DEF vars, Typed, TypeOK, RequestCharge, At, KeysOf
<1>5. QED
  BY <1>1, <1>2, <1>3, <1>4 DEF Next

\* The variables keep their types in every reachable state: the tables hold
\* rows, and a handler in flight holds a charge that exists.
THEOREM TypeCorrect == Spec => []TypeOK
<1>1. Spec => []Typed
  BY InitTyped, NextTyped, PTL DEF Spec
<1>2. Typed => TypeOK
  BY DEF Typed
<1>3. QED
  BY <1>1, <1>2, PTL

-----------------------------------------------------------------------------
(* Safety.  None of the properties is inductive: what a handler may write  *)
(* depends on what it read several steps before.  RequestsMatch says what  *)
(* each handler still knows of what it read, RowsMatch how a row's key and *)
(* the charge in it are related; Safe joins them to the properties.        *)

\* The checkout that a row's external id belongs to.
KeyRef(k) == IF k \in Charges THEN Info[k].ref ELSE k

\* A free row has no charge; any other holds a charge of its key's checkout.
RowMatches(k) ==
  Exists(k) => IF k \in FreeKeys
               THEN txs[k].charge = None
               ELSE txs[k].charge \in Charges /\ Info[txs[k].charge].ref = KeyRef(k)

RowsMatch == \A k \in RowKeys : RowMatches(k)

RequestMatches(r) ==
  /\ req[r].pc \in Verifying => InfoOf(r).outcome = "successful"
  /\ req[r].pc # "idle" /\ req[r].existing # None =>
       req[r].existing \notin FreeKeys /\ KeyRef(req[r].existing) = InfoOf(r).ref
  /\ req[r].pc \in {"register", "redeem", "commitOnboarding"} =>
       InfoOf(r).paidFor = "onboarding" /\ Paid(req[r].charge)
  /\ req[r].pc = "commitOnboarding" => StatusOf(InfoOf(r).student) # "none"
  /\ req[r].pc \in {"catalog", "cart", "commitCourse"} =>
       InfoOf(r).paidFor = "course" /\ StatusOf(InfoOf(r).student) = "onboarded"
  /\ req[r].pc \in {"cart", "commitCourse"} => Paid(req[r].charge)
  /\ req[r].pc = "commitCourse" =>
       \A k \in req[r].owned : Enrolled(InfoOf(r).student, k)
  /\ req[r].pc = "mail" \/ (req[r].pc = "finish" /\ req[r].ok) =>
       Entitled(req[r].charge)

RequestsMatch == \A r \in Requests : RequestMatches(r)

\* A student without an account has redeemed no code.
NewHasNoCode == \A s \in Students : StatusOf(s) = "none" => users[s].code = None

Safe ==
  /\ Typed
  /\ RowsMatch
  /\ RequestsMatch
  /\ NewHasNoCode
  /\ CodeOpensOneAccount
  /\ OnboardingPaid
  /\ EnrollmentPaid
  /\ FulfilledIsEntitled
  /\ CompleteEventIsEntitled

-----------------------------------------------------------------------------
(* What is granted stays granted.                                          *)

Grows ==
  \A s \in Students :
    /\ StatusOf(s) # "none" => StatusOf(s)' # "none"
    /\ StatusOf(s) = "onboarded" => StatusOf(s)' = "onboarded"
    /\ \A k \in Courses : Enrolled(s, k) => Enrolled(s, k)'

\* A step that leaves accounts and enrolments alone.
LEMMA QuietGrows ==
  ASSUME UNCHANGED <<users, enrollments>>
  PROVE  Grows
  BY DEF Grows, StatusOf, Enrolled

\* The three commits only add to what the student has.
LEMMA RedeemGrows ==
  ASSUME Typed, NEW r \in Requests, RedeemCode(r)
  PROVE  Grows
<1>1. CASE UNCHANGED users
  BY <1>1, QuietGrows DEF RedeemCode
<1>2. CASE users' = [users EXCEPT ![InfoOf(r).student] = NewAccount(InfoOf(r).code)]
  <2>1. \A s \in Students : users'[s] = users[s] \/ users'[s].status = "onboarded"
    BY <1>2 DEF NewAccount, Typed, TypeOK
  <2>2. UNCHANGED enrollments
    BY DEF RedeemCode
  <2>3. QED
    BY <2>1, <2>2 DEF Grows, StatusOf, Enrolled
<1>3. QED
  BY <1>1, <1>2 DEF RedeemCode

LEMMA OnboardGrows ==
  ASSUME Typed, NEW r \in Requests, CommitOnboarding(r)
  PROVE  Grows
<1>1. CASE UNCHANGED users
  BY <1>1, QuietGrows DEF CommitOnboarding
<1>2. CASE users' = [users EXCEPT ![InfoOf(r).student].status = "onboarded"]
  <2>1. \A s \in Students : users'[s] = users[s] \/ users'[s].status = "onboarded"
    BY <1>2 DEF Typed, TypeOK
  <2>2. UNCHANGED enrollments
    BY DEF CommitOnboarding
  <2>3. QED
    BY <2>1, <2>2 DEF Grows, StatusOf, Enrolled
<1>3. QED
  BY <1>1, <1>2 DEF CommitOnboarding

\* A payment row is written under a key that exists.
LEMMA RowOfType ==
  ASSUME Typed, NEW r \in Requests, ~At(r, "idle")
  PROVE  /\ RowOf(r) \in RowKeys /\ RowOf(r) # None
         /\ req[r].charge \in Charges /\ req[r].key \in KeysOf(req[r].charge)
<1>1. req[r].charge \in Charges /\ req[r].key \in KeysOf(req[r].charge)
  BY DEF Typed, RequestCharge
<1>2. req[r].key \in RowKeys /\ req[r].existing \in RowKeys \cup {None}
  BY <1>1, KeyType DEF RowKeys, Typed, TypeOK, Request
<1>3. QED
  BY <1>1, <1>2, KeyAssumption DEF RowOf

LEMMA CourseGrows ==
  ASSUME Typed, NEW r \in Requests, CommitCourse(r)
  PROVE  Grows
<1>1. CASE UNCHANGED enrollments
  BY <1>1, QuietGrows DEF CommitCourse
<1>2. CASE enrollments' = [enrollments EXCEPT ![InfoOf(r).student] =
             [k \in Courses |-> IF k \in NewCourses(r)
                                THEN RowOf(r)
                                ELSE enrollments[InfoOf(r).student][k]]]
  <2>1. RowOf(r) # None
    BY RowOfType DEF CommitCourse, At
  <2>2. \A s \in Students, k \in Courses :
          enrollments'[s][k] = enrollments[s][k] \/ enrollments'[s][k] = RowOf(r)
    BY <1>2 DEF Typed, TypeOK
  <2>3. UNCHANGED users
    BY DEF CommitCourse
  <2>4. QED
    BY <2>1, <2>2, <2>3 DEF Grows, StatusOf, Enrolled
<1>3. QED
  BY <1>1, <1>2 DEF CommitCourse

LEMMA FreeGrows ==
  ASSUME Typed, NEW s \in Students, NEW courses \in SUBSET Courses,
         EnrollFree(s, courses)
  PROVE  Grows
<1>1. \A t \in Students, k \in Courses :
        enrollments'[t][k] = enrollments[t][k] \/ enrollments'[t][k] = <<s, k>>
  BY DEF EnrollFree, Typed, TypeOK
<1>2. \A k \in Courses : <<s, k>> # None
  BY KeyAssumption DEF RowKeys, FreeKeys
<1>3. QED
  BY <1>1, <1>2 DEF EnrollFree, Grows, StatusOf, Enrolled

LEMMA NextGrows == Typed /\ [Next]_vars => Grows
<1> SUFFICES ASSUME Typed, [Next]_vars PROVE Grows
  OBVIOUS
<1>1. ASSUME NEW r \in Requests, Arrive(r) PROVE Grows
  BY <1>1, QuietGrows DEF Arrive, Verify, SyncTransaction, ReceiveWebhook, Accept
<1>2. ASSUME NEW r \in Requests, Proceed(r) PROVE Grows
  <2>1. CASE RedeemCode(r) \/ CommitOnboarding(r) \/ CommitCourse(r)
    BY <2>1, RedeemGrows, OnboardGrows, CourseGrows
  <2>2. CASE ReadEvent(r) \/ SaveEvent(r) \/ FinishEvent(r) \/ LookUp(r)
             \/ ReadAccount(r) \/ CheckRegistered(r) \/ ReadCatalog(r) \/ ReadCart(r)
             \/ SendMail(r) \/ LookUpFailed(r) \/ RecordFailed(r)
    BY <2>2, QuietGrows
    DEF ReadEvent, SaveEvent, FinishEvent, LookUp, ReadAccount, CheckRegistered,
        ReadCatalog, ReadCart, SendMail, LookUpFailed, RecordFailed
  <2>3. QED
    BY <1>2, <2>1, <2>2 DEF Proceed
<1>3. CASE (\E r \in Requests : Fail(r)) \/ Restart \/ UNCHANGED vars
  BY <1>3, QuietGrows DEF Fail, Restart, vars
<1>4. CASE \E s \in Students, courses \in SUBSET Courses : EnrollFree(s, courses)
  BY <1>4, FreeGrows
<1>5. QED
  BY <1>1, <1>2, <1>3, <1>4 DEF Next

LEMMA EntitledStays ==
  ASSUME Grows, NEW c \in Charges, Entitled(c)
  PROVE  Entitled(c)'
  BY ChargeData DEF Grows, Entitled

-----------------------------------------------------------------------------
(* Rows.                                                                   *)

\* A handler writes a row of its own charge's checkout.
LEMMA RowOfRef ==
  ASSUME Typed, NEW r \in Requests, ~At(r, "idle"), RequestMatches(r)
  PROVE  RowOf(r) \notin FreeKeys /\ KeyRef(RowOf(r)) = InfoOf(r).ref
<1>1. req[r].charge \in Charges /\ req[r].key \in {req[r].charge, InfoOf(r).ref}
  BY RowOfType DEF KeysOf, InfoOf
<1>2. InfoOf(r).ref \in TxRefs
  BY <1>1, ChargeData DEF InfoOf
<1>3. CASE req[r].existing = None
  BY <1>1, <1>2, <1>3, KeyAssumption DEF RowOf, KeyRef, InfoOf
<1>4. CASE req[r].existing # None
  BY <1>4 DEF RowOf, RequestMatches, At
<1>5. QED
  BY <1>3, <1>4

\* What a commit leaves in the table of payments.
LEMMA SavedRow ==
  ASSUME Typed, NEW r \in Requests, ~At(r, "idle"), NEW status, NEW fulfilled,
         txs' = Saved(r, status, fulfilled)
  PROVE  /\ txs'[RowOf(r)] = [charge |-> req[r].charge, status |-> status,
                              fulfilled |-> fulfilled]
         /\ \A k \in RowKeys \ {RowOf(r)} : txs'[k] = txs[k]
  BY RowOfType DEF Saved, Typed, TypeOK

LEMMA SavedMatches ==
  ASSUME Typed, RowsMatch, NEW r \in Requests, ~At(r, "idle"), RequestMatches(r),
         NEW status, NEW fulfilled, txs' = Saved(r, status, fulfilled)
  PROVE  RowsMatch'
<1> SUFFICES ASSUME NEW k \in RowKeys PROVE RowMatches(k)'
  BY DEF RowsMatch
<1>1. CASE k = RowOf(r)
  <2> DEFINE row == [charge |-> req[r].charge, status |-> status, fulfilled |-> fulfilled]
  <2>0. txs'[k] = row
    BY <1>1, SavedRow
  <2>1. txs'[k].charge = req[r].charge /\ req[r].charge \in Charges
    BY <2>0, RowOfType
  <2>2. k \notin FreeKeys /\ KeyRef(k) = Info[req[r].charge].ref
    BY <1>1, RowOfRef DEF InfoOf
  <2>3. QED
    BY <2>1, <2>2 DEF RowMatches, KeyRef
<1>2. CASE k # RowOf(r)
  <2>1. txs'[k] = txs[k]
    BY <1>2, SavedRow
  <2>2. QED
    BY <2>1 DEF RowsMatch, RowMatches, Exists, KeyRef
<1>3. QED
  BY <1>1, <1>2

\* A row found for a request holds a charge of the request's checkout.
LEMMA FoundMatches ==
  ASSUME Typed, RowsMatch, NEW r \in Requests, ~At(r, "idle"),
         NEW k \in FindExisting(req[r].key, InfoOf(r).ref), k # None
  PROVE  /\ k \in RowKeys /\ Exists(k) /\ k \notin FreeKeys
         /\ KeyRef(k) = InfoOf(r).ref
         /\ txs[k].charge \in Charges /\ Info[txs[k].charge].ref = InfoOf(r).ref
<1>1. req[r].charge \in Charges /\ req[r].key \in {req[r].charge, InfoOf(r).ref}
  BY RowOfType DEF KeysOf, InfoOf
<1>2. InfoOf(r).ref \in TxRefs
  BY <1>1, ChargeData DEF InfoOf
<1>3. CASE Exists(req[r].key)
  <2>1. k = req[r].key
    BY <1>3 DEF FindExisting
  <2>2. k \in RowKeys /\ k \notin FreeKeys /\ KeyRef(k) = InfoOf(r).ref
    BY <1>1, <1>2, <2>1, KeyAssumption DEF RowKeys, KeyRef, InfoOf
  <2>3. QED
    BY <1>3, <2>1, <2>2 DEF RowsMatch, RowMatches
<1>4. CASE ~Exists(req[r].key)
  <2>1. k \in RowKeys /\ HasRef(k, InfoOf(r).ref)
    BY <1>4 DEF FindExisting
  <2>2. Exists(k) /\ txs[k].charge # None /\ Info[txs[k].charge].ref = InfoOf(r).ref
    BY <2>1 DEF HasRef
  <2>3. k \notin FreeKeys /\ txs[k].charge \in Charges /\ KeyRef(k) = InfoOf(r).ref
    BY <2>1, <2>2 DEF RowsMatch, RowMatches
  <2>4. QED
    BY <2>1, <2>2, <2>3
<1>5. QED
  BY <1>3, <1>4

\* The attempts on one checkout buy the same thing for the same student.
LEMMA SameCheckout ==
  ASSUME NEW c \in Charges, NEW d \in Charges, Info[c].ref = Info[d].ref, Entitled(c)
  PROVE  Entitled(d)
  BY CheckoutAssumption DEF Entitled

-----------------------------------------------------------------------------
(* Requests.                                                               *)

\* A request that is left alone still matches: accounts and enrolments grow.
LEMMA KeepsMatch ==
  ASSUME Typed, Grows, NEW q \in Requests, RequestMatches(q), req'[q] = req[q]
  PROVE  RequestMatches(q)'
<1>1. CASE req[q].pc = "idle"
  BY <1>1 DEF RequestMatches, Verifying, InTransaction
<1>2. CASE req[q].pc # "idle"
  <2>1. req[q].charge \in Charges /\ InfoOf(q).student \in Students
    BY <1>2, ChargeData DEF Typed, RequestCharge, At, InfoOf
  <2>2. req[q].owned \in SUBSET Courses
    BY DEF Typed, TypeOK, Request
  <2>3. PICK c \in Charges, s \in Students, owned \in SUBSET Courses :
          /\ c = req[q].charge /\ s = InfoOf(q).student /\ owned = req[q].owned
    BY <2>1, <2>2
  <2>4. Entitled(c) => Entitled(c)'
    BY EntitledStays
  <2>5. /\ StatusOf(s) # "none" => StatusOf(s)' # "none"
        /\ StatusOf(s) = "onboarded" => StatusOf(s)' = "onboarded"
        /\ \A k \in owned : Enrolled(s, k) => Enrolled(s, k)'
    BY DEF Grows
  <2>6. /\ req'[q].charge = c /\ InfoOf(q)' = Info[c] /\ InfoOf(q) = Info[c]
        /\ Info[c].student = s /\ req'[q].owned = owned
        /\ req'[q].pc = req[q].pc /\ req'[q].ok = req[q].ok
        /\ req'[q].existing = req[q].existing
    BY <2>3 DEF InfoOf
  <2>7. (StatusOf(InfoOf(q).student) = StatusOf(s))
        /\ (StatusOf(InfoOf(q).student))' = StatusOf(s)'
    BY <2>6 DEF StatusOf
  <2>8. \A k \in owned : /\ Enrolled(InfoOf(q).student, k) = Enrolled(s, k)
                        /\ Enrolled(InfoOf(q).student, k)' = Enrolled(s, k)'
    BY <2>6 DEF Enrolled
  <2>9. QED
    BY <2>3, <2>4, <2>5, <2>6, <2>7, <2>8 DEF RequestMatches, KeyRef, Paid, Due
<1>3. QED
  BY <1>1, <1>2

\* A handler may end well once its student has what was paid for.
LEMMA ConcludeMatches ==
  ASSUME Typed, NEW r \in Requests, ~At(r, "idle"), RequestMatches(r),
         NEW ok \in BOOLEAN, Conclude(r, ok),
         NEW c \in Charges, c = req[r].charge, ok => Entitled(c)'
  PROVE  RequestMatches(r)'
<1>1. CASE req[r].source = "webhook"
  <2>1. req'[r] = [req[r] EXCEPT !.pc = "finish", !.ok = ok]
    BY <1>1 DEF Conclude, Typed, TypeOK
  <2>2. /\ req'[r].pc = "finish" /\ req'[r].ok = ok
        /\ req'[r].charge = c /\ req'[r].existing = req[r].existing
    BY <2>1 DEF Typed, TypeOK, Request
  <2>3. ok => Entitled(req[r].charge)'
    BY <2>2 DEF Entitled, StatusOf, Enrolled
  <2>4. QED
    BY <2>2, <2>3 DEF RequestMatches, Verifying, InTransaction, InfoOf, At, KeyRef
<1>2. CASE req[r].source # "webhook"
  <2>1. req'[r] = NoRequest
    BY <1>2 DEF Conclude, Typed, TypeOK
  <2>2. QED
    BY <2>1 DEF NoRequest, RequestMatches, Verifying, InTransaction
<1>3. QED
  BY <1>1, <1>2

LEMMA GotoFields ==
  ASSUME Typed, NEW r \in Requests, NEW step, Goto(r, step)
  PROVE  /\ req'[r].pc = step /\ req'[r].charge = req[r].charge
         /\ req'[r].existing = req[r].existing /\ req'[r].owned = req[r].owned
  BY DEF Goto, Typed, TypeOK, Request

LEMMA EndMatches ==
  ASSUME Typed, NEW r \in Requests, req' = [req EXCEPT ![r] = NoRequest]
  PROVE  RequestMatches(r)'
<1>1. req'[r] = NoRequest
  BY DEF Typed, TypeOK
<1>2. QED
  BY <1>1 DEF NoRequest, RequestMatches, Verifying, InTransaction

\* The look-up: an answer that all is done already is true, and a row that is
\* taken along belongs to the charge's checkout.
LEMMA LookUpMatches ==
  ASSUME Typed, RowsMatch, FulfilledIsEntitled, Grows, NEW r \in Requests,
         RequestMatches(r), LookUp(r) \/ LookUpFailed(r)
  PROVE  RequestMatches(r)'
<1>1. ~At(r, "idle") /\ req[r].charge \in Charges
  BY RowOfType DEF LookUp, LookUpFailed, At
<1>2. PICK c \in Charges : c = req[r].charge
  BY <1>1
<1>3. PICK k \in FindExisting(req[r].key, InfoOf(r).ref) :
        \/ k # None /\ Fulfilled(k) /\ Conclude(r, TRUE)
        \/ Conclude(r, FALSE)
        \/ req' = [req EXCEPT ![r].existing = k, ![r].pc = "account"] /\ LookUp(r)
        \/ req' = [req EXCEPT ![r].existing = k, ![r].pc = "recordFailed"]
  BY DEF LookUp, LookUpFailed
<1>4. CASE k # None /\ Fulfilled(k) /\ Conclude(r, TRUE)
  <2>1. /\ k \in RowKeys /\ txs[k].charge \in Charges
        /\ Info[txs[k].charge].ref = Info[c].ref
    BY <1>1, <1>2, <1>4, FoundMatches DEF InfoOf
  <2>2. Entitled(txs[k].charge)
    BY <1>4, <2>1, KeyAssumption DEF FulfilledIsEntitled, RowKeys
  <2>3. Entitled(c)
    BY <2>1, <2>2, SameCheckout
  <2>4. Entitled(c)'
    BY <2>3, EntitledStays
  <2>5. QED
    BY <1>1, <1>2, <1>4, <2>4, ConcludeMatches
<1>5. CASE Conclude(r, FALSE)
  BY <1>1, <1>2, <1>5, ConcludeMatches
<1>6. CASE req' = [req EXCEPT ![r].existing = k, ![r].pc = "account"] /\ LookUp(r)
  <2>1. req'[r].pc = "account" /\ req'[r].existing = k /\ req'[r].charge = req[r].charge
    BY <1>6 DEF Typed, TypeOK, Request
  <2>2. k # None => k \notin FreeKeys /\ KeyRef(k) = InfoOf(r).ref
    BY <1>1, FoundMatches
  <2>3. InfoOf(r).outcome = "successful"
    BY <1>6 DEF LookUp, RequestMatches, At, Verifying
  <2>4. QED
    BY <2>1, <2>2, <2>3 DEF RequestMatches, InfoOf, KeyRef
<1>7. CASE req' = [req EXCEPT ![r].existing = k, ![r].pc = "recordFailed"]
  <2>1. /\ req'[r].pc = "recordFailed" /\ req'[r].existing = k
        /\ req'[r].charge = req[r].charge
    BY <1>7 DEF Typed, TypeOK, Request
  <2>2. k # None => k \notin FreeKeys /\ KeyRef(k) = InfoOf(r).ref
    BY <1>1, FoundMatches
  <2>3. QED
    BY <2>1, <2>2 DEF RequestMatches, InfoOf, KeyRef, Verifying, InTransaction
<1>8. QED
  BY <1>3, <1>4, <1>5, <1>6, <1>7

\* The event row decides nothing but the handler.
LEMMA EventMatches ==
  ASSUME Typed, NEW r \in Requests, RequestMatches(r),
         ReadEvent(r) \/ SaveEvent(r) \/ FinishEvent(r)
  PROVE  RequestMatches(r)'
<1>1. CASE req' = [req EXCEPT ![r] = NoRequest]
  BY <1>1, EndMatches
<1>2. CASE ReadEvent(r) /\ req'[r].pc = "saveEvent"
  <2>1. req'[r].charge = req[r].charge /\ req'[r].existing = req[r].existing
    <3>1. PICK seen : req' = [req EXCEPT ![r].pc = "saveEvent", ![r].seen = seen]
      <4>1. req' # [req EXCEPT ![r] = NoRequest]
        BY <1>2 DEF NoRequest, Typed, TypeOK
      <4>2. QED
        BY <1>2, <4>1 DEF ReadEvent
    <3>2. QED
      BY <3>1 DEF Typed, TypeOK, Request
  <2>2. QED
    BY <1>2, <2>1
    DEF RequestMatches, ReadEvent, At, InfoOf, KeyRef, Verifying, InTransaction
<1>3. CASE SaveEvent(r) /\ Goto(r, Route(req[r].charge))
  BY <1>3, GotoFields
  DEF SaveEvent, RequestMatches, Route, At, InfoOf, KeyRef, Verifying, InTransaction
<1>4. QED
  <2>1. CASE ReadEvent(r)
    <3>1. \/ req' = [req EXCEPT ![r] = NoRequest]
          \/ \E seen : req' = [req EXCEPT ![r].pc = "saveEvent", ![r].seen = seen]
      BY <2>1 DEF ReadEvent
    <3>2. req' = [req EXCEPT ![r] = NoRequest] \/ req'[r].pc = "saveEvent"
      BY <3>1 DEF Typed, TypeOK, Request
    <3>3. QED
      BY <1>1, <1>2, <2>1, <3>2
  <2>2. CASE SaveEvent(r) \/ FinishEvent(r)
    BY <1>1, <1>3, <2>2 DEF SaveEvent, FinishEvent
  <2>3. QED
    BY <2>1, <2>2

\* A handler moves on to a step: what it must know there, it knows.
LEMMA GotoMatches ==
  ASSUME Typed, NEW r \in Requests, ~At(r, "idle"), RequestMatches(r),
         NEW c \in Charges, c = req[r].charge,
         NEW step \in {"account", "register", "redeem", "commitOnboarding",
                       "catalog", "mail"},
         Goto(r, step),
         Info[c].outcome = "successful",
         step \in {"register", "redeem", "commitOnboarding"} =>
           Info[c].paidFor = "onboarding" /\ Paid(c),
         step = "commitOnboarding" => StatusOf(Info[c].student)' # "none",
         step = "catalog" =>
           Info[c].paidFor = "course" /\ StatusOf(Info[c].student)' = "onboarded",
         step = "mail" => Entitled(c)'
  PROVE  RequestMatches(r)'
<1>1. /\ req'[r].pc = step /\ req'[r].charge = c
      /\ req'[r].existing = req[r].existing
  BY GotoFields
<1>2. InfoOf(r)' = Info[c] /\ InfoOf(r) = Info[c]
  BY <1>1 DEF InfoOf
<1>3. (StatusOf(InfoOf(r).student))' = StatusOf(Info[c].student)'
  BY <1>2 DEF StatusOf
<1>4. (Entitled(req[r].charge))' = Entitled(c)'
  BY <1>1 DEF Entitled, StatusOf, Enrolled
<1>5. Paid(req[r].charge)' = Paid(c)
  BY <1>1 DEF Paid, Due
<1>6. QED
  BY <1>1, <1>2, <1>3, <1>4, <1>5 DEF RequestMatches, KeyRef, At

LEMMA AfterCommitMatches ==
  ASSUME Typed, NEW r \in Requests, ~At(r, "idle"), RequestMatches(r),
         NEW c \in Charges, c = req[r].charge, Info[c].outcome = "successful",
         NEW notify \in BOOLEAN, AfterCommit(r, notify), Entitled(c)'
  PROVE  RequestMatches(r)'
<1>1. CASE Goto(r, "mail")
  BY <1>1, GotoMatches
<1>2. CASE Conclude(r, TRUE)
  BY <1>2, ConcludeMatches
<1>3. QED
  BY <1>1, <1>2 DEF AfterCommit

\* What a handler past the look-up knows of its charge.
LEMMA ChargeOf ==
  ASSUME Typed, NEW r \in Requests, ~At(r, "idle")
  PROVE  \E c \in Charges : /\ c = req[r].charge /\ InfoOf(r) = Info[c]
                            /\ Info[c].student \in Students
                            /\ Info[c].courses \in SUBSET Courses
                            /\ Info[c].code \in Codes
  BY RowOfType, ChargeData DEF InfoOf

LEMMA AccountMatches ==
  ASSUME Typed, NEW r \in Requests, RequestMatches(r),
         ReadAccount(r) \/ CheckRegistered(r)
  PROVE  RequestMatches(r)'
<1>1. ~At(r, "idle") /\ req[r].pc \in Verifying
  BY DEF ReadAccount, CheckRegistered, At, Verifying, InTransaction
<1>2. PICK c \in Charges : /\ c = req[r].charge /\ InfoOf(r) = Info[c]
                          /\ Info[c].student \in Students
  BY <1>1, ChargeOf
<1>3. Info[c].outcome = "successful" /\ UNCHANGED users
  BY <1>1, <1>2 DEF RequestMatches, ReadAccount, CheckRegistered
<1>4. StatusOf(Info[c].student)' = StatusOf(Info[c].student)
  BY <1>3 DEF StatusOf
<1>5. CASE ReadAccount(r)
  <2>1. CASE Info[c].paidFor = "onboarding" /\ PaysFee(c)
    <3>1. Paid(c)
      BY <1>3, <2>1 DEF Paid, Due, PaysFee
    <3>2. PICK step \in {"register", "commitOnboarding"} :
            Goto(r, step) /\ (step = "commitOnboarding" => StatusOf(Info[c].student) # "none")
      BY <1>2, <1>5, <2>1 DEF ReadAccount
    <3>3. QED
      BY <1>1, <1>2, <1>3, <1>4, <2>1, <3>1, <3>2, GotoMatches
  <2>2. CASE Conclude(r, FALSE)
    BY <1>1, <1>2, <2>2, ConcludeMatches
  <2>3. CASE /\ Goto(r, "catalog") /\ Info[c].paidFor = "course"
             /\ StatusOf(Info[c].student) = "onboarded"
    BY <1>1, <1>2, <1>3, <1>4, <2>3, GotoMatches
  <2>4. QED
    BY <1>2, <1>5, <2>1, <2>2, <2>3 DEF ReadAccount
<1>6. CASE CheckRegistered(r)
  <2>1. Info[c].paidFor = "onboarding" /\ Paid(c)
    BY <1>2, <1>6 DEF CheckRegistered, RequestMatches, At
  <2>2. PICK step \in {"redeem", "commitOnboarding"} :
          Goto(r, step) /\ (step = "commitOnboarding" => StatusOf(Info[c].student) # "none")
    BY <1>2, <1>6 DEF CheckRegistered
  <2>3. QED
    BY <1>1, <1>2, <1>3, <1>4, <2>1, <2>2, GotoMatches
<1>7. QED
  BY <1>5, <1>6

LEMMA OnboardingMatches ==
  ASSUME Typed, Grows, NEW r \in Requests, RequestMatches(r),
         RedeemCode(r) \/ CommitOnboarding(r)
  PROVE  RequestMatches(r)'
<1>1. /\ ~At(r, "idle") /\ req[r].pc \in Verifying
      /\ req[r].pc \in {"redeem", "commitOnboarding"}
  BY DEF RedeemCode, CommitOnboarding, At, Verifying, InTransaction
<1>2. PICK c \in Charges : /\ c = req[r].charge /\ InfoOf(r) = Info[c]
                          /\ Info[c].student \in Students
  BY <1>1, ChargeOf
<1>3. Info[c].outcome = "successful" /\ Info[c].paidFor = "onboarding" /\ Paid(c)
  BY <1>1, <1>2 DEF RequestMatches
<1>4. CASE Conclude(r, FALSE)
  BY <1>1, <1>2, <1>4, ConcludeMatches
<1>5. CASE AfterCommit(r, TRUE) /\ StatusOf(Info[c].student)' = "onboarded"
  <2>1. Entitled(c)'
    BY <1>3, <1>5 DEF Entitled
  <2>2. QED
    BY <1>1, <1>2, <1>3, <1>5, <2>1, AfterCommitMatches
<1>6. CASE Goto(r, "commitOnboarding") /\ StatusOf(Info[c].student) # "none"
  <2>1. StatusOf(Info[c].student)' # "none"
    BY <1>2, <1>6 DEF Grows
  <2>2. QED
    BY <1>1, <1>2, <1>3, <1>6, <2>1, GotoMatches
<1>7. CASE RedeemCode(r)
  <2>1. users' = [users EXCEPT ![Info[c].student] = NewAccount(Info[c].code)]
          => StatusOf(Info[c].student)' = "onboarded"
    BY <1>2 DEF StatusOf, NewAccount, Typed, TypeOK
  <2>2. QED
    BY <1>2, <1>4, <1>5, <1>6, <1>7, <2>1 DEF RedeemCode
<1>8. CASE CommitOnboarding(r)
  <2>1. users' = [users EXCEPT ![Info[c].student].status = "onboarded"]
          => StatusOf(Info[c].student)' = "onboarded"
    BY <1>2 DEF StatusOf, Typed, TypeOK
  <2>2. QED
    BY <1>2, <1>4, <1>5, <1>8, <2>1 DEF CommitOnboarding
<1>9. QED
  BY <1>7, <1>8

\* The courses read as owned are owned, and the price was compared.
LEMMA CatalogMatches ==
  ASSUME Typed, NEW r \in Requests, RequestMatches(r), ReadCatalog(r) \/ ReadCart(r)
  PROVE  RequestMatches(r)'
<1>1. /\ ~At(r, "idle") /\ req[r].pc \in Verifying
      /\ req[r].pc \in {"catalog", "cart"}
  BY DEF ReadCatalog, ReadCart, At, Verifying, InTransaction
<1>2. PICK c \in Charges : /\ c = req[r].charge /\ InfoOf(r) = Info[c]
                          /\ Info[c].student \in Students
  BY <1>1, ChargeOf
<1>3. /\ Info[c].outcome = "successful" /\ Info[c].paidFor = "course"
      /\ StatusOf(Info[c].student) = "onboarded"
  BY <1>1, <1>2 DEF RequestMatches
<1>4. UNCHANGED <<users, enrollments>>
  BY DEF ReadCatalog, ReadCart
<1>5. CASE Conclude(r, FALSE)
  BY <1>1, <1>2, <1>5, ConcludeMatches
<1>6. CASE /\ Paid(c)
           /\ \E step \in {"cart", "commitCourse"} :
                req' = [req EXCEPT ![r].owned = OwnedNow(r), ![r].pc = step]
  <2>1. PICK step \in {"cart", "commitCourse"} :
          req' = [req EXCEPT ![r].owned = OwnedNow(r), ![r].pc = step]
    BY <1>6
  <2>2. /\ req'[r].pc = step /\ req'[r].charge = c
        /\ req'[r].existing = req[r].existing /\ req'[r].owned = OwnedNow(r)
    BY <1>2, <2>1 DEF Typed, TypeOK, Request
  <2>3. InfoOf(r)' = Info[c]
    BY <2>2 DEF InfoOf
  <2>4. \A k \in req'[r].owned : Enrolled(InfoOf(r).student, k)'
    BY <1>2, <1>4, <2>2, <2>3 DEF OwnedNow, Enrolled
  <2>5. (StatusOf(InfoOf(r).student))' = "onboarded"
    BY <1>3, <1>4, <2>3 DEF StatusOf
  <2>6. Paid(req[r].charge)'
    BY <1>6, <2>2 DEF Paid, Due
  <2>7. QED
    BY <1>1, <1>2, <1>3, <2>2, <2>3, <2>4, <2>5, <2>6
    DEF RequestMatches, KeyRef, Verifying, InTransaction
<1>7. CASE ReadCatalog(r)
  <2>1. InfoOf(r).amount >= Total(InfoOf(r).courses) => Paid(c)
    BY <1>2, <1>3 DEF Paid, Due
  <2>2. PICK step \in {"cart", "commitCourse"} :
          \/ Conclude(r, FALSE)
          \/ /\ CatalogAccepts(r)
             /\ req' = [req EXCEPT ![r].owned = OwnedNow(r), ![r].pc = step]
    BY <1>7 DEF ReadCatalog
  <2>3. QED
    BY <1>5, <1>6, <2>1, <2>2 DEF CatalogAccepts
<1>8. CASE ReadCart(r)
  <2>1. Paid(c)
    BY <1>2, <1>8 DEF RequestMatches, ReadCart, At
  <2>2. QED
    BY <1>6, <1>8, <2>1 DEF ReadCart
<1>9. QED
  BY <1>7, <1>8

\* A commit completes the purchase: what it does not insert was owned.
LEMMA CommitCourseEntitles ==
  ASSUME Typed, Grows, NEW r \in Requests, RequestMatches(r), CommitCourse(r),
         NEW c \in Charges, c = req[r].charge,
         enrollments' = [enrollments EXCEPT ![InfoOf(r).student] =
             [k \in Courses |-> IF k \in NewCourses(r)
                                THEN RowOf(r)
                                ELSE enrollments[InfoOf(r).student][k]]]
  PROVE  Entitled(c)'
<1>1. ~At(r, "idle") /\ InfoOf(r) = Info[c]
  BY DEF CommitCourse, At, InfoOf
<1>2. /\ Info[c].student \in Students /\ Info[c].courses \in SUBSET Courses
      /\ Info[c].paidFor = "course"
      /\ \A k \in req[r].owned : Enrolled(Info[c].student, k)
  BY <1>1, ChargeData DEF CommitCourse, At, RequestMatches
<1>3. RowOf(r) # None
  BY <1>1, RowOfType
<1>4. ASSUME NEW k \in Info[c].courses PROVE Enrolled(Info[c].student, k)'
  <2>1. CASE k \in req[r].owned
    BY <1>2, <2>1 DEF Grows
  <2>2. CASE k \notin req[r].owned
    <3>1. k \in NewCourses(r) /\ k \in Courses
      BY <1>1, <1>2, <2>2 DEF NewCourses
    <3>2. enrollments'[Info[c].student][k] = RowOf(r)
      BY <1>1, <1>2, <3>1 DEF Typed, TypeOK
    <3>3. QED
      BY <1>3, <3>2 DEF Enrolled
  <2>3. QED
    BY <2>1, <2>2
<1>5. QED
  BY <1>2, <1>4 DEF Entitled

LEMMA CommitCourseMatches ==
  ASSUME Typed, Grows, NEW r \in Requests, RequestMatches(r), CommitCourse(r)
  PROVE  RequestMatches(r)'
<1>1. ~At(r, "idle") /\ req[r].pc \in Verifying
  BY DEF CommitCourse, At, Verifying, InTransaction
<1>2. PICK c \in Charges : c = req[r].charge /\ InfoOf(r) = Info[c]
  BY <1>1, ChargeOf
<1>3. Info[c].outcome = "successful"
  BY <1>1, <1>2 DEF RequestMatches
<1>4. CASE Conclude(r, FALSE)
  BY <1>1, <1>2, <1>4, ConcludeMatches
<1>5. CASE CanSave(r) /\ InsertsUnique(r)
  <2>1. Entitled(c)'
    BY <1>2, <1>5, CommitCourseEntitles DEF CommitCourse
  <2>2. QED
    BY <1>1, <1>2, <1>3, <1>5, <2>1, AfterCommitMatches DEF CommitCourse
<1>6. QED
  BY <1>4, <1>5 DEF CommitCourse

LEMMA EndingMatches ==
  ASSUME Typed, Grows, NEW r \in Requests, RequestMatches(r),
         SendMail(r) \/ RecordFailed(r) \/ Fail(r)
  PROVE  RequestMatches(r)'
<1>1. ~At(r, "idle")
  BY DEF SendMail, RecordFailed, Fail, At
<1>2. PICK c \in Charges : c = req[r].charge /\ InfoOf(r) = Info[c]
  BY <1>1, ChargeOf
<1>3. CASE SendMail(r)
  <2>1. Entitled(c)
    BY <1>2, <1>3 DEF SendMail, RequestMatches, At
  <2>2. Entitled(c)'
    BY <2>1, EntitledStays
  <2>3. QED
    BY <1>1, <1>2, <1>3, <2>2, ConcludeMatches DEF SendMail
<1>4. CASE Conclude(r, FALSE)
  BY <1>1, <1>2, <1>4, ConcludeMatches
<1>5. CASE req' = [req EXCEPT ![r] = NoRequest]
  BY <1>5, EndMatches
<1>6. CASE At(r, "finish") /\ req' = [req EXCEPT ![r] = [req[r] EXCEPT !.ok = FALSE]]
  <2>1. /\ req'[r].pc = "finish" /\ req'[r].ok = FALSE
        /\ req'[r].charge = req[r].charge /\ req'[r].existing = req[r].existing
    BY <1>6 DEF At, Typed, TypeOK, Request
  <2>2. QED
    BY <1>6, <2>1 DEF RequestMatches, Verifying, InTransaction, InfoOf, At, KeyRef
<1>7. QED
  BY <1>3, <1>4, <1>5, <1>6 DEF RecordFailed, Fail

LEMMA ArriveMatches ==
  ASSUME Typed, NEW r \in Requests, Arrive(r)
  PROVE  RequestMatches(r)'
<1>1. PICK c \in Charges, step \in {"event", "lookup", "lookupFailed"},
           source \in {"api", "webhook", "sync"}, key \in Charges \cup TxRefs :
        /\ Accept(r, source, c, key, step)
        /\ step = "lookup" => Info[c].outcome = "successful"
  <2>1. PICK c \in Charges :
          Verify(r, c) \/ SyncTransaction(r, c) \/ ReceiveWebhook(r, c)
    BY DEF Arrive
  <2>2. KeysOf(c) \in SUBSET (Charges \cup TxRefs)
    BY KeyType
  <2>3. QED
    BY <2>1, <2>2 DEF Verify, SyncTransaction, ReceiveWebhook, Route
<1> DEFINE new == [NoRequest EXCEPT !.source = source, !.charge = c,
                                    !.key = key, !.pc = step]
<1>2. new.pc = step /\ new.charge = c /\ new.existing = None
  BY DEF NoRequest
<1> HIDE DEF new
<1>3. req'[r] = new
  BY <1>1 DEF Accept, new, Typed, TypeOK
<1>4. QED
  BY <1>1, <1>2, <1>3 DEF RequestMatches, Verifying, InTransaction, InfoOf

-----------------------------------------------------------------------------
(* Steps.                                                                  *)

\* The few steps that write a table, and all the others.
LEMMA NextCases ==
  ASSUME [Next]_vars
  PROVE  \/ \E r \in Requests : \/ RedeemCode(r) \/ CommitOnboarding(r)
                               \/ CommitCourse(r) \/ RecordFailed(r)
                               \/ SaveEvent(r) \/ FinishEvent(r)
         \/ \E s \in Students, courses \in SUBSET Courses : EnrollFree(s, courses)
         \/ UNCHANGED <<txs, users, codes, enrollments, events>>
<1>1. ASSUME NEW r \in Requests, Arrive(r) \/ Fail(r)
      PROVE  UNCHANGED <<txs, users, codes, enrollments, events>>
  BY <1>1 DEF Arrive, Verify, SyncTransaction, ReceiveWebhook, Accept, Fail
<1>2. ASSUME NEW r \in Requests, Proceed(r)
      PROVE  \/ \/ RedeemCode(r) \/ CommitOnboarding(r) \/ CommitCourse(r)
                \/ RecordFailed(r) \/ SaveEvent(r) \/ FinishEvent(r)
             \/ UNCHANGED <<txs, users, codes, enrollments, events>>
  <2>1. CASE ReadEvent(r) \/ LookUp(r) \/ ReadAccount(r) \/ CheckRegistered(r)
             \/ ReadCatalog(r) \/ ReadCart(r) \/ SendMail(r) \/ LookUpFailed(r)
    BY <2>1 DEF ReadEvent, LookUp, ReadAccount, CheckRegistered, ReadCatalog,
                ReadCart, SendMail, LookUpFailed
  <2>2. QED
    BY <1>2, <2>1 DEF Proceed
<1>3. CASE Restart \/ UNCHANGED vars
  BY <1>3 DEF Restart, vars
<1>4. QED
  BY <1>1, <1>2, <1>3 DEF Next

\* A row is written by a handler that is at work on its charge, and marked as
\* fulfilled only by the step that grants the purchase.
Writes(r) ==
  \E status \in {"success", "failed"}, fulfilled \in BOOLEAN :
    /\ ~At(r, "idle")
    /\ txs' = Saved(r, status, fulfilled)
    /\ fulfilled => \A c \in Charges : c = req[r].charge => Entitled(c)'

LEMMA RowWrites ==
  ASSUME Typed, RequestsMatch, [Next]_vars
  PROVE  \/ UNCHANGED txs
         \/ \E r \in Requests : Writes(r)
         \/ \E s \in Students, courses \in SUBSET Courses : EnrollFree(s, courses)
<1>1. ASSUME NEW r \in Requests, RedeemCode(r) \/ CommitOnboarding(r)
      PROVE  UNCHANGED txs \/ Writes(r)
  <2>1. ~At(r, "idle")
    BY <1>1 DEF RedeemCode, CommitOnboarding, At
  <2>2. PICK c \in Charges : /\ c = req[r].charge /\ InfoOf(r) = Info[c]
                            /\ Info[c].student \in Students
    BY <2>1, ChargeOf
  <2>3. Info[c].paidFor = "onboarding"
    BY <1>1, <2>2 DEF RequestsMatch, RequestMatches, RedeemCode, CommitOnboarding, At
  <2>4. \/ UNCHANGED txs
        \/ txs' = Saved(r, "success", TRUE) /\ StatusOf(Info[c].student)' = "onboarded"
    <3>1. CASE RedeemCode(r)
      <4>1. users' = [users EXCEPT ![Info[c].student] = NewAccount(Info[c].code)]
              => StatusOf(Info[c].student)' = "onboarded"
        BY <2>2 DEF StatusOf, NewAccount, Typed, TypeOK
      <4>2. QED
        BY <2>2, <3>1, <4>1 DEF RedeemCode
    <3>2. CASE CommitOnboarding(r)
      <4>1. users' = [users EXCEPT ![Info[c].student].status = "onboarded"]
              => StatusOf(Info[c].student)' = "onboarded"
        BY <2>2 DEF StatusOf, Typed, TypeOK
      <4>2. QED
        BY <2>2, <3>2, <4>1 DEF CommitOnboarding
    <3>3. QED
      BY <1>1, <3>1, <3>2
  <2>5. QED
    BY <2>1, <2>2, <2>3, <2>4 DEF Writes, Entitled
<1>2. ASSUME NEW r \in Requests, CommitCourse(r)
      PROVE  UNCHANGED txs \/ Writes(r)
  <2>1. ~At(r, "idle") /\ Grows
    BY <1>2, CourseGrows DEF CommitCourse, At
  <2>2. CASE CanSave(r) /\ InsertsUnique(r)
    <3>1. \A c \in Charges : c = req[r].charge => Entitled(c)'
      BY <1>2, <2>1, <2>2, CommitCourseEntitles DEF CommitCourse, RequestsMatch
    <3>2. txs' = Saved(r, "success", TRUE)
      BY <1>2, <2>2 DEF CommitCourse
    <3>3. QED
      BY <2>1, <3>1, <3>2 DEF Writes
  <2>3. QED
    BY <1>2, <2>2 DEF CommitCourse
<1>3. ASSUME NEW r \in Requests, RecordFailed(r)
      PROVE  UNCHANGED txs \/ Writes(r)
  BY <1>3 DEF RecordFailed, Writes, At
<1>4. ASSUME NEW r \in Requests, SaveEvent(r) \/ FinishEvent(r)
      PROVE  UNCHANGED txs
  BY <1>4 DEF SaveEvent, FinishEvent
<1>5. QED
  BY <1>1, <1>2, <1>3, <1>4, NextCases

LEMMA RowsStep ==
  ASSUME Typed, RowsMatch, RequestsMatch, [Next]_vars
  PROVE  RowsMatch'
<1>1. CASE UNCHANGED txs
  BY <1>1 DEF RowsMatch, RowMatches, Exists, KeyRef
<1>2. ASSUME NEW r \in Requests, Writes(r) PROVE RowsMatch'
  BY <1>2, SavedMatches DEF Writes, RequestsMatch
<1>3. ASSUME NEW s \in Students, NEW courses \in SUBSET Courses, EnrollFree(s, courses)
      PROVE  RowsMatch'
  <2> SUFFICES ASSUME NEW k \in RowKeys PROVE RowMatches(k)'
    BY DEF RowsMatch
  <2> DEFINE row == [charge |-> None, status |-> "success", fulfilled |-> TRUE]
  <2>1. row.charge = None
    OBVIOUS
  <2> HIDE DEF row
  <2>2. txs' = [j \in RowKeys |-> IF j \in {s} \X courses THEN row ELSE txs[j]]
    BY <1>3 DEF EnrollFree, row
  <2>3. CASE k \in {s} \X courses
    <3>1. txs'[k] = row /\ k \in FreeKeys
      BY <2>2, <2>3 DEF FreeKeys
    <3>2. QED
      BY <2>1, <3>1 DEF RowMatches
  <2>4. CASE k \notin {s} \X courses
    <3>1. txs'[k] = txs[k]
      BY <2>2, <2>4
    <3>2. QED
      BY <3>1 DEF RowsMatch, RowMatches, Exists, KeyRef
  <2>5. QED
    BY <2>3, <2>4
<1>4. QED
  BY <1>1, <1>2, <1>3, RowWrites

LEMMA RequestsStep ==
  ASSUME Typed, RowsMatch, RequestsMatch, FulfilledIsEntitled, [Next]_vars
  PROVE  RequestsMatch'
<1>1. Grows
  BY NextGrows
<1>2. ASSUME NEW r \in Requests, Proceed(r) \/ Fail(r) PROVE RequestsMatch'
  <2>1. RequestMatches(r) /\ Continues(r)
    BY <1>2, ProceedContinues DEF RequestsMatch
  <2>2. RequestMatches(r)'
    BY <1>1, <1>2, <2>1, LookUpMatches, EventMatches, AccountMatches, OnboardingMatches,
       CatalogMatches, CommitCourseMatches, EndingMatches
    DEF Proceed
  <2>3. ASSUME NEW q \in Requests, q # r PROVE RequestMatches(q)'
    <3>1. CASE req'[q] = req[q]
      BY <1>1, <3>1, KeepsMatch DEF RequestsMatch
    <3>2. CASE req'[q].pc = "idle"
      BY <3>2 DEF RequestMatches, Verifying, InTransaction
    <3>3. QED
      BY <2>1, <2>3, <3>1, <3>2 DEF Continues
  <2>4. QED
    BY <2>2, <2>3 DEF RequestsMatch
<1>3. ASSUME NEW r \in Requests, Arrive(r) PROVE RequestsMatch'
  <2>1. \A q \in Requests : q # r => req'[q] = req[q]
    BY <1>3 DEF Arrive, Verify, SyncTransaction, ReceiveWebhook, Accept, Typed, TypeOK
  <2>2. QED
    BY <1>1, <1>3, <2>1, ArriveMatches, KeepsMatch DEF RequestsMatch
<1>4. CASE Restart
  <2>1. \A q \in Requests : req'[q].pc = "idle"
    BY <1>4 DEF Restart, NoRequest
  <2>2. QED
    BY <2>1 DEF RequestsMatch, RequestMatches, Verifying, InTransaction
<1>5. CASE UNCHANGED req
  BY <1>1, <1>5, KeepsMatch DEF RequestsMatch
<1>6. QED
  BY <1>2, <1>3, <1>4, <1>5 DEF Next, EnrollFree, vars

\* Rows are never deleted, and keep the checkout they were written for.
LEMMA RowsStay ==
  ASSUME Typed, Typed', RowsMatch', [Next]_vars, RequestsMatch, RowsMatch,
         NEW k \in RowKeys, NEW c \in Charges, HasRef(k, Info[c].ref)
  PROVE  HasRef(k, Info[c].ref)'
<1>1. Exists(k) /\ k \notin FreeKeys /\ KeyRef(k) = Info[c].ref
  BY DEF HasRef, RowsMatch, RowMatches
<1>2. Exists(k)'
  <2>1. CASE UNCHANGED txs
    BY <1>1, <2>1 DEF Exists
  <2>2. ASSUME NEW r \in Requests, Writes(r) PROVE Exists(k)'
    <3>1. PICK status \in {"success", "failed"}, fulfilled \in BOOLEAN :
            ~At(r, "idle") /\ txs' = Saved(r, status, fulfilled)
      BY <2>2 DEF Writes
    <3>2. req[r].charge \in Charges
      BY <3>1, RowOfType
    <3>3. [charge |-> req[r].charge, status |-> status, fulfilled |-> fulfilled] \in Row
      BY <3>2 DEF Row
    <3>4. txs'[k] = txs[k] \/ txs'[k] \in Row
      BY <3>1, <3>3, SavedRow
    <3>5. QED
      BY <1>1, <3>4, KeyAssumption DEF Exists
  <2>3. ASSUME NEW s \in Students, NEW courses \in SUBSET Courses, EnrollFree(s, courses)
        PROVE  Exists(k)'
    BY <1>1, <2>3 DEF EnrollFree, Exists, FreeKeys
  <2>4. QED
    BY <2>1, <2>2, <2>3, RowWrites
<1>3. QED
  BY <1>1, <1>2, KeyAssumption DEF HasRef, RowsMatch, RowMatches, KeyRef, RowKeys

LEMMA FulfilledStep ==
  ASSUME Typed, RequestsMatch, FulfilledIsEntitled, [Next]_vars
  PROVE  FulfilledIsEntitled'
<1>1. Grows
  BY NextGrows
<1> SUFFICES ASSUME NEW k \in RowKeys, Fulfilled(k)', txs'[k].charge # None
             PROVE  Entitled(txs[k].charge)'
  BY DEF FulfilledIsEntitled
<1> DEFINE c == txs'[k].charge
<1>2. CASE txs'[k] = txs[k]
  <2>1. Fulfilled(k) /\ txs[k].charge # None
    BY <1>2 DEF Fulfilled, Exists
  <2>2. txs[k].charge \in Charges /\ Entitled(txs[k].charge)
    BY <2>1 DEF FulfilledIsEntitled, Fulfilled, Exists, Typed, TypeOK, Row
  <2>3. PICK d \in Charges : d = txs[k].charge /\ Entitled(d)
    BY <2>2
  <2>4. Entitled(d)' /\ d = txs'[k].charge
    BY <1>1, <1>2, <2>3, EntitledStays
  <2>5. QED
    BY <2>4 DEF Entitled, StatusOf, Enrolled
<1>3. ASSUME NEW r \in Requests, Writes(r), txs'[k] # txs[k]
      PROVE  Entitled(txs[k].charge)'
  <2>1. PICK status \in {"success", "failed"}, fulfilled \in BOOLEAN :
          /\ ~At(r, "idle")
          /\ txs' = Saved(r, status, fulfilled)
          /\ fulfilled => \A d \in Charges : d = req[r].charge => Entitled(d)'
    BY <1>3 DEF Writes
  <2> DEFINE row == [charge |-> req[r].charge, status |-> status, fulfilled |-> fulfilled]
  <2>2. txs'[k] = row
    BY <1>3, <2>1, SavedRow
  <2>3. row.charge = req[r].charge /\ row.fulfilled = fulfilled
    OBVIOUS
  <2> HIDE DEF row
  <2>4. PICK d \in Charges : d = req[r].charge
    BY <2>1, RowOfType
  <2>5. Entitled(d)' /\ d = txs'[k].charge
    BY <2>1, <2>2, <2>3, <2>4 DEF Fulfilled
  <2>6. QED
    BY <2>5 DEF Entitled, StatusOf, Enrolled
<1>4. ASSUME NEW s \in Students, NEW courses \in SUBSET Courses,
             EnrollFree(s, courses), txs'[k] # txs[k]
      PROVE  FALSE
  <2> DEFINE row == [charge |-> None, status |-> "success", fulfilled |-> TRUE]
  <2>1. row.charge = None
    OBVIOUS
  <2> HIDE DEF row
  <2>2. txs'[k] = row
    BY <1>4 DEF EnrollFree, row
  <2>3. QED
    BY <2>1, <2>2
<1>5. QED
  BY <1>2, <1>3, <1>4, RowWrites

LEMMA CompleteStep ==
  ASSUME Typed, RequestsMatch, CompleteEventIsEntitled, [Next]_vars
  PROVE  CompleteEventIsEntitled'
<1>1. Grows
  BY NextGrows
<1> SUFFICES ASSUME NEW c \in Charges, NEW key \in KeysOf(c),
                    events'[<<key, "successful">>] = "complete"
             PROVE  Entitled(c)'
  BY DEF CompleteEventIsEntitled, KeysOf
<1>2. <<key, "successful">> \in EventIds
  BY KeyType DEF EventIds, Outcomes
<1>3. CASE events[<<key, "successful">>] = "complete"
  BY <1>1, <1>3, EntitledStays DEF CompleteEventIsEntitled
<1>4. CASE events[<<key, "successful">>] # "complete"
  <2>1. PICK r \in Requests : FinishEvent(r)
    <3>1. ASSUME NEW r \in Requests, SaveEvent(r) PROVE FALSE
      BY <1>2, <1>4, <3>1 DEF SaveEvent, Typed, TypeOK
    <3>2. ~UNCHANGED events
      BY <1>4
    <3>3. QED
      BY <3>1, <3>2, NextCases
      DEF RedeemCode, CommitOnboarding, CommitCourse, RecordFailed, EnrollFree
  <2>2. ~At(r, "idle") /\ req[r].pc = "finish"
    BY <2>1 DEF FinishEvent, At
  <2>3. req[r].ok /\ EventOf(r) = <<key, "successful">>
    BY <1>2, <1>4, <2>1 DEF FinishEvent, Typed, TypeOK
  <2>4. key = req[r].key
    BY <2>3 DEF EventOf
  <2>5. PICK d \in Charges : d = req[r].charge /\ key \in KeysOf(d)
    BY <2>2, <2>4, RowOfType
  <2>6. Entitled(d)
    BY <2>2, <2>3, <2>5 DEF RequestsMatch, RequestMatches
  <2>7. Info[d].ref = Info[c].ref
    <3>1. key \in {c, Info[c].ref} /\ key \in {d, Info[d].ref}
      BY <2>5 DEF KeysOf
    <3>2. Info[c].ref \in TxRefs /\ Info[d].ref \in TxRefs
      BY ChargeData
    <3>3. QED
      BY <3>1, <3>2, KeyAssumption
  <2>8. QED
    BY <1>1, <2>6, <2>7, SameCheckout, EntitledStays
<1>5. QED
  BY <1>3, <1>4

\* Accounts and codes change together: a code is redeemed for a student who
\* has no account, hence no code, by one who finds it unredeemed.
LEMMA CodesStep ==
  ASSUME Typed, NewHasNoCode, CodeOpensOneAccount, [Next]_vars
  PROVE  NewHasNoCode' /\ CodeOpensOneAccount'
<1>1. CASE UNCHANGED <<users, codes>>
  BY <1>1 DEF NewHasNoCode, CodeOpensOneAccount, StatusOf
<1>2. ASSUME NEW r \in Requests, CommitOnboarding(r)
      PROVE  NewHasNoCode' /\ CodeOpensOneAccount'
  <2>1. UNCHANGED codes
    BY <1>2 DEF CommitOnboarding
  <2>2. CASE users' = [users EXCEPT ![InfoOf(r).student].status = "onboarded"]
    <3>1. \A s \in Students :
            /\ users'[s].code = users[s].code
            /\ users'[s].status = users[s].status \/ users'[s].status = "onboarded"
      BY <2>2 DEF Typed, TypeOK
    <3>2. QED
      BY <2>1, <3>1 DEF NewHasNoCode, CodeOpensOneAccount, StatusOf
  <2>3. QED
    BY <1>1, <1>2, <2>1, <2>2 DEF CommitOnboarding
<1>3. ASSUME NEW r \in Requests, RedeemCode(r)
      PROVE  NewHasNoCode' /\ CodeOpensOneAccount'
  <2>1. ~At(r, "idle")
    BY <1>3 DEF RedeemCode, At
  <2>2. PICK c \in Charges : /\ InfoOf(r) = Info[c] /\ Info[c].student \in Students
                            /\ Info[c].code \in Codes
    BY <2>1, ChargeOf
  <2>3. CASE /\ codes[Info[c].code] = None /\ StatusOf(Info[c].student) = "none"
             /\ codes' = [codes EXCEPT ![Info[c].code] = Info[c].student]
             /\ users' = [users EXCEPT ![Info[c].student] = NewAccount(Info[c].code)]
    <3>1. users[Info[c].student].code = None
      BY <2>2, <2>3 DEF NewHasNoCode
    <3>2. /\ codes'[Info[c].code] = Info[c].student
          /\ \A k \in Codes : k # Info[c].code => codes'[k] = codes[k]
      BY <2>2, <2>3 DEF Typed, TypeOK
    <3>3. /\ users'[Info[c].student].code = Info[c].code
          /\ users'[Info[c].student].status = "onboarded"
          /\ \A s \in Students : s # Info[c].student => users'[s] = users[s]
      BY <2>2, <2>3 DEF Typed, TypeOK, NewAccount
    <3>4. NewHasNoCode'
      BY <3>3 DEF NewHasNoCode, StatusOf
    <3>5. \A s \in Students, k \in Codes : codes'[k] = s <=> users'[s].code = k
      BY <2>2, <2>3, <3>1, <3>2, <3>3, NoneAssumption DEF CodeOpensOneAccount
    <3>6. QED
      BY <3>4, <3>5 DEF CodeOpensOneAccount
  <2>4. QED
    BY <1>1, <1>3, <2>2, <2>3 DEF RedeemCode, Usable
<1>4. QED
  BY <1>1, <1>2, <1>3, NextCases
  DEF CommitCourse, RecordFailed, SaveEvent, FinishEvent, EnrollFree

LEMMA OnboardingStep ==
  ASSUME Typed, RequestsMatch, OnboardingPaid, [Next]_vars
  PROVE  OnboardingPaid'
<1>1. CASE UNCHANGED users
  BY <1>1 DEF OnboardingPaid, StatusOf, Paid, Due
<1>2. ASSUME NEW r \in Requests, RedeemCode(r) \/ CommitOnboarding(r)
      PROVE  OnboardingPaid'
  <2>1. ~At(r, "idle") /\ req[r].pc \in {"redeem", "commitOnboarding"}
    BY <1>2 DEF RedeemCode, CommitOnboarding, At
  <2>2. PICK c \in Charges : /\ c = req[r].charge /\ InfoOf(r) = Info[c]
                            /\ Info[c].student \in Students
    BY <2>1, ChargeOf
  <2>3. Paid(c) /\ Info[c].paidFor = "onboarding"
    BY <2>1, <2>2 DEF RequestsMatch, RequestMatches
  <2>4. \A s \in Students : s # Info[c].student => users'[s] = users[s]
    BY <1>2, <2>2 DEF RedeemCode, CommitOnboarding, Typed, TypeOK
  <2>5. QED
    BY <2>3, <2>4 DEF OnboardingPaid, StatusOf, Paid, Due
<1>3. QED
  BY <1>1, <1>2, NextCases
  DEF CommitCourse, RecordFailed, SaveEvent, FinishEvent, EnrollFree

\* The grounds on which a student is enrolled.
Bought(s, k, key) ==
  \E c \in Charges : /\ Paid(c) /\ HasRef(key, Info[c].ref)
                     /\ Info[c].paidFor = "course"
                     /\ Info[c].student = s /\ k \in Info[c].courses

LEMMA EnrollmentStep ==
  ASSUME Typed, Typed', RowsMatch, RowsMatch', RequestsMatch, EnrollmentPaid, [Next]_vars
  PROVE  EnrollmentPaid'
<1> SUFFICES ASSUME NEW s \in Students, NEW k \in Courses, NEW key,
                    key = enrollments'[s][k], key # None
             PROVE  (key = <<s, k>> /\ Price[k] = 0) \/ Bought(s, k, key)'
  BY DEF EnrollmentPaid, Bought
<1>1. CASE enrollments'[s][k] = enrollments[s][k]
  <2>1. (key = <<s, k>> /\ Price[k] = 0) \/ Bought(s, k, key)
    BY <1>1 DEF EnrollmentPaid, Bought
  <2>2. key \in RowKeys
    BY <1>1 DEF Typed, TypeOK
  <2>3. Bought(s, k, key) => Bought(s, k, key)'
    BY <2>2, RowsStay DEF Bought, Paid, Due
  <2>4. QED
    BY <2>1, <2>3
<1>2. ASSUME NEW r \in Requests, CommitCourse(r), enrollments'[s][k] # enrollments[s][k]
      PROVE  Bought(s, k, key)'
  <2>1. ~At(r, "idle") /\ req[r].pc = "commitCourse"
    BY <1>2 DEF CommitCourse, At
  <2>2. PICK c \in Charges : /\ c = req[r].charge /\ InfoOf(r) = Info[c]
                            /\ Info[c].student \in Students
    BY <2>1, ChargeOf
  <2>3. Paid(c) /\ Info[c].paidFor = "course"
    BY <2>1, <2>2 DEF RequestsMatch, RequestMatches
  <2>4. /\ txs' = Saved(r, "success", TRUE)
        /\ enrollments' = [enrollments EXCEPT ![Info[c].student] =
             [j \in Courses |-> IF j \in NewCourses(r)
                                THEN RowOf(r)
                                ELSE enrollments[Info[c].student][j]]]
    BY <1>2, <2>2 DEF CommitCourse
  <2>5. s = Info[c].student /\ k \in NewCourses(r) /\ key = RowOf(r)
    BY <1>2, <2>2, <2>4 DEF Typed, TypeOK
  <2>6. k \in Info[c].courses
    BY <2>2, <2>5 DEF NewCourses
  <2> DEFINE row == [charge |-> req[r].charge, status |-> "success", fulfilled |-> TRUE]
  <2>7. txs'[key] = row
    <3>1. txs'[RowOf(r)] = row
      BY <2>1, <2>4, SavedRow
    <3> HIDE DEF row
    <3>2. QED
      BY <2>5, <3>1
  <2>8. row \in Row /\ row.charge = c
    BY <2>2 DEF Row
  <2> HIDE DEF row
  <2>9. c # None /\ row # None
    BY <2>8, KeyAssumption DEF RowKeys
  <2>10. HasRef(key, Info[c].ref)'
    BY <2>7, <2>8, <2>9 DEF HasRef, Exists
  <2>11. QED
    BY <2>3, <2>5, <2>6, <2>10 DEF Bought, Paid, Due
<1>3. ASSUME NEW t \in Students, NEW courses \in SUBSET Courses, EnrollFree(t, courses),
             enrollments'[s][k] # enrollments[s][k]
      PROVE  key = <<s, k>> /\ Price[k] = 0
  BY <1>3 DEF EnrollFree, Typed, TypeOK
<1>4. QED
  BY <1>1, <1>2, <1>3, NextCases
  DEF RedeemCode, CommitOnboarding, RecordFailed, SaveEvent, FinishEvent

-----------------------------------------------------------------------------
(* The theorems.                                                           *)

LEMMA InitSafe == Init => Safe
<1> SUFFICES ASSUME Init PROVE Safe
  OBVIOUS
<1>1. Typed
  BY InitTyped
<1>2. RowsMatch /\ FulfilledIsEntitled
  BY DEF Init, RowsMatch, RowMatches, FulfilledIsEntitled, Fulfilled, Exists
<1>3. RequestsMatch
  BY DEF Init, NoRequest, RequestsMatch, RequestMatches, Verifying, InTransaction
<1>4. NewHasNoCode /\ CodeOpensOneAccount
  BY NoneAssumption DEF Init, NewHasNoCode, CodeOpensOneAccount
<1>5. OnboardingPaid
  BY DEF Init, OnboardingPaid, StatusOf
<1>6. EnrollmentPaid
  BY DEF Init, EnrollmentPaid
<1>7. CompleteEventIsEntitled
  <2>1. \A c \in Charges : \A key \in KeysOf(c) : <<key, "successful">> \in EventIds
    BY KeyType DEF EventIds, Outcomes
  <2>2. QED
    BY <2>1 DEF Init, CompleteEventIsEntitled
<1>8. QED
  BY <1>1, <1>2, <1>3, <1>4, <1>5, <1>6, <1>7 DEF Safe

LEMMA NextSafe == Safe /\ [Next]_vars => Safe'
<1> SUFFICES ASSUME Safe, [Next]_vars PROVE Safe'
  OBVIOUS
<1>1. Typed'
  BY NextTyped DEF Safe
<1>2. RowsMatch' /\ RequestsMatch'
  BY RowsStep, RequestsStep DEF Safe
<1>3. EnrollmentPaid'
  BY <1>1, <1>2, EnrollmentStep DEF Safe
<1>4. QED
  BY <1>1, <1>2, <1>3, CodesStep, OnboardingStep, FulfilledStep, CompleteStep DEF Safe

LEMMA AlwaysSafe == Spec => []Safe
  BY InitSafe, NextSafe, PTL DEF Spec

\* Nobody is onboarded without a successful charge of at least the fee: the
\* price and the status are checked before the transaction, and every path to
\* it passes them.
THEOREM OnboardingIsPaid == Spec => []OnboardingPaid
  BY AlwaysSafe, PTL DEF Safe

\* Registrations that race for an access code: the locked code and the account
\* it opens always name each other.
THEOREM CodesAreSingleUse == Spec => []CodeOpensOneAccount
  BY AlwaysSafe, PTL DEF Safe

\* Every enrolment, however it was raced for, is free or paid for in full on
\* the checkout of its payment row.
THEOREM EnrollmentsArePaid == Spec => []EnrollmentPaid
  BY AlwaysSafe, PTL DEF Safe

\* A payment row marked as fulfilled means that all it paid for was granted.
THEOREM FulfilmentIsWhole == Spec => []FulfilledIsEntitled
  BY AlwaysSafe, PTL DEF Safe

\* A webhook that is dropped as a duplicate has nothing left to grant.
THEOREM DroppedWebhooksAreDone == Spec => []CompleteEventIsEntitled
  BY AlwaysSafe, PTL DEF Safe

-----------------------------------------------------------------------------
(* Refinement.  Accounts and codes are the same variables in PaidAccess;   *)
(* the courses owned are those with an enrolment row.  The four commits    *)
(* map to the four abstract actions, every other step to a stutter.        *)

\* Enrolments that appear for one student and no other are a grant to them.
LEMMA CoursesGranted ==
  ASSUME NEW s \in Students, NEW courses \in SUBSET Courses,
         \A t \in Students, k \in Courses :
           Enrolled(t, k)' <=> Enrolled(t, k) \/ (t = s /\ k \in courses)
  PROVE  OwnedCourses' = [OwnedCourses EXCEPT ![s] = @ \cup courses]
<1>1. OwnedCourses = [t \in Students |-> {k \in Courses : Enrolled(t, k)}]
  BY DEF OwnedCourses
<1>2. OwnedCourses' = [t \in Students |-> {k \in Courses : Enrolled(t, k)'}]
  BY DEF OwnedCourses
<1>3. ASSUME NEW t \in Students
      PROVE  {k \in Courses : Enrolled(t, k)'} =
               [OwnedCourses EXCEPT ![s] = @ \cup courses][t]
  <2>1. CASE t = s
    <3>1. {k \in Courses : Enrolled(t, k)'} = {k \in Courses : Enrolled(t, k)} \cup courses
      BY <2>1
    <3>2. QED
      BY <1>1, <2>1, <3>1
  <2>2. CASE t # s
    <3>1. {k \in Courses : Enrolled(t, k)'} = {k \in Courses : Enrolled(t, k)}
      BY <2>2
    <3>2. QED
      BY <1>1, <2>2, <3>1
  <2>3. QED
    BY <2>1, <2>2
<1>4. QED
  BY <1>1, <1>2, <1>3

\* Both specifications read one catalogue.
LEMMA SamePrice ==
  ASSUME NEW c \in Charges PROVE Paid(c) <=> Access!Paid(c)
<1>1. Total(Info[c].courses) = Access!Total(Info[c].courses)
  BY Zenon DEF Total, Access!Total, MapThenSumSet, Access!MapThenSumSet,
               MapThenFoldSet, Access!MapThenFoldSet
<1>2. QED
  BY <1>1 DEF Paid, Due, Access!Paid, Access!Due

LEMMA Unowned ==
  ASSUME UNCHANGED enrollments PROVE UNCHANGED OwnedCourses
  BY DEF OwnedCourses, Enrolled

LEMMA InitRefines == Init => Access!Init
<1> SUFFICES ASSUME Init PROVE Access!Init
  OBVIOUS
<1>1. OwnedCourses = [s \in Students |-> {}]
  BY DEF Init, OwnedCourses, Enrolled
<1>2. QED
  BY <1>1 DEF Init, Access!Init

LEMMA RedeemRefines ==
  ASSUME Safe, NEW r \in Requests, RedeemCode(r)
  PROVE  [Access!Next]_Access!accessVars
<1>1. ~At(r, "idle") /\ req[r].pc = "redeem" /\ UNCHANGED enrollments
  BY DEF RedeemCode, At
<1>2. PICK c \in Charges : c = req[r].charge /\ InfoOf(r) = Info[c]
  BY <1>1, ChargeOf DEF Safe
<1>3. Paid(c) /\ Info[c].paidFor = "onboarding"
  BY <1>1, <1>2 DEF Safe, RequestsMatch, RequestMatches
<1>4. UNCHANGED OwnedCourses
  BY <1>1, Unowned
<1>5. CASE UNCHANGED <<users, codes>>
  BY <1>4, <1>5 DEF Access!accessVars
<1>6. CASE ~UNCHANGED <<users, codes>>
  <2>1. Access!OpenAccount(c)
    BY <1>2, <1>3, <1>4, <1>6, SamePrice
    DEF RedeemCode, Access!OpenAccount, Usable, StatusOf, NewAccount
  <2>2. QED
    BY <2>1 DEF Access!Next
<1>7. QED
  BY <1>5, <1>6

LEMMA CommitOnboardingRefines ==
  ASSUME Safe, NEW r \in Requests, CommitOnboarding(r)
  PROVE  [Access!Next]_Access!accessVars
<1>1. ~At(r, "idle") /\ req[r].pc = "commitOnboarding" /\ UNCHANGED <<codes, enrollments>>
  BY DEF CommitOnboarding, At
<1>2. PICK c \in Charges : c = req[r].charge /\ InfoOf(r) = Info[c]
  BY <1>1, ChargeOf DEF Safe
<1>3. /\ Paid(c) /\ Info[c].paidFor = "onboarding"
      /\ users[Info[c].student].status # "none"
  BY <1>1, <1>2 DEF Safe, RequestsMatch, RequestMatches, StatusOf
<1>4. UNCHANGED OwnedCourses
  BY <1>1, Unowned
<1>5. CASE UNCHANGED users
  BY <1>1, <1>4, <1>5 DEF Access!accessVars
<1>6. CASE ~UNCHANGED users
  <2>1. Access!Onboard(c)
    BY <1>1, <1>2, <1>3, <1>4, <1>6, SamePrice DEF CommitOnboarding, Access!Onboard
  <2>2. QED
    BY <2>1 DEF Access!Next
<1>7. QED
  BY <1>5, <1>6

LEMMA CommitCourseRefines ==
  ASSUME Safe, NEW r \in Requests, CommitCourse(r)
  PROVE  [Access!Next]_Access!accessVars
<1>1. ~At(r, "idle") /\ req[r].pc = "commitCourse" /\ UNCHANGED <<users, codes>>
  BY DEF CommitCourse, At
<1>2. PICK c \in Charges : /\ c = req[r].charge /\ InfoOf(r) = Info[c]
                          /\ Info[c].student \in Students
  BY <1>1, ChargeOf DEF Safe
<1>3. /\ Paid(c) /\ Info[c].paidFor = "course"
      /\ users[Info[c].student].status = "onboarded"
      /\ \A k \in req[r].owned : Enrolled(Info[c].student, k)
  BY <1>1, <1>2 DEF Safe, RequestsMatch, RequestMatches, StatusOf
<1>4. CASE UNCHANGED enrollments
  <2>1. UNCHANGED OwnedCourses
    BY <1>4, Unowned
  <2>2. QED
    BY <1>1, <2>1 DEF Access!accessVars
<1>5. CASE ~UNCHANGED enrollments
  <2>1. enrollments' = [enrollments EXCEPT ![Info[c].student] =
          [k \in Courses |-> IF k \in NewCourses(r)
                             THEN RowOf(r)
                             ELSE enrollments[Info[c].student][k]]]
    BY <1>2, <1>5 DEF CommitCourse
  <2>2. RowOf(r) # None /\ Info[c].courses \in SUBSET Courses
    BY <1>1, <1>2, RowOfType, KeyAssumption, TypeAssumption DEF Safe, ChargeInfo
  <2>3. NewCourses(r) = Info[c].courses \ req[r].owned
    BY <1>2 DEF NewCourses
  <2>4. ASSUME NEW t \in Students, NEW k \in Courses
        PROVE  Enrolled(t, k)' <=>
                 Enrolled(t, k) \/ (t = Info[c].student /\ k \in Info[c].courses)
    <3>1. CASE t = Info[c].student
      BY <1>2, <1>3, <2>1, <2>2, <2>3, <3>1 DEF Enrolled, Safe, Typed, TypeOK
    <3>2. CASE t # Info[c].student
      BY <1>2, <2>1, <3>2 DEF Enrolled, Safe, Typed, TypeOK
    <3>3. QED
      BY <3>1, <3>2
  <2>5. OwnedCourses' = [OwnedCourses EXCEPT ![Info[c].student] = @ \cup Info[c].courses]
    BY <1>2, <2>2, <2>4, CoursesGranted
  <2>6. Access!Enrol(c)
    BY <1>1, <1>3, <2>5, SamePrice DEF Access!Enrol
  <2>7. QED
    BY <2>6 DEF Access!Next
<1>6. QED
  BY <1>4, <1>5

LEMMA EnrollFreeRefines ==
  ASSUME Safe, NEW s \in Students, NEW courses \in SUBSET Courses, EnrollFree(s, courses)
  PROVE  [Access!Next]_Access!accessVars
<1>1. \A t \in Students, k \in Courses :
        Enrolled(t, k)' <=> Enrolled(t, k) \/ (t = s /\ k \in courses)
  <2>1. \A k \in Courses : <<s, k>> # None
    BY KeyAssumption DEF RowKeys, FreeKeys
  <2>2. QED
    BY <2>1 DEF EnrollFree, Enrolled, Safe, Typed, TypeOK
<1>2. OwnedCourses' = [OwnedCourses EXCEPT ![s] = @ \cup courses]
  BY <1>1, CoursesGranted
<1>3. Access!EnrolFree(s, courses)
  BY <1>2 DEF EnrollFree, Access!EnrolFree, StatusOf
<1>4. QED
  BY <1>3 DEF Access!Next

LEMMA StepRefines == Safe /\ [Next]_vars => [Access!Next]_Access!accessVars
<1> SUFFICES ASSUME Safe, [Next]_vars PROVE [Access!Next]_Access!accessVars
  OBVIOUS
<1>1. CASE UNCHANGED <<users, codes, enrollments>>
  BY <1>1, Unowned DEF Access!accessVars
<1>2. ASSUME NEW r \in Requests, RecordFailed(r) \/ SaveEvent(r) \/ FinishEvent(r)
      PROVE  UNCHANGED <<users, codes, enrollments>>
  BY <1>2 DEF RecordFailed, SaveEvent, FinishEvent
<1>3. QED
  BY <1>1, <1>2, NextCases, RedeemRefines, CommitOnboardingRefines,
     CommitCourseRefines, EnrollFreeRefines

\* Whatever the interleaving of verifications, webhooks, syncs, failures and
\* restarts, students get accounts, codes and courses only as PaidAccess says.
THEOREM AccessIsGranted == Spec => ImplementsPaidAccess
<1>1. Init => Access!Init
  BY InitRefines
<1>2. Safe /\ [Next]_vars => [Access!Next]_Access!accessVars
  BY StepRefines
<1>3. QED
  BY <1>1, <1>2, AlwaysSafe, PTL DEF Spec, ImplementsPaidAccess, Access!Spec

-----------------------------------------------------------------------------
(* Enrolments are never rewritten.                                         *)

LEMMA KeptStep ==
  ASSUME Typed, [Next]_vars, NEW s \in Students, NEW k \in Courses, Enrolled(s, k)
  PROVE  enrollments'[s][k] = enrollments[s][k]
<1>1. ASSUME NEW r \in Requests, CommitCourse(r)
      PROVE  enrollments'[s][k] = enrollments[s][k]
  <2>1. ~At(r, "idle")
    BY <1>1 DEF CommitCourse, At
  <2>2. PICK c \in Charges : /\ c = req[r].charge /\ InfoOf(r) = Info[c]
                            /\ Info[c].student \in Students
    BY <2>1, ChargeOf
  <2>3. CASE UNCHANGED enrollments
    BY <2>3
  <2>4. CASE ~UNCHANGED enrollments
    <3>1. /\ enrollments' = [enrollments EXCEPT ![Info[c].student] =
               [j \in Courses |-> IF j \in NewCourses(r)
                                  THEN RowOf(r)
                                  ELSE enrollments[Info[c].student][j]]]
          /\ \A j \in NewCourses(r) : ~Enrolled(Info[c].student, j)
      BY <1>1, <2>2, <2>4 DEF CommitCourse, InsertsUnique
    <3>2. CASE s = Info[c].student
      BY <2>2, <3>1, <3>2 DEF Typed, TypeOK
    <3>3. CASE s # Info[c].student
      BY <2>2, <3>1, <3>3 DEF Typed, TypeOK
    <3>4. QED
      BY <3>2, <3>3
  <2>5. QED
    BY <2>3, <2>4
<1>2. ASSUME NEW t \in Students, NEW courses \in SUBSET Courses, EnrollFree(t, courses)
      PROVE  enrollments'[s][k] = enrollments[s][k]
  BY <1>2 DEF EnrollFree, Enrolled, Typed, TypeOK
<1>3. QED
  BY <1>1, <1>2, NextCases
  DEF RedeemCode, CommitOnboarding, RecordFailed, SaveEvent, FinishEvent

\* However many verifications, failed attempts and free enrolments race for a
\* course, the student's enrolment keeps the payment row it was made with.
THEOREM EnrollmentsAreFinal == Spec => EnrollmentIsFinal
<1>1. Typed /\ [Next]_vars =>
        [\A s \in Students, k \in Courses :
           Enrolled(s, k) => enrollments'[s][k] = enrollments[s][k]]_vars
  BY KeptStep
<1>2. Safe => Typed
  BY DEF Safe
<1>3. QED
  BY <1>1, <1>2, AlwaysSafe, PTL DEF Spec, EnrollmentIsFinal

-----------------------------------------------------------------------------
(* Mails.  On a checkout without failed attempts and idless webhooks every *)
(* row is fulfilled, so a handler that goes on found none, and the UNIQUE  *)
(* index lets one of them commit and go on to its mail.                    *)

CleanRef(ref) ==
  \A d \in Charges : Info[d].ref = ref =>
    Info[d].outcome = "successful" /\ d \notin IdlessWebhooks
Clean(c) == CleanRef(Info[c].ref)

CleanRows ==
  \A k \in RowKeys : k \notin FreeKeys /\ Exists(k) /\ CleanRef(KeyRef(k)) => Fulfilled(k)

FindsNone(r) ==
  /\ req[r].pc \in Recording => InfoOf(r).outcome = "failed"
  /\ req[r].pc # "idle" /\ Clean(req[r].charge) => req[r].existing = None

Mailing(r, c) == At(r, "mail") /\ req[r].charge = c

\* A mail that was or will be sent has a row; the next one is not sent yet.
MailsOf(c) ==
  /\ mails[c] > 0 => Exists(c) /\ mails[c] = 1
  /\ \A r \in Requests : Mailing(r, c) =>
       Exists(c) /\ mails[c] = 0 /\ \A q \in Requests : Mailing(q, c) => q = r

Mails ==
  /\ CleanRows
  /\ \A r \in Requests : FindsNone(r)
  /\ \A c \in Charges : Clean(c) => MailsOf(c)

\* A request that ended, or goes on with the row that it found.
KeepsRow(r, steps) ==
  \/ req'[r].pc = "idle"
  \/ /\ req'[r].pc \in steps /\ req'[r].charge = req[r].charge
     /\ req'[r].existing = req[r].existing

LEMMA ConcludeKeepsRow ==
  ASSUME Typed, NEW r \in Requests, NEW ok, Conclude(r, ok)
  PROVE  KeepsRow(r, {"finish"})
<1>1. CASE req[r].source = "webhook"
  <2>1. req'[r] = [req[r] EXCEPT !.pc = "finish", !.ok = ok]
    BY <1>1 DEF Conclude, Typed, TypeOK
  <2>2. QED
    BY <2>1 DEF KeepsRow, Typed, TypeOK, Request
<1>2. CASE req[r].source # "webhook"
  BY <1>2 DEF Conclude, KeepsRow, NoRequest, Typed, TypeOK
<1>3. QED
  BY <1>1, <1>2

LEMMA EndKeepsRow ==
  ASSUME Typed, NEW r \in Requests, req' = [req EXCEPT ![r] = NoRequest]
  PROVE  KeepsRow(r, {})
BY DEF KeepsRow, NoRequest, Typed, TypeOK

LEMMA GotoKeepsRow ==
  ASSUME Typed, NEW r \in Requests, NEW step, Goto(r, step)
  PROVE  KeepsRow(r, {step})
BY GotoFields DEF KeepsRow

LEMMA AfterCommitKeepsRow ==
  ASSUME Typed, NEW r \in Requests, NEW notify, AfterCommit(r, notify)
  PROVE  KeepsRow(r, {"finish", "mail"})
BY ConcludeKeepsRow, GotoKeepsRow DEF AfterCommit, KeepsRow

Quietly == {"saveEvent", "finish", "account", "register", "redeem", "commitOnboarding",
            "catalog", "cart", "commitCourse"}

\* How a handler moves that does not look for its row: to its mail by a commit.
LEMMA RowIsKept ==
  ASSUME Typed, NEW r \in Requests, Proceed(r) \/ Fail(r), ~LookUp(r), ~LookUpFailed(r)
  PROVE  \/ KeepsRow(r, Quietly)
         \/ KeepsRow(r, {Route(req[r].charge)}) /\ SaveEvent(r)
         \/ KeepsRow(r, {"mail"}) /\ CanSave(r) /\ txs' = Saved(r, "success", TRUE)
<1> USE DEF Quietly
<1>1. ASSUME NEW ok, Conclude(r, ok) PROVE KeepsRow(r, Quietly)
  BY <1>1, ConcludeKeepsRow DEF KeepsRow
<1>2. ASSUME req' = [req EXCEPT ![r] = NoRequest] PROVE KeepsRow(r, Quietly)
  BY <1>2, EndKeepsRow DEF KeepsRow
<1>3. ASSUME NEW step \in Quietly, Goto(r, step) PROVE KeepsRow(r, Quietly)
  BY <1>3, GotoKeepsRow DEF KeepsRow
<1>4. ASSUME NEW notify, AfterCommit(r, notify), CanSave(r), txs' = Saved(r, "success", TRUE)
      PROVE  \/ KeepsRow(r, Quietly)
             \/ KeepsRow(r, {"mail"}) /\ CanSave(r) /\ txs' = Saved(r, "success", TRUE)
  BY <1>4, AfterCommitKeepsRow DEF KeepsRow
<1>5. CASE ReadEvent(r)
  <2>1. PICK seen : \/ req' = [req EXCEPT ![r] = NoRequest]
                    \/ req' = [req EXCEPT ![r].pc = "saveEvent", ![r].seen = seen]
    BY <1>5, Zenon DEF ReadEvent
  <2>2. CASE req' = [req EXCEPT ![r].pc = "saveEvent", ![r].seen = seen]
    BY <2>2 DEF KeepsRow, Typed, TypeOK, Request
  <2>3. QED
    BY <1>2, <2>1, <2>2
<1>6. CASE SaveEvent(r)
  <2>1. CASE Goto(r, Route(req[r].charge))
    <3>1. PICK step : step = Route(req[r].charge)
      OBVIOUS
    <3>2. KeepsRow(r, {step})
      BY <2>1, <3>1, GotoKeepsRow
    <3>3. QED
      BY <1>6, <3>1, <3>2
  <2>2. QED
    BY <1>2, <1>6, <2>1 DEF SaveEvent
<1>7. CASE FinishEvent(r)
  BY <1>2, <1>7 DEF FinishEvent
<1>8. CASE ReadAccount(r) \/ CheckRegistered(r)
  BY <1>1, <1>3, <1>8 DEF ReadAccount, CheckRegistered
<1>9. CASE RedeemCode(r)
  BY <1>1, <1>3, <1>4, <1>9 DEF RedeemCode
<1>10. CASE CommitOnboarding(r)
  BY <1>1, <1>4, <1>10 DEF CommitOnboarding
<1>11. CASE CommitCourse(r)
  BY <1>1, <1>4, <1>11 DEF CommitCourse
<1>12. CASE ReadCatalog(r) \/ ReadCart(r)
  <2>1. PICK step \in {"cart", "commitCourse"} :
          \/ Conclude(r, FALSE)
          \/ req' = [req EXCEPT ![r].owned = OwnedNow(r), ![r].pc = step]
    BY <1>12 DEF ReadCatalog, ReadCart
  <2>2. CASE req' = [req EXCEPT ![r].owned = OwnedNow(r), ![r].pc = step]
    BY <2>2 DEF KeepsRow, Typed, TypeOK, Request
  <2>3. QED
    BY <1>1, <2>1, <2>2
<1>13. CASE SendMail(r) \/ RecordFailed(r)
  BY <1>1, <1>13 DEF SendMail, RecordFailed
<1>14. CASE Fail(r)
  <2>1. CASE At(r, "finish") /\ req' = [req EXCEPT ![r] = [req[r] EXCEPT !.ok = FALSE]]
    BY <2>1 DEF KeepsRow, At, Typed, TypeOK, Request
  <2>2. QED
    BY <1>1, <1>2, <1>14, <2>1 DEF Fail
<1>15. QED
  BY <1>5, <1>6, <1>7, <1>8, <1>9, <1>10, <1>11, <1>12, <1>13, <1>14 DEF Proceed

\* A look-up ends, or goes on with what it found.
LEMMA RowIsFound ==
  ASSUME Typed, NEW r \in Requests, LookUp(r) \/ LookUpFailed(r)
  PROVE  \/ KeepsRow(r, {"finish"})
         \/ \E k \in FindExisting(req[r].key, InfoOf(r).ref) :
              /\ req'[r].charge = req[r].charge /\ req'[r].existing = k
              /\ \/ LookUp(r) /\ req'[r].pc = "account" /\ ~(k # None /\ Fulfilled(k))
                 \/ LookUpFailed(r) /\ req'[r].pc = "recordFailed"
<1>1. CASE LookUp(r)
  <2>1. PICK k \in FindExisting(req[r].key, InfoOf(r).ref) :
          \/ Conclude(r, TRUE)
          \/ /\ ~(k # None /\ Fulfilled(k))
             /\ req' = [req EXCEPT ![r].existing = k, ![r].pc = "account"]
    BY <1>1 DEF LookUp
  <2>2. ASSUME req' = [req EXCEPT ![r].existing = k, ![r].pc = "account"]
        PROVE  /\ req'[r].charge = req[r].charge /\ req'[r].existing = k
               /\ req'[r].pc = "account"
    BY <2>2 DEF Typed, TypeOK, Request
  <2>3. QED
    BY <1>1, <2>1, <2>2, ConcludeKeepsRow
<1>2. CASE LookUpFailed(r)
  <2>1. PICK k \in FindExisting(req[r].key, InfoOf(r).ref) :
          \/ Conclude(r, FALSE)
          \/ req' = [req EXCEPT ![r].existing = k, ![r].pc = "recordFailed"]
    BY <1>2 DEF LookUpFailed
  <2>2. ASSUME req' = [req EXCEPT ![r].existing = k, ![r].pc = "recordFailed"]
        PROVE  /\ req'[r].charge = req[r].charge /\ req'[r].existing = k
               /\ req'[r].pc = "recordFailed"
    BY <2>2 DEF Typed, TypeOK, Request
  <2>3. QED
    BY <1>2, <2>1, <2>2, ConcludeKeepsRow
<1>3. QED
  BY <1>1, <1>2

LEMMA ArrivalFinds ==
  ASSUME Typed, NEW r \in Requests, Arrive(r)
  PROVE  FindsNone(r)' /\ req'[r].pc \in {"event", "lookup", "lookupFailed"}
<1>1. PICK c \in Charges, step \in {"event", "lookup", "lookupFailed"},
           source \in {"api", "webhook", "sync"}, key \in Charges \cup TxRefs :
        /\ Accept(r, source, c, key, step)
        /\ step = "lookupFailed" => Info[c].outcome # "successful"
  <2>1. PICK c \in Charges :
          Verify(r, c) \/ SyncTransaction(r, c) \/ ReceiveWebhook(r, c)
    BY DEF Arrive
  <2>2. KeysOf(c) \in SUBSET (Charges \cup TxRefs)
    BY KeyType
  <2>3. QED
    BY <2>1, <2>2 DEF Verify, SyncTransaction, ReceiveWebhook, Route
<1> DEFINE new == [NoRequest EXCEPT !.source = source, !.charge = c,
                                    !.key = key, !.pc = step]
<1>2. new.pc = step /\ new.charge = c /\ new.existing = None
  BY DEF NoRequest
<1> HIDE DEF new
<1>3. req'[r] = new
  BY <1>1 DEF Accept, new, Typed, TypeOK
<1>4. Info[c].outcome \in {"successful", "failed"}
  BY ChargeData DEF Outcomes
<1>5. QED
  BY <1>1, <1>2, <1>3, <1>4 DEF FindsNone, Recording, InfoOf

\* Only the attempts of its checkout that failed keep a handler from finding none.
LEMMA ProceedFinds ==
  ASSUME Safe, CleanRows, NEW r \in Requests, FindsNone(r), Proceed(r) \/ Fail(r)
  PROVE  FindsNone(r)'
<1>1. Typed /\ ~At(r, "idle") /\ RequestMatches(r) /\ RowsMatch
  BY DEF Proceed, ReadEvent, SaveEvent, FinishEvent, LookUp, ReadAccount,
         CheckRegistered, RedeemCode, CommitOnboarding, ReadCatalog, ReadCart,
         CommitCourse, SendMail, LookUpFailed, RecordFailed, At, Fail, Safe, RequestsMatch
<1>2. PICK c \in Charges : c = req[r].charge /\ InfoOf(r) = Info[c]
  BY <1>1, ChargeOf
<1>3. Info[c].outcome \in {"successful", "failed"}
  BY ChargeData DEF Outcomes
<1>4. ASSUME KeepsRow(r, Quietly \cup {"mail", "lookup"}) PROVE FindsNone(r)'
  BY <1>1, <1>4 DEF KeepsRow, FindsNone, Quietly, Recording, InfoOf, At
<1>5. CASE LookUp(r) \/ LookUpFailed(r)
  <2>1. CASE KeepsRow(r, {"finish"})
    BY <1>4, <2>1 DEF KeepsRow, Quietly
  <2>2. CASE LookUpFailed(r) /\ req'[r].pc = "recordFailed" /\ req'[r].charge = req[r].charge
    <3>1. Info[c].outcome = "failed"
      BY <1>2, <2>2 DEF LookUpFailed, At, FindsNone, Recording
    <3>2. ~Clean(c) /\ InfoOf(r)' = Info[c]
      BY <1>2, <2>2, <3>1 DEF Clean, CleanRef, InfoOf
    <3>3. QED
      BY <1>2, <2>2, <3>1, <3>2 DEF FindsNone
  <2>3. ASSUME NEW k \in FindExisting(req[r].key, InfoOf(r).ref),
               req'[r].charge = req[r].charge, req'[r].existing = k,
               req'[r].pc = "account", ~(k # None /\ Fulfilled(k))
        PROVE  FindsNone(r)'
    <3>1. ASSUME Clean(c), k # None PROVE FALSE
      <4>1. k \in RowKeys /\ Exists(k) /\ k \notin FreeKeys /\ KeyRef(k) = Info[c].ref
        BY <1>1, <1>2, <3>1, FoundMatches
      <4>2. QED
        BY <2>3, <3>1, <4>1 DEF CleanRows, Clean
    <3>2. QED
      BY <1>2, <2>3, <3>1 DEF FindsNone, Recording
  <2>4. QED
    BY <1>1, <1>5, <2>1, <2>2, <2>3, RowIsFound
<1>6. CASE ~LookUp(r) /\ ~LookUpFailed(r)
  <2>1. CASE KeepsRow(r, Quietly) \/ KeepsRow(r, {"mail"})
    BY <1>4, <2>1 DEF KeepsRow
  <2>2. CASE KeepsRow(r, {Route(req[r].charge)})
    <3>1. CASE Info[c].outcome = "successful"
      BY <1>2, <1>4, <2>2, <3>1 DEF KeepsRow, Route
    <3>2. CASE Info[c].outcome = "failed"
      <4>1. Route(req[r].charge) = "lookupFailed"
        BY <1>2, <3>2 DEF Route
      <4>2. CASE req'[r].pc = "idle"
        BY <4>2 DEF FindsNone, Recording
      <4>3. CASE /\ req'[r].pc = "lookupFailed" /\ req'[r].charge = c
                 /\ req'[r].existing = req[r].existing
        BY <1>1, <1>2, <3>2, <4>3 DEF FindsNone, InfoOf, At
      <4>4. QED
        BY <1>2, <2>2, <4>1, <4>2, <4>3 DEF KeepsRow
    <3>3. QED
      BY <1>3, <3>1, <3>2
  <2>3. QED
    BY <1>1, <1>6, <2>1, <2>2, RowIsKept
<1>7. QED
  BY <1>5, <1>6

LEMMA FindsStep ==
  ASSUME Safe, Mails, [Next]_vars
  PROVE  \A r \in Requests : FindsNone(r)'
<1>0. Typed /\ CleanRows /\ \A r \in Requests : FindsNone(r)
  BY DEF Safe, Mails
<1>1. ASSUME NEW q \in Requests, req'[q] = req[q] \/ req'[q].pc = "idle" PROVE FindsNone(q)'
  BY <1>0, <1>1 DEF FindsNone, InfoOf, Recording
<1>2. ASSUME NEW r \in Requests, Proceed(r) \/ Fail(r), NEW q \in Requests
      PROVE  FindsNone(q)'
  BY <1>0, <1>1, <1>2, ProceedFinds, ProceedContinues DEF Continues
<1>3. ASSUME NEW r \in Requests, Arrive(r), NEW q \in Requests PROVE FindsNone(q)'
  <2>1. q # r => req'[q] = req[q]
    BY <1>0, <1>3 DEF Arrive, Verify, SyncTransaction, ReceiveWebhook, Accept, Typed, TypeOK
  <2>2. QED
    BY <1>0, <1>1, <1>3, <2>1, ArrivalFinds
<1>4. CASE Restart
  BY <1>1, <1>4 DEF Restart, NoRequest
<1>5. CASE UNCHANGED req
  BY <1>1, <1>5
<1>6. QED
  BY <1>2, <1>3, <1>4, <1>5 DEF Next, EnrollFree, vars

\* The rows of charges change by a fulfilment or by the record of a failure.
LEMMA ChargeRowsChange ==
  ASSUME Typed, [Next]_vars
  PROVE  \/ \A k \in RowKeys \ FreeKeys : txs'[k] = txs[k]
         \/ \E r \in Requests : ~At(r, "idle") /\ txs' = Saved(r, "success", TRUE)
         \/ \E r \in Requests : At(r, "recordFailed") /\ txs' = Saved(r, "failed", FALSE)
<1>1. CASE UNCHANGED txs
  BY <1>1
<1>2. ASSUME NEW r \in Requests,
             \/ RedeemCode(r) \/ CommitOnboarding(r)
             \/ CommitCourse(r) \/ RecordFailed(r)
             \/ SaveEvent(r) \/ FinishEvent(r)
      PROVE  \/ UNCHANGED txs
             \/ ~At(r, "idle") /\ txs' = Saved(r, "success", TRUE)
             \/ At(r, "recordFailed") /\ txs' = Saved(r, "failed", FALSE)
  BY <1>2 DEF RedeemCode, CommitOnboarding, CommitCourse, RecordFailed,
              SaveEvent, FinishEvent, At
<1>3. ASSUME NEW s \in Students, NEW courses \in SUBSET Courses, EnrollFree(s, courses)
      PROVE  \A k \in RowKeys \ FreeKeys : txs'[k] = txs[k]
  <2> DEFINE row == [charge |-> None, status |-> "success", fulfilled |-> TRUE]
  <2> HIDE DEF row
  <2>1. txs' = [j \in RowKeys |-> IF j \in {s} \X courses THEN row ELSE txs[j]]
    BY <1>3 DEF EnrollFree, row
  <2>2. {s} \X courses \subseteq FreeKeys
    BY DEF FreeKeys
  <2>3. QED
    BY <2>1, <2>2
<1>4. QED
  BY <1>1, <1>2, <1>3, NextCases

LEMMA CleanRowsStep ==
  ASSUME Safe, Mails, [Next]_vars
  PROVE  CleanRows'
<1>0. Typed /\ CleanRows /\ \A r \in Requests : RequestMatches(r) /\ FindsNone(r)
  BY DEF Safe, Mails, RequestsMatch
<1> SUFFICES ASSUME NEW k \in RowKeys, k \notin FreeKeys, Exists(k)', CleanRef(KeyRef(k))
             PROVE  Fulfilled(k)'
  BY DEF CleanRows, CleanRef, KeyRef
<1>1. ASSUME txs'[k] = txs[k] PROVE Fulfilled(k)'
  BY <1>0, <1>1 DEF CleanRows, Fulfilled, Exists
<1>2. ASSUME NEW r \in Requests, ~At(r, "idle"), txs' = Saved(r, "success", TRUE)
      PROVE  Fulfilled(k)'
  <2>1. CASE k = RowOf(r)
    <3>1. txs'[k] = [charge |-> req[r].charge, status |-> "success", fulfilled |-> TRUE]
      BY <1>0, <1>2, <2>1, SavedRow
    <3>2. QED
      BY <3>1 DEF Fulfilled
  <2>2. CASE k # RowOf(r)
    BY <1>0, <1>1, <1>2, <2>2, SavedRow
  <2>3. QED
    BY <2>1, <2>2
<1>3. ASSUME NEW r \in Requests, At(r, "recordFailed"), txs' = Saved(r, "failed", FALSE)
      PROVE  Fulfilled(k)'
  <2>1. ~At(r, "idle")
    BY <1>3 DEF At
  <2>2. k # RowOf(r)
    <3>1. PICK c \in Charges : c = req[r].charge /\ InfoOf(r) = Info[c]
      BY <1>0, <2>1, ChargeOf
    <3>2. Info[c].outcome = "failed"
      BY <1>0, <1>3, <3>1 DEF FindsNone, Recording, At
    <3>3. KeyRef(RowOf(r)) = Info[c].ref
      BY <1>0, <2>1, <3>1, RowOfRef
    <3>4. QED
      BY <3>2, <3>3 DEF CleanRef
  <2>3. QED
    BY <1>0, <1>1, <1>3, <2>1, <2>2, SavedRow
<1>4. QED
  BY <1>0, <1>1, <1>2, <1>3, ChargeRowsChange

LEMMA ChargeRowStays ==
  ASSUME Safe, [Next]_vars, NEW c \in Charges, Exists(c)
  PROVE  Exists(c)'
<1>1. Safe'
  BY NextSafe
<1>2. c \in RowKeys /\ c \notin FreeKeys
  BY KeyAssumption DEF RowKeys
<1>3. HasRef(c, Info[c].ref)
  BY <1>2, KeyAssumption DEF Safe, RowsMatch, RowMatches, HasRef, KeyRef, RowKeys
<1>4. HasRef(c, Info[c].ref)'
  BY <1>1, <1>2, <1>3, RowsStay DEF Safe
<1>5. QED
  BY <1>4 DEF HasRef

LEMMA MailsGoOn ==
  ASSUME NEW c \in Charges, MailsOf(c), Exists(c) => Exists(c)', mails'[c] = mails[c],
         \A q \in Requests : Mailing(q, c)' => Mailing(q, c)
  PROVE  MailsOf(c)'
BY DEF MailsOf

\* A handler that goes on to its mail has just inserted the row of its charge.
LEMMA MailFollowsRow ==
  ASSUME Safe, NEW r \in Requests, FindsNone(r), Proceed(r) \/ Fail(r),
         NEW c \in Charges, Clean(c), Mailing(r, c)'
  PROVE  ~Exists(c) /\ Exists(c)'
<1>1. Typed /\ ~At(r, "idle")
  BY DEF Proceed, ReadEvent, SaveEvent, FinishEvent, LookUp, ReadAccount,
         CheckRegistered, RedeemCode, CommitOnboarding, ReadCatalog, ReadCart,
         CommitCourse, SendMail, LookUpFailed, RecordFailed, At, Fail, Safe
<1>2. req'[r].pc = "mail" /\ req'[r].charge = c
  BY DEF Mailing, At
<1>3. req[r].charge = c /\ CanSave(r) /\ txs' = Saved(r, "success", TRUE)
  <2>1. ~LookUp(r) /\ ~LookUpFailed(r)
    BY <1>1, <1>2, RowIsFound DEF KeepsRow
  <2>2. Route(req[r].charge) # "mail"
    BY DEF Route
  <2>3. QED
    BY <1>1, <1>2, <2>1, <2>2, RowIsKept DEF KeepsRow, Quietly
<1>4. req[r].existing = None /\ req[r].key = c
  <2>1. c \notin IdlessWebhooks
    BY DEF Clean, CleanRef
  <2>2. req[r].key \in KeysOf(c)
    BY <1>1, <1>3, RowOfType
  <2>3. req[r].key = c
    BY <2>1, <2>2 DEF KeysOf
  <2>4. Clean(req[r].charge)
    BY <1>3
  <2>5. QED
    BY <1>1, <2>3, <2>4 DEF FindsNone, At
<1>5. txs'[c] = [charge |-> c, status |-> "success", fulfilled |-> TRUE]
  <2>1. RowOf(r) = c
    BY <1>4 DEF RowOf
  <2>2. txs'[RowOf(r)] = [charge |-> req[r].charge, status |-> "success", fulfilled |-> TRUE]
    BY <1>1, <1>3, SavedRow
  <2>3. QED
    BY <1>3, <2>1, <2>2
<1>6. [charge |-> c, status |-> "success", fulfilled |-> TRUE] # None
  <2>1. [charge |-> c, status |-> "success", fulfilled |-> TRUE] \in Row
    BY DEF Row
  <2>2. QED
    BY <2>1, KeyAssumption
<1>7. QED
  BY <1>3, <1>4, <1>5, <1>6 DEF CanSave, Exists

LEMMA SendMailCounts ==
  ASSUME Safe, NEW r \in Requests, SendMail(r), NEW c \in Charges, MailsOf(c),
         Exists(c) => Exists(c)'
  PROVE  MailsOf(c)'
<1>1. Typed /\ At(r, "mail") /\ ~At(r, "idle")
  BY DEF Safe, SendMail, At
<1>2. ~Mailing(r, c)'
  BY <1>1, ConcludeKeepsRow DEF SendMail, KeepsRow, Mailing, At
<1>3. ASSUME NEW q \in Requests, Mailing(q, c)' PROVE Mailing(q, c) /\ q # r
  <2>1. Continues(r)
    BY <1>1, ProceedContinues DEF Proceed
  <2>2. QED
    BY <1>2, <1>3, <2>1 DEF Continues, Mailing, At
<1>4. /\ mails \in [Charges -> 0..2]
      /\ mails' = [mails EXCEPT ![req[r].charge] = IF @ = 0 THEN 1 ELSE 2]
  BY <1>1 DEF SendMail, Typed, TypeOK
<1>5. CASE req[r].charge = c
  <2>1. Exists(c) /\ mails[c] = 0 /\ \A q \in Requests : Mailing(q, c) => q = r
    BY <1>1, <1>5 DEF MailsOf, Mailing
  <2>2. mails'[c] = 1
    BY <1>4, <1>5, <2>1
  <2>3. QED
    BY <1>3, <2>1, <2>2 DEF MailsOf
<1>6. CASE req[r].charge # c
  BY <1>3, <1>4, <1>6, MailsGoOn
<1>7. QED
  BY <1>5, <1>6

LEMMA MailsStep ==
  ASSUME Safe, Mails, [Next]_vars, NEW c \in Charges, Clean(c)
  PROVE  MailsOf(c)'
<1>0. /\ Typed /\ MailsOf(c) /\ \A r \in Requests : FindsNone(r)
      /\ Exists(c) => Exists(c)'
  BY ChargeRowStays DEF Safe, Mails
<1>1. ASSUME NEW r \in Requests, Arrive(r) PROVE MailsOf(c)'
  <2>1. UNCHANGED mails /\ \A q \in Requests \ {r} : req'[q] = req[q]
    BY <1>0, <1>1 DEF Arrive, Verify, SyncTransaction, ReceiveWebhook, Accept, Typed, TypeOK
  <2>2. ~At(r, "mail")'
    BY <1>0, <1>1, ArrivalFinds DEF At
  <2>3. QED
    BY <1>0, <2>1, <2>2, MailsGoOn DEF Mailing, At
<1>2. ASSUME NEW r \in Requests, Proceed(r) \/ Fail(r), ~SendMail(r) PROVE MailsOf(c)'
  <2>1. UNCHANGED mails
    BY <1>2 DEF Proceed, ReadEvent, SaveEvent, FinishEvent, LookUp, ReadAccount,
         CheckRegistered, RedeemCode, CommitOnboarding, ReadCatalog, ReadCart,
         CommitCourse, LookUpFailed, RecordFailed, Fail
  <2>2. ASSUME NEW q \in Requests, q # r, Mailing(q, c)' PROVE Mailing(q, c)
    BY <1>0, <1>2, <2>2, ProceedContinues DEF Continues, Mailing, At
  <2>3. CASE Mailing(r, c)'
    <3>1. ~Exists(c) /\ Exists(c)'
      BY <1>0, <1>2, <2>3, MailFollowsRow
    <3>2. mails[c] = 0 /\ \A q \in Requests : ~Mailing(q, c)
      BY <1>0, <3>1 DEF MailsOf, Typed, TypeOK
    <3>3. QED
      BY <2>1, <2>2, <3>1, <3>2 DEF MailsOf
  <2>4. CASE ~Mailing(r, c)'
    BY <1>0, <2>1, <2>2, <2>4, MailsGoOn
  <2>5. QED
    BY <2>3, <2>4
<1>3. ASSUME NEW r \in Requests, SendMail(r) PROVE MailsOf(c)'
  BY <1>0, <1>3, SendMailCounts
<1>4. CASE Restart
  <2>1. UNCHANGED mails /\ \A q \in Requests : ~Mailing(q, c)'
    BY <1>4 DEF Restart, Mailing, At, NoRequest
  <2>2. QED
    BY <1>0, <2>1, MailsGoOn
<1>5. CASE UNCHANGED <<req, mails>>
  BY <1>0, <1>5, MailsGoOn DEF Mailing, At
<1>6. QED
  BY <1>1, <1>2, <1>3, <1>4, <1>5 DEF Next, EnrollFree, vars

LEMMA InitMails == Init => Mails
<1> SUFFICES ASSUME Init PROVE Mails
  OBVIOUS
<1>1. CleanRows
  BY DEF Init, CleanRows, Exists
<1>2. \A r \in Requests : FindsNone(r) /\ ~At(r, "mail")
  BY DEF Init, FindsNone, NoRequest, Recording, At
<1>3. \A c \in Charges : MailsOf(c)
  BY <1>2 DEF Init, MailsOf, Mailing
<1>4. QED
  BY <1>1, <1>2, <1>3 DEF Mails

LEMMA NextMails == Safe /\ Mails /\ [Next]_vars => Mails'
<1> SUFFICES ASSUME Safe, Mails, [Next]_vars PROVE Mails'
  OBVIOUS
<1>1. CleanRows' /\ \A r \in Requests : FindsNone(r)'
  BY CleanRowsStep, FindsStep
<1>2. \A c \in Charges : Clean(c) => MailsOf(c)'
  BY MailsStep
<1>3. QED
  BY <1>1, <1>2 DEF Mails, Clean, CleanRef

LEMMA CleanIsMailedOnce == Safe /\ Mails => MailedOnce
<1> SUFFICES ASSUME Safe, Mails, NEW c \in Charges, mails[c] > 1
             PROVE  \E d \in Charges : /\ Info[d].ref = Info[c].ref
                                       /\ Info[d].outcome = "failed" \/ d \in IdlessWebhooks
  BY DEF MailedOnce
<1>1. ~Clean(c)
  BY DEF Mails, MailsOf, Safe, Typed, TypeOK
<1>2. QED
  BY <1>1, ChargeData DEF Clean, CleanRef, Outcomes

\* A charge is mailed once however many doors report it, and however often,
\* if no attempt of its checkout failed and each webhook names its charge.
THEOREM ChargesAreMailedOnce == Spec => []MailedOnce
<1>1. Safe /\ Mails /\ [Next]_vars => Safe' /\ Mails'
  BY NextSafe, NextMails
<1>2. QED
  BY <1>1, InitSafe, InitMails, CleanIsMailedOnce, PTL DEF Spec
-----------------------------------------------------------------------------
(* The promise of the inventory of codes, kept by payments too.            *)

LEMMA InitStocked == Init => Stock!Init
<1> SUFFICES ASSUME Init PROVE Stock!Init
  OBVIOUS
<1>1. Redeemable \in SUBSET Codes
  BY TypeAssumption DEF Redeemable
<1>2. Redeemed = {}
  BY DEF Init, Redeemed
<1>3. [s \in Students |-> users[s].code] = [s \in Students |-> None]
  BY DEF Init
<1>4. QED
  BY <1>1, <1>2, <1>3 DEF Init, Stock!Init

\* The code was redeemable when the transaction read it under the lock, and the
\* student, who had no account, had no code.
LEMMA PaymentRedeems ==
  ASSUME Safe, NEW r \in Requests, RedeemCode(r), ~UNCHANGED <<users, codes>>
  PROVE  Stock!Next
<1> DEFINE opens == [s \in Students |-> users[s].code]
<1>1. ~At(r, "idle")
  BY DEF RedeemCode, At
<1>2. PICK c \in Charges : /\ InfoOf(r) = Info[c] /\ Info[c].student \in Students
                          /\ Info[c].code \in Codes
  BY <1>1, ChargeOf DEF Safe
<1>3. /\ Usable(Info[c].code) /\ StatusOf(Info[c].student) = "none"
      /\ codes' = [codes EXCEPT ![Info[c].code] = Info[c].student]
      /\ users' = [users EXCEPT ![Info[c].student] = NewAccount(Info[c].code)]
  BY <1>2 DEF RedeemCode
<1>4. PICK s \in Students, k \in Codes : s = Info[c].student /\ k = Info[c].code
  BY <1>2
<1>5. /\ k \in ValidCodes /\ codes[k] = None /\ users[s].code = None
      /\ codes' = [codes EXCEPT ![k] = s]
      /\ users' = [users EXCEPT ![s] = NewAccount(k)]
  BY <1>3, <1>4 DEF Usable, Safe, NewHasNoCode
<1>6. codes'[k] = s /\ \A j \in Codes : j # k => codes'[j] = codes[j]
  BY <1>5 DEF Safe, Typed, TypeOK
<1>7. k \in Redeemable /\ Redeemable' = Redeemable \ {k} /\ Redeemed' = Redeemed \cup {k}
  <2>1. s # None
    BY NoneAssumption
  <2>2. QED
    BY <1>5, <1>6, <2>1, TypeAssumption DEF Redeemable, Redeemed
<1>8. opens' = [opens EXCEPT ![s] = k]
  <2>1. users'[s].code = k /\ \A t \in Students : t # s => users'[t].code = users[t].code
    BY <1>5 DEF NewAccount, Safe, Typed, TypeOK
  <2>2. QED
    BY <2>1
<1>9. Stock!Redeem(s, k)
  BY <1>5, <1>7, <1>8 DEF Stock!Redeem
<1>10. QED
  BY <1>9 DEF Stock!Next

LEMMA StepStocked == Safe /\ [Next]_vars => [Stock!Next]_Stock!stockVars
<1> SUFFICES ASSUME Safe, [Next]_vars PROVE [Stock!Next]_Stock!stockVars
  OBVIOUS
<1>1. CASE UNCHANGED <<users, codes>>
  BY <1>1 DEF Stock!stockVars, Redeemable, Redeemed
<1>2. ASSUME NEW r \in Requests, CommitOnboarding(r), ~UNCHANGED users
      PROVE  UNCHANGED Stock!stockVars
  <2>1. users' = [users EXCEPT ![InfoOf(r).student].status = "onboarded"] /\ UNCHANGED codes
    BY <1>2 DEF CommitOnboarding
  <2>2. \A s \in Students : users'[s].code = users[s].code
    BY <2>1 DEF Safe, Typed, TypeOK
  <2>3. QED
    BY <2>1, <2>2 DEF Stock!stockVars, Redeemable, Redeemed
<1>3. QED
  BY <1>1, <1>2, NextCases, PaymentRedeems
  DEF CommitOnboarding, CommitCourse, RecordFailed, SaveEvent, FinishEvent, EnrollFree

\* Verifications, webhooks and syncs of any charges, failing and restarting anywhere,
\* redeem codes as the inventory promises: createStudentFromOnboardingPayment takes
\* one redeemable code for one account that had none, for good.
THEOREM PaymentsRedeemCodes == Spec => ImplementsCodeStock
<1>1. Spec => Stock!Spec
  BY InitStocked, StepStocked, AlwaysSafe, PTL DEF Spec, Stock!Spec
<1>2. QED
  BY <1>1 DEF ImplementsCodeStock
=============================================================================
