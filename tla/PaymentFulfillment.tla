------------------------- MODULE PaymentFulfillment -------------------------
(***************************************************************************)
(* The fulfilment of Flutterwave payments by payment-fulfillment.service.  *)
(*                                                                         *)
(* A charge that Flutterwave took reaches the backend through any of three *)
(* doors, possibly several at once: the student's browser asks for a       *)
(* verification ("api"), Flutterwave posts a webhook ("webhook"), or the   *)
(* superadmin replays the list of charges ("sync").  Every door runs the   *)
(* same code: look for the payment row, read the account (or the           *)
(* enrolments), then write everything in one database transaction, and     *)
(* send the mail after it.  Node interleaves the requests at every await,  *)
(* so what a request read may be stale when it writes.                     *)
(*                                                                         *)
(* One step of a request is the code between two awaits that other         *)
(* requests can be ordered against.  A database transaction is one step:   *)
(* its writes become visible together, and the UNIQUE indexes and the row  *)
(* lock on the access code are evaluated against the committed rows.       *)
(* Money is in minor units, so the 0.001 tolerance of the code is none.    *)
(***************************************************************************)
EXTENDS Checkout

CONSTANTS
  Requests,         \* requests the server handles concurrently
  IdlessWebhooks,   \* charges with a webhook that carries a tx_ref and no data.id
  MaxFaults         \* bound on the number of errors and restarts

ASSUME HandlerAssumption == IdlessWebhooks \subseteq Charges /\ MaxFaults \in Nat

\* A free enrolment writes its payment row under a fresh free-<uuid>.
FreeKeys == Students \X Courses
RowKeys  == Charges \cup TxRefs \cup FreeKeys

Row == [charge : Charges \cup {None}, status : {"success", "failed"},
        fulfilled : BOOLEAN]

ASSUME KeyAssumption ==
  /\ None \notin RowKeys
  /\ None \notin Row
  /\ Charges \cap TxRefs = {}
  /\ (Charges \cup TxRefs) \cap FreeKeys = {}

VARIABLES
  txs,          \* payment_transactions, by externalTransactionId (UNIQUE)
  users,        \* student accounts: onboarding status and the code redeemed
  codes,        \* the student an access code was redeemed by
  enrollments,  \* course_enrollments: the paying row (UNIQUE per student, course)
  events,       \* payment_webhook_events: is the processing result complete?
  mails,        \* receipts and course deliveries sent for each charge
  req,          \* the request each handler is in the middle of
  faults

vars == <<txs, users, codes, enrollments, events, mails, req, faults>>

-----------------------------------------------------------------------------
(* Requests.                                                               *)

InTransaction == {"register", "redeem", "commitOnboarding", "cart", "commitCourse"}
Verifying     == {"lookup", "account", "catalog", "mail"} \cup InTransaction
Recording     == {"lookupFailed", "recordFailed"}
Steps         == {"idle", "event", "saveEvent", "finish"} \cup Verifying \cup Recording

Request == [pc : Steps, source : {"api", "webhook", "sync"},
            charge : Charges \cup {None}, key : Charges \cup TxRefs \cup {None},
            existing : RowKeys \cup {None}, owned : SUBSET Courses,
            seen : BOOLEAN, ok : BOOLEAN]

NoRequest == [pc |-> "idle", source |-> "api", charge |-> None, key |-> None,
              existing |-> None, owned |-> {}, seen |-> FALSE, ok |-> FALSE]

At(r, step) == req[r].pc = step
Goto(r, step) == req' = [req EXCEPT ![r].pc = step]
InfoOf(r) == Info[req[r].charge]

\* Mutant: the event's result is complete whatever the handler answered.
ConcludeComplete(r, ok) ==
  req' = [req EXCEPT ![r] = IF req[r].source = "webhook"
                            THEN [req[r] EXCEPT !.pc = "finish", !.ok = TRUE]
                            ELSE NoRequest]

\* A handler ends; a webhook first stores its result with the event.
Conclude(r, ok) ==
  req' = [req EXCEPT ![r] = IF req[r].source = "webhook"
                            THEN [req[r] EXCEPT !.pc = "finish", !.ok = ok]
                            ELSE NoRequest]

EventIds == (Charges \cup TxRefs) \X Outcomes
EventOf(r) == <<req[r].key, InfoOf(r).outcome>>

\* The external id of a charge, or its reference when the webhook has no id.
KeysOf(c) == {c} \cup IF c \in IdlessWebhooks THEN {Info[c].ref} ELSE {}

\* The handler that the charge's status selects.
Route(c) == IF Info[c].outcome = "successful" THEN "lookup" ELSE "lookupFailed"

Accept(r, source, c, key, step) ==
  /\ At(r, "idle")
  /\ req' = [req EXCEPT ![r] = [NoRequest EXCEPT !.source = source, !.charge = c,
                                                 !.key = key, !.pc = step]]
  /\ UNCHANGED <<txs, users, codes, enrollments, events, mails, faults>>

\* POST /payments/verify and the onboarding requery: only a charge that
\* Flutterwave reports as successful gets past the status check.
Verify(r, c) ==
  /\ Info[c].outcome = "successful"
  /\ Accept(r, "api", c, c, "lookup")

\* One charge of the superadmin's sync.
SyncTransaction(r, c) == Accept(r, "sync", c, c, Route(c))

ReceiveWebhook(r, c) == \E key \in KeysOf(c) : Accept(r, "webhook", c, key, "event")

-----------------------------------------------------------------------------
(* The webhook event row.                                                  *)

\* A redelivery of an event whose processing is complete is dropped.
ReadEvent(r) ==
  /\ At(r, "event")
  /\ IF events[EventOf(r)] = "complete"
     THEN req' = [req EXCEPT ![r] = NoRequest]
     ELSE req' = [req EXCEPT ![r].pc = "saveEvent",
                             ![r].seen = (events[EventOf(r)] # "absent")]
  /\ UNCHANGED <<txs, users, codes, enrollments, events, mails, faults>>

\* The event is inserted, or updated with the result that was read before; a
\* second first delivery hits the UNIQUE index and is answered with an error.
SaveEvent(r) ==
  /\ At(r, "saveEvent")
  /\ IF ~req[r].seen /\ events[EventOf(r)] # "absent"
     THEN /\ req' = [req EXCEPT ![r] = NoRequest]
          /\ UNCHANGED events
     ELSE /\ Goto(r, Route(req[r].charge))
          /\ events' = [events EXCEPT ![EventOf(r)] = "incomplete"]
  /\ UNCHANGED <<txs, users, codes, enrollments, mails, faults>>

FinishEvent(r) ==
  /\ At(r, "finish")
  /\ events' = [events EXCEPT ![EventOf(r)] =
                  IF req[r].ok THEN "complete" ELSE "incomplete"]
  /\ req' = [req EXCEPT ![r] = NoRequest]
  /\ UNCHANGED <<txs, users, codes, enrollments, mails, faults>>

-----------------------------------------------------------------------------
(* Looking up the payment row.                                             *)

Exists(k) == txs[k] # None

\* Mutant: a row is proof enough, fulfilled or not.
FulfilledIfExists(k) == Exists(k)

Fulfilled(k) == Exists(k) /\ txs[k].fulfilled
HasRef(k, ref) == Exists(k) /\ txs[k].charge # None /\ Info[txs[k].charge].ref = ref

\* By external id, else any row with the same reference, else none.
FindExisting(key, ref) ==
  LET sameRef == {k \in RowKeys : HasRef(k, ref)}
  IN  IF Exists(key) THEN {key} ELSE IF sameRef = {} THEN {None} ELSE sameRef

LookUp(r) ==
  /\ At(r, "lookup")
  /\ \E k \in FindExisting(req[r].key, InfoOf(r).ref) :
       IF k # None /\ Fulfilled(k)
       THEN Conclude(r, TRUE)
       ELSE req' = [req EXCEPT ![r].existing = k, ![r].pc = "account"]
  /\ UNCHANGED <<txs, users, codes, enrollments, events, mails, faults>>

\* Mutant: the index on externalTransactionId is not UNIQUE.
SaveAlways(r) == TRUE

\* Mutants: Flutterwave's own status is stored; every row is marked fulfilled.
SavedRaw(r, status, fulfilled) ==
  [txs EXCEPT ![IF req[r].existing = None THEN req[r].key ELSE req[r].existing] =
     [charge |-> req[r].charge, status |-> InfoOf(r).outcome, fulfilled |-> fulfilled]]
SavedFulfilled(r, status, fulfilled) ==
  [txs EXCEPT ![IF req[r].existing = None THEN req[r].key ELSE req[r].existing] =
     [charge |-> req[r].charge, status |-> status, fulfilled |-> TRUE]]

\* A row is inserted under the request's key unless the look-up found one;
\* the insertion fails when another request inserted that key meanwhile.
RowOf(r) == IF req[r].existing = None THEN req[r].key ELSE req[r].existing
CanSave(r) == req[r].existing = None => ~Exists(req[r].key)
Saved(r, status, fulfilled) ==
  [txs EXCEPT ![RowOf(r)] =
     [charge |-> req[r].charge, status |-> status, fulfilled |-> fulfilled]]

\* What follows a committed fulfilment: sync sends no mail.
AfterCommit(r, notify) ==
  IF notify /\ req[r].source # "sync" THEN Goto(r, "mail") ELSE Conclude(r, TRUE)

-----------------------------------------------------------------------------
(* Reading the account.                                                    *)

StatusOf(s) == users[s].status

\* Mutant: any amount will do.
PaysSomething(c) == Info[c].amount > 0

PaysFee(c) == Info[c].amount >= OnboardingFee

ReadAccount(r) ==
  /\ At(r, "account")
  /\ LET i == InfoOf(r)
     IN  \/ /\ i.paidFor = "onboarding"
            /\ PaysFee(req[r].charge)
            /\ Goto(r, IF StatusOf(i.student) = "none" THEN "register"
                                                      ELSE "commitOnboarding")
         \/ /\ i.paidFor = "onboarding"
            /\ ~PaysFee(req[r].charge)
            /\ Conclude(r, FALSE)
         \/ /\ i.paidFor = "course"
            /\ IF StatusOf(i.student) = "onboarded" /\ i.courses # {}
               THEN Goto(r, "catalog")
               ELSE Conclude(r, FALSE)
  /\ UNCHANGED <<txs, users, codes, enrollments, events, mails, faults>>

-----------------------------------------------------------------------------
(* Onboarding.                                                             *)

\* Inside the transaction, on another connection: is the e-mail still free?
\* If not, the account that took it is onboarded instead of a new one.
CheckRegistered(r) ==
  /\ At(r, "register")
  /\ Goto(r, IF StatusOf(InfoOf(r).student) = "none" THEN "redeem"
                                                    ELSE "commitOnboarding")
  /\ UNCHANGED <<txs, users, codes, enrollments, events, mails, faults>>

\* Mutant: the code's row is not read again under the lock.
UsableOnce(k) == k \in ValidCodes

Usable(k) == k \in ValidCodes /\ codes[k] = None

\* Mutant: the account is opened and the ONBOARDED status forgotten.
RegisteredAccount(k) == [status |-> "registered", code |-> k]

NewAccount(k) == [status |-> "onboarded", code |-> k]

\* The access code is locked and redeemed, the account, the payment row and
\* the ONBOARDED status are committed with it, or nothing is.
RedeemCode(r) ==
  /\ At(r, "redeem")
  /\ LET i == InfoOf(r)
     IN  \/ /\ Usable(i.code)
            /\ StatusOf(i.student) = "none" /\ CanSave(r)
            /\ codes' = [codes EXCEPT ![i.code] = i.student]
            /\ users' = [users EXCEPT ![i.student] = NewAccount(i.code)]
            /\ txs' = Saved(r, "success", TRUE)
            /\ AfterCommit(r, TRUE)
         \/ /\ Usable(i.code)
            /\ ~(StatusOf(i.student) = "none" /\ CanSave(r))
            /\ Conclude(r, FALSE)
            /\ UNCHANGED <<txs, users, codes>>
         \/ /\ ~Usable(i.code)
            /\ IF StatusOf(i.student) = "none"
               THEN Conclude(r, FALSE)
               ELSE Goto(r, "commitOnboarding")
            /\ UNCHANGED <<txs, users, codes>>
  /\ UNCHANGED <<enrollments, events, mails, faults>>

CommitOnboarding(r) ==
  /\ At(r, "commitOnboarding")
  /\ IF CanSave(r)
     THEN /\ users' = [users EXCEPT ![InfoOf(r).student].status = "onboarded"]
          /\ txs' = Saved(r, "success", TRUE)
          /\ AfterCommit(r, TRUE)
     ELSE /\ Conclude(r, FALSE)
          /\ UNCHANGED <<txs, users>>
  /\ UNCHANGED <<codes, enrollments, events, mails, faults>>

-----------------------------------------------------------------------------
(* Courses, singly or in a cart.                                           *)

Enrolled(s, k) == enrollments[s][k] # None
OwnedNow(r) == {k \in InfoOf(r).courses : Enrolled(InfoOf(r).student, k)}

\* Mutant: the catalogue price is not compared.
UnpricedCatalog(r) == req[r].existing = None => OwnedNow(r) = {}

\* A payment without a row is refused for a course the student already owns.
CatalogAccepts(r) ==
  /\ req[r].existing = None => OwnedNow(r) = {}
  /\ InfoOf(r).amount >= Total(InfoOf(r).courses)

ReadCatalog(r) ==
  /\ At(r, "catalog")
  /\ IF CatalogAccepts(r)
     THEN req' = [req EXCEPT ![r].owned = OwnedNow(r),
                             ![r].pc = IF Cardinality(InfoOf(r).courses) = 1
                                       THEN "commitCourse" ELSE "cart"]
     ELSE Conclude(r, FALSE)
  /\ UNCHANGED <<txs, users, codes, enrollments, events, mails, faults>>

\* A cart reads the enrolments again inside its transaction, on a connection
\* that sees what the others have committed.
ReadCart(r) ==
  /\ At(r, "cart")
  /\ req' = [req EXCEPT ![r].owned = OwnedNow(r), ![r].pc = "commitCourse"]
  /\ UNCHANGED <<txs, users, codes, enrollments, events, mails, faults>>

\* Mutant: the UNIQUE index is missing.
InsertsAnyway(r) == TRUE

NewCourses(r) == InfoOf(r).courses \ req[r].owned
InsertsUnique(r) == \A k \in NewCourses(r) : ~Enrolled(InfoOf(r).student, k)

\* The courses not owned when they were read are inserted; one that was
\* enrolled meanwhile violates the UNIQUE index and everything is rolled back.
CommitCourse(r) ==
  /\ At(r, "commitCourse")
  /\ IF CanSave(r) /\ InsertsUnique(r)
     THEN /\ txs' = Saved(r, "success", TRUE)
          /\ enrollments' = [enrollments EXCEPT ![InfoOf(r).student] =
               [k \in Courses |-> IF k \in NewCourses(r)
                                  THEN RowOf(r)
                                  ELSE enrollments[InfoOf(r).student][k]]]
          /\ AfterCommit(r, NewCourses(r) # {})
     ELSE /\ Conclude(r, FALSE)
          /\ UNCHANGED <<txs, enrollments>>
  /\ UNCHANGED <<users, codes, events, mails, faults>>

\* enrollFreeCourses.  Onboarding is never undone here and an enrolment never
\* deleted, so its reads and its transaction can be taken as one step.
EnrollFree(s, courses) ==
  /\ StatusOf(s) = "onboarded"
  /\ courses # {}
  /\ \A k \in courses : Price[k] = 0 /\ ~Enrolled(s, k)
  /\ txs' = [k \in RowKeys |->
               IF k \in {s} \X courses
               THEN [charge |-> None, status |-> "success", fulfilled |-> TRUE]
               ELSE txs[k]]
  /\ enrollments' = [enrollments EXCEPT ![s] =
       [k \in Courses |-> IF k \in courses THEN <<s, k>> ELSE enrollments[s][k]]]
  /\ UNCHANGED <<users, codes, events, mails, req, faults>>

-----------------------------------------------------------------------------
(* After the transaction.                                                  *)

\* The count saturates: "more than once" is all that is told apart.
SendMail(r) ==
  /\ At(r, "mail")
  /\ mails' = [mails EXCEPT ![req[r].charge] = IF @ = 0 THEN 1 ELSE 2]
  /\ Conclude(r, TRUE)
  /\ UNCHANGED <<txs, users, codes, enrollments, events, faults>>

-----------------------------------------------------------------------------
(* Recording a failed attempt (webhook and sync).                          *)

\* A fulfilled payment is left alone, if it was fulfilled when it was read.
LookUpFailed(r) ==
  /\ At(r, "lookupFailed")
  /\ \E k \in FindExisting(req[r].key, InfoOf(r).ref) :
       IF k # None /\ Fulfilled(k) /\ txs[k].status = "success"
       THEN Conclude(r, FALSE)
       ELSE req' = [req EXCEPT ![r].existing = k, ![r].pc = "recordFailed"]
  /\ UNCHANGED <<txs, users, codes, enrollments, events, mails, faults>>

RecordFailed(r) ==
  /\ At(r, "recordFailed")
  /\ txs' = IF CanSave(r) THEN Saved(r, "failed", FALSE) ELSE txs
  /\ Conclude(r, FALSE)
  /\ UNCHANGED <<users, codes, enrollments, events, mails, faults>>

-----------------------------------------------------------------------------
(* Errors and restarts.                                                    *)

\* Any await can throw: a database or network error, or a refusal that rests
\* on data not modelled (phone taken, partner inactive, course unpublished,
\* another student's payment).  An open transaction is rolled back.  While a
\* webhook stores a complete result, the error is stored in its place.
Fail(r) ==
  /\ ~At(r, "idle")
  /\ faults < MaxFaults
  /\ faults' = faults + 1
  /\ \/ /\ req[r].pc \in {"event", "saveEvent"}
        /\ req' = [req EXCEPT ![r] = NoRequest]
     \/ /\ At(r, "finish")
        /\ req' = [req EXCEPT ![r] = IF req[r].ok THEN [req[r] EXCEPT !.ok = FALSE]
                                                  ELSE NoRequest]
     \/ /\ req[r].pc \in Verifying \cup Recording
        /\ Conclude(r, FALSE)
  /\ UNCHANGED <<txs, users, codes, enrollments, events, mails>>

\* The process dies: every request in flight is lost where it stands.
Restart ==
  /\ faults < MaxFaults
  /\ faults' = faults + 1
  /\ req' = [r \in Requests |-> NoRequest]
  /\ UNCHANGED <<txs, users, codes, enrollments, events, mails>>

-----------------------------------------------------------------------------

Init ==
  /\ txs = [k \in RowKeys |-> None]
  /\ users = [s \in Students |-> [status |-> InitialStatus[s], code |-> None]]
  /\ codes = [k \in Codes |-> None]
  /\ enrollments = [s \in Students |-> [k \in Courses |-> None]]
  /\ events = [e \in EventIds |-> "absent"]
  /\ mails = [c \in Charges |-> 0]
  /\ req = [r \in Requests |-> NoRequest]
  /\ faults = 0

Arrive(r) == \E c \in Charges :
  Verify(r, c) \/ SyncTransaction(r, c) \/ ReceiveWebhook(r, c)

Proceed(r) ==
  \/ ReadEvent(r) \/ SaveEvent(r) \/ FinishEvent(r)
  \/ LookUp(r) \/ ReadAccount(r)
  \/ CheckRegistered(r) \/ RedeemCode(r) \/ CommitOnboarding(r)
  \/ ReadCatalog(r) \/ ReadCart(r) \/ CommitCourse(r)
  \/ SendMail(r)
  \/ LookUpFailed(r) \/ RecordFailed(r)

Next ==
  \/ \E r \in Requests : Arrive(r) \/ Proceed(r) \/ Fail(r)
  \/ \E s \in Students, courses \in SUBSET Courses : EnrollFree(s, courses)
  \/ Restart

Spec == Init /\ [][Next]_vars

\* Node's event loop runs every handler to its end, and someone keeps asking
\* for the verification of every charge that was taken.
FairSpec ==
  /\ Spec
  /\ \A r \in Requests : WF_vars(Proceed(r))
  /\ \A c \in Charges : SF_vars(\E r \in Requests : Verify(r, c))

-----------------------------------------------------------------------------
(* Properties.                                                             *)

\* The variables hold what the tables and the handlers can hold.
TypeOK ==
  /\ txs \in [RowKeys -> Row \cup {None}]
  /\ users \in [Students -> [status : Statuses, code : Codes \cup {None}]]
  /\ codes \in [Codes -> Students \cup {None}]
  /\ enrollments \in [Students -> [Courses -> RowKeys \cup {None}]]
  /\ events \in [EventIds -> {"absent", "incomplete", "complete"}]
  /\ mails \in [Charges -> 0..2]
  /\ req \in [Requests -> Request]
  /\ faults \in 0..MaxFaults

\* What the student bought with a charge is theirs.
Entitled(c) ==
  IF Info[c].paidFor = "onboarding"
  THEN StatusOf(Info[c].student) = "onboarded"
  ELSE \A k \in Info[c].courses : Enrolled(Info[c].student, k)

\* Every enrolment is free or was paid in full, by a successful charge of the
\* same student for a set of courses with this one, made on the checkout that
\* the enrolment's payment row belongs to.
EnrollmentPaid ==
  \A s \in Students, k \in Courses :
    LET key == enrollments[s][k]
    IN  key # None =>
          \/ key = <<s, k>> /\ Price[k] = 0
          \/ \E c \in Charges : /\ Paid(c) /\ HasRef(key, Info[c].ref)
                                /\ Info[c].paidFor = "course"
                                /\ Info[c].student = s /\ k \in Info[c].courses

\* Nobody is onboarded who did not pay the onboarding fee in full.
OnboardingPaid ==
  \A s \in Students :
    StatusOf(s) = "onboarded" /\ InitialStatus[s] # "onboarded" =>
      \E c \in Charges : /\ Paid(c) /\ Info[c].paidFor = "onboarding"
                         /\ Info[c].student = s

\* An access code and the account it opened name each other, so a code opens
\* at most one account however many registrations race for it.
CodeOpensOneAccount ==
  \A s \in Students, k \in Codes : codes[k] = s <=> users[s].code = k

\* Fulfilment is all or nothing: a payment row marked as fulfilled means that
\* the whole of what it paid for was granted.
FulfilledIsEntitled ==
  \A k \in RowKeys : Fulfilled(k) /\ txs[k].charge # None => Entitled(txs[k].charge)

\* A webhook is dropped as a duplicate only when the student already has what
\* the charge paid for, so dropping it loses nothing.
CompleteEventIsEntitled ==
  \A c \in Charges : \A key \in KeysOf(c) :
    events[<<key, "successful">>] = "complete" => Entitled(c)

\* However a charge is verified, its student is mailed once, unless an attempt
\* on the same checkout failed or had a webhook without the charge's id.
MailedOnce ==
  \A c \in Charges :
    mails[c] > 1 =>
      \E d \in Charges : /\ Info[d].ref = Info[c].ref
                         /\ Info[d].outcome = "failed" \/ d \in IdlessWebhooks

\* An enrolment, once made, keeps the payment row it was bought with.
EnrollmentIsFinal ==
  [][\A s \in Students, k \in Courses :
       Enrolled(s, k) => enrollments'[s][k] = enrollments[s][k]]_vars

\* The requery endpoint is documented as idempotent: a charge is credited to
\* one payment row.
CreditedOnce ==
  \A c \in Charges :
    Cardinality({k \in RowKeys : Fulfilled(k) /\ txs[k].charge = c}) <= 1

\* Nothing but a failure to pay stands between the student and the purchase.
Payable(c) ==
  /\ Paid(c)
  /\ IF Info[c].paidFor = "onboarding"
     THEN StatusOf(Info[c].student) # "none" \/ Usable(Info[c].code)
     ELSE /\ StatusOf(Info[c].student) = "onboarded" /\ Info[c].courses # {}
          /\ \A k \in Info[c].courses : ~Enrolled(Info[c].student, k)

\* A charge that stays payable is honoured in the end, through errors,
\* restarts, duplicate webhooks and failed attempts recorded in between.
PaidIsHonoured ==
  \A c \in Charges : [](Payable(c) \/ Entitled(c)) => <>Entitled(c)

-----------------------------------------------------------------------------
(* The abstract specification.                                             *)

OwnedCourses == [s \in Students |-> {k \in Courses : Enrolled(s, k)}]

Access == INSTANCE PaidAccess WITH owned <- OwnedCourses

\* Whatever the interleaving of verifications, webhooks, syncs, failures and
\* restarts, accounts, codes and enrolments change as PaidAccess says.
ImplementsPaidAccess == Access!Spec

Redeemable == {k \in ValidCodes : codes[k] = None}
Redeemed   == {k \in Codes : codes[k] # None}

Stock == INSTANCE CodeStock WITH stock <- Redeemable, used <- Redeemed,
                                 withdrawn <- {}, student <- codes,
                                 opens <- [s \in Students |-> users[s].code]

\* A payment redeems a code as CodeStock says, which is what the inventory's own
\* handlers do: PaymentFulfillment and AccessCodes mean the same by a redemption.
ImplementsCodeStock == Stock!Spec

=============================================================================
