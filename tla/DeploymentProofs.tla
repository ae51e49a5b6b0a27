-------------------------- MODULE DeploymentProofs --------------------------
(***************************************************************************)
(* Proofs about the container, for every scenario and any number of        *)
(* crashes, uploads, removals and edits: a message is said to be sent only *)
(* if a provider took it, one removal of the bucket loses no upload, a     *)
(* migration that was recorded has done its work, and a role does what was *)
(* ticked for it.                                                          *)
(***************************************************************************)
EXTENDS Deployment, SequenceTheorems, WellFoundedInduction, TLAPS

-----------------------------------------------------------------------------
(* Messages.                                                               *)

Messages ==
  [step : {"none", "mail", "whatsapp", "sms", "log", "failed"},
   kind : {None, "otp", "welcome", "receipt"}, channel : {None, "email", "phone"},
   accepted : SUBSET {"smtp", "whatsapp", "sms"}, whatsapp : BOOLEAN]

Carried(m) == m.accepted # {} \/ SkipsSilently(m.channel)

\* A message takes the way of its channel, and at its end somebody took it.
OnItsWay ==
  /\ message \in Messages
  /\ message.step = "mail" => message.channel = "email"
  /\ message.step \in {"whatsapp", "sms"} => message.channel = "phone"
  /\ message.whatsapp => message.accepted # {}
  /\ message.step = "log" => Carried(message)

\* Only a server that is up has messages and outcomes.
Delivers ==
  /\ phase # "serving" => message = NoMessage /\ outcome = NoOutcome
  /\ OnItsWay
  /\ SentIsAccepted

USE DEF messageVars

LEMMA MessageFacts ==
  /\ NoMessage \in Messages
  /\ NoMessage.step = "none" /\ NoMessage.kind = None /\ NoMessage.channel = None
  /\ NoMessage.accepted = {} /\ NoMessage.whatsapp = FALSE
BY DEF NoMessage, Messages

\* What a call makes of a message on its way to next.
LEMMA CallGoesOn ==
  ASSUME OnItsWay, NEW provider \in {"smtp", "whatsapp", "sms"}, NEW next \in Messages,
         Call(provider, next), next.channel = message.channel,
         next.step = "log" \/ (next.step = "sms" /\ next.channel = "phone"),
         UNCHANGED env
  PROVE  OnItsWay'
<1>1. CASE message' = [next EXCEPT !.accepted = @ \cup {provider}]
  <2>1. /\ message' \in Messages /\ message'.step = next.step
        /\ message'.channel = next.channel
        /\ message'.accepted = next.accepted \cup {provider}
    BY <1>1 DEF Messages
  <2>2. QED
    BY <2>1 DEF OnItsWay, Carried, SkipsSilently, SmsConfigured
<1>2. CASE \E accepted \in {message.accepted, message.accepted \cup {provider}} :
             message' = [message EXCEPT !.step = "failed", !.accepted = accepted]
  <2>1. PICK accepted \in {message.accepted, message.accepted \cup {provider}} :
          message' = [message EXCEPT !.step = "failed", !.accepted = accepted]
    BY <1>2
  <2>2. message \in Messages /\ accepted \in SUBSET {"smtp", "whatsapp", "sms"}
    BY <2>1 DEF Messages, OnItsWay
  <2>3. /\ message' \in Messages /\ message'.step = "failed"
        /\ message'.accepted = accepted /\ message'.whatsapp = message.whatsapp
    BY <2>1, <2>2 DEF Messages
  <2>4. QED
    BY <2>1, <2>3 DEF OnItsWay
<1>3. QED
  BY <1>1, <1>2 DEF Call

\* A step that gives the message up.
LEMMA GivingUpGoesOn ==
  ASSUME OnItsWay, message' = [message EXCEPT !.step = "failed"], UNCHANGED env
  PROVE  OnItsWay'
<1>1. /\ message' \in Messages /\ message'.step = "failed"
      /\ message'.accepted = message.accepted /\ message'.whatsapp = message.whatsapp
  BY DEF Messages, OnItsWay
<1>2. QED
  BY <1>1 DEF OnItsWay

LEMMA MailGoesOn ==
  ASSUME OnItsWay, SendMail
  PROVE  OnItsWay' /\ UNCHANGED <<env, outcome, phase, workload>>
<1> DEFINE next == [message EXCEPT !.step = "log"]
<1>1. UNCHANGED <<env, outcome, phase, workload>>
  BY DEF SendMail, OnlyMessage, containerVars
<1>2. /\ next \in Messages /\ next.step = "log" /\ next.channel = message.channel
      /\ next.accepted = message.accepted /\ next.whatsapp = message.whatsapp
  BY DEF Messages, OnItsWay
<1>3. message.channel = "email"
  BY DEF SendMail, Sending, OnItsWay
<1>4. CASE env.smtp
  <2>1. Call("smtp", next)
    BY <1>4 DEF SendMail
  <2>2. QED
    BY <1>1, <1>2, <2>1, CallGoesOn
<1>5. CASE ~env.smtp
  <2>1. message' = next
    BY <1>5 DEF SendMail
  <2>2. message'.channel = "email" /\ ~env'.smtp
    BY <1>1, <1>2, <1>3, <1>5, <2>1
  <2>3. QED
    BY <1>1, <1>2, <2>1, <2>2 DEF OnItsWay, Carried, SkipsSilently
<1>6. QED
  BY <1>4, <1>5

LEMMA WhatsAppGoesOn ==
  ASSUME OnItsWay, SendWhatsAppOtp
  PROVE  OnItsWay' /\ UNCHANGED <<env, outcome, phase, workload>>
<1> DEFINE next == [message EXCEPT !.step = "sms"]
           told == [next EXCEPT !.whatsapp = TRUE]
<1>1. UNCHANGED <<env, outcome, phase, workload>>
  BY DEF SendWhatsAppOtp, OnlyMessage, containerVars
<1>2. message.channel = "phone"
  BY DEF SendWhatsAppOtp, Sending, OnItsWay
<1>3. /\ next \in Messages /\ next.step = "sms" /\ next.channel = "phone"
      /\ next.accepted = message.accepted /\ next.whatsapp = message.whatsapp
  BY <1>2 DEF Messages, OnItsWay
<1>4. told \in Messages /\ told.step = "sms" /\ told.channel = "phone"
  BY <1>2 DEF Messages, OnItsWay
<1>5. CASE message' = next
  BY <1>1, <1>3, <1>5 DEF OnItsWay
<1>6. CASE Call("whatsapp", told)
  BY <1>1, <1>2, <1>4, <1>6, CallGoesOn
<1>7. QED
  BY <1>5, <1>6 DEF SendWhatsAppOtp

LEMMA SmsGoesOn ==
  ASSUME OnItsWay, SendSms
  PROVE  OnItsWay' /\ UNCHANGED <<env, outcome, phase, workload>>
<1> DEFINE next == [message EXCEPT !.step = "log"]
<1>1. UNCHANGED <<env, outcome, phase, workload>>
  BY DEF SendSms, OnlyMessage, containerVars
<1>2. message.channel = "phone"
  BY DEF SendSms, Sending, OnItsWay
<1>3. /\ next \in Messages /\ next.step = "log" /\ next.channel = "phone"
      /\ next.accepted = message.accepted /\ next.whatsapp = message.whatsapp
  BY <1>2 DEF Messages, OnItsWay
<1>4. CASE env.sms /\ SmsConfigured
  <2>1. Call("sms", next)
    BY <1>4 DEF SendSms
  <2>2. QED
    BY <1>1, <1>2, <1>3, <2>1, CallGoesOn
<1>5. CASE ~(env.sms /\ SmsConfigured)
  <2>1. message' = Deliverable(next)
    BY <1>5 DEF SendSms
  <2>2. CASE next.whatsapp \/ env.sms
    <3>1. message' = next
      BY <2>1, <2>2 DEF Deliverable
    <3>2. next.accepted # {} \/ (env.sms /\ ~SmsConfigured)
      BY <1>3, <1>5, <2>2 DEF OnItsWay
    <3>3. Carried(message)'
      BY <1>1, <1>3, <3>1, <3>2 DEF Carried, SkipsSilently, SmsConfigured
    <3>4. QED
      BY <1>1, <1>3, <3>1, <3>3 DEF OnItsWay, Carried
  <2>3. CASE ~(next.whatsapp \/ env.sms)
    <3>1. message' = [next EXCEPT !.step = "failed"]
      BY <2>1, <2>3 DEF Deliverable
    <3>2. message' = [message EXCEPT !.step = "failed"]
      BY <3>1 DEF OnItsWay, Messages
    <3>3. QED
      BY <1>1, <3>2, GivingUpGoesOn
  <2>4. QED
    BY <2>2, <2>3
<1>6. QED
  BY <1>4, <1>5

\* Concluding empties the message and tells what became of it.
LEMMA ConcludingDelivers ==
  ASSUME OnItsWay, message.step # "none", NEW status, Conclude(status),
         status = "sent" => Carried(message), status # None => status \in {"sent", "failed"}
  PROVE  OnItsWay' /\ SentIsAccepted' /\ UNCHANGED <<env, phase, workload>>
<1>1. UNCHANGED <<env, phase, workload>>
  BY DEF Conclude, containerVars
<1>2. message' = NoMessage
  BY DEF Conclude
<1>3. OnItsWay'
  BY <1>2, MessageFacts DEF OnItsWay
<1>4. /\ outcome'.status = status /\ outcome'.channel = message.channel
      /\ outcome'.accepted = message.accepted /\ outcome'.told = Answer(status)
  BY DEF Conclude
<1>5. status = "sent" => outcome'.accepted # {} \/ SkipsSilently(outcome.channel)'
  BY <1>1, <1>4 DEF Carried, SkipsSilently, SmsConfigured
<1>6. Answer(status) = "sent" => status = "sent" 
  BY NoneAssumption DEF Answer
<1>7. QED
  BY <1>1, <1>3, <1>4, <1>5, <1>6 DEF SentIsAccepted

LEMMA AskingGoesOn ==
  ASSUME OnItsWay, AskMessage
  PROVE  OnItsWay' /\ SentIsAccepted'
<1>1. PICK kind \in {"otp", "welcome", "receipt"}, channel \in {"email", "phone"} :
        /\ channel = "phone" => kind = "otp"
        /\ message' = [NoMessage EXCEPT !.kind = kind, !.channel = channel,
                         !.step = IF channel = "email" THEN "mail" ELSE "whatsapp"]
  BY DEF AskMessage
<1>2. /\ message' \in Messages /\ message'.channel = channel /\ message'.whatsapp = FALSE
      /\ message'.step = IF channel = "email" THEN "mail" ELSE "whatsapp"
  BY <1>1 DEF NoMessage, Messages
<1>3. outcome' = NoOutcome
  BY DEF AskMessage
<1>4. QED
  BY <1>2, <1>3 DEF OnItsWay, SentIsAccepted

\* A step of the workload keeps what is said of messages.
LEMMA MessagesDeliver ==
  ASSUME Delivers, DeliverMessages
  PROVE  Delivers'
<1>1. OnItsWay /\ SentIsAccepted
  BY DEF Delivers
<1>2. CASE AskMessage
  <2>1. phase' = "serving"
    BY <1>2 DEF AskMessage, Serves, containerVars
  <2>2. QED
    BY <1>1, <1>2, <2>1, AskingGoesOn DEF Delivers
<1>3. CASE SendMail \/ FailToSend \/ SendWhatsAppOtp \/ SendSms \/ LogSent \/ LogFailed
  <2>1. message.step # "none"
    BY <1>3 DEF SendMail, FailToSend, SendWhatsAppOtp, SendSms, LogSent, LogFailed, Sending
  <2>2. phase = "serving"
    BY <2>1, MessageFacts DEF Delivers
  <2>3. CASE SendMail
    BY <1>1, <2>2, <2>3, MailGoesOn DEF Delivers, SentIsAccepted, SkipsSilently, SmsConfigured
  <2>4. CASE SendWhatsAppOtp
    BY <1>1, <2>2, <2>4, WhatsAppGoesOn DEF Delivers, SentIsAccepted, SkipsSilently, SmsConfigured
  <2>5. CASE SendSms
    BY <1>1, <2>2, <2>5, SmsGoesOn DEF Delivers, SentIsAccepted, SkipsSilently, SmsConfigured
  <2>6. CASE message' = [message EXCEPT !.step = "failed"] /\ OnlyMessage
    <3>1. UNCHANGED <<env, outcome, phase>>
      BY <2>6 DEF OnlyMessage, containerVars
    <3>2. OnItsWay'
      BY <1>1, <2>6, <3>1, GivingUpGoesOn
    <3>3. QED
      BY <1>1, <2>2, <3>1, <3>2 DEF Delivers, SentIsAccepted, SkipsSilently, SmsConfigured
  <2>7. CASE Sending("log") /\ Conclude("sent")
    <3>1. Carried(message)
      BY <1>1, <2>7 DEF OnItsWay, Sending
    <3>2. OnItsWay' /\ SentIsAccepted' /\ UNCHANGED phase
      BY <1>1, <2>1, <2>7, <3>1, ConcludingDelivers
    <3>3. QED
      BY <2>2, <3>2 DEF Delivers
  <2>8. CASE LogFailed
    <3>1. PICK status \in {"failed", None} : Conclude(status)
      BY <2>8 DEF LogFailed
    <3>2. status # "sent"
      BY <3>1, NoneAssumption
    <3>3. OnItsWay' /\ SentIsAccepted' /\ UNCHANGED phase
      BY <1>1, <2>1, <3>1, <3>2, ConcludingDelivers
    <3>4. QED
      BY <2>2, <3>3 DEF Delivers
  <2>9. QED
    BY <1>3, <2>3, <2>4, <2>5, <2>6, <2>7, <2>8 DEF FailToSend, LogSent
<1>4. QED
  BY <1>2, <1>3 DEF DeliverMessages

\* Every other step leaves messages alone, or begins or ends the process.
LEMMA OthersDeliver ==
  ASSUME Delivers, UNCHANGED messageVars, phase' = "serving" => phase = "serving",
         phase = "serving" => phase' = "serving"
  PROVE  Delivers'
BY DEF Delivers, OnItsWay, SentIsAccepted, Carried, SkipsSilently, SmsConfigured

LEMMA MigratingKeepsServices ==
  ASSUME Migrating
  PROVE  /\ UNCHANGED <<roleVars, messageVars, mediaVars>>
         /\ phase # "serving" => phase' # "serving"
         /\ phase = "serving" => phase' = "serving"
BY DEF Migrating, ServiceVars, Migrate, BeginMigrations, BeginMigration, RunStatement,
       RecordMigration, CommitMigrations, RollBack, containerVars

LEMMA ListeningDelivers ==
  ASSUME Delivers, Listen
  PROVE  Delivers'
<1>1. message = NoMessage /\ outcome = NoOutcome
  BY DEF Listen, Booting, Delivers
<1>2. message' = NoMessage /\ outcome' = NoOutcome /\ phase' = "serving"
  BY <1>1 DEF Listen
<1>3. OnItsWay' /\ SentIsAccepted'
  BY <1>2, MessageFacts DEF OnItsWay, SentIsAccepted
<1>4. QED
  BY <1>2, <1>3 DEF Delivers

LEMMA CrashDelivers ==
  ASSUME Crash
  PROVE  Delivers'
<1>1. message' = NoMessage /\ outcome' = NoOutcome
  BY DEF Crash
<1>2. OnItsWay' /\ SentIsAccepted'
  BY <1>1, MessageFacts DEF OnItsWay, SentIsAccepted
<1>3. QED
  BY <1>1, <1>2 DEF Delivers

LEMMA NextDelivers ==
  ASSUME Delivers, [Next]_vars
  PROVE  Delivers'
<1>1. CASE Migrating
  BY <1>1, MigratingKeepsServices, OthersDeliver
<1>2. CASE BootRoles \/ SeedSettings \/ SeedSuperadmin \/ SeedCourseCategories
  BY <1>2, OthersDeliver
     DEF BootRoles, SeedSettings, SeedSuperadmin, SeedCourseCategories, SeedFacts, ServiceVars,
         containerVars
<1>3. CASE BootFails
  BY <1>3, OthersDeliver DEF BootFails, Booting, ServiceVars
<1>4. CASE Listen
  BY <1>4, ListeningDelivers
<1>5. CASE EditRoles /\ UNCHANGED <<migrationVars, messageVars, mediaVars>>
  <2>1. UNCHANGED containerVars
    BY <1>5 DEF EditRoles, AskEdit, CheckNewRole, ReadRole, SaveRole, CheckRemoval, RemoveRole,
                FailEdit, OnlyEdit
  <2>2. QED
    BY <1>5, <2>1, OthersDeliver DEF containerVars
<1>6. CASE DeliverMessages
  BY <1>6, MessagesDeliver
<1>7. CASE StoreMedia /\ UNCHANGED <<migrationVars, roleVars, messageVars>>
  <2>1. UNCHANGED containerVars
    BY <1>7 DEF StoreMedia, AskUpload, EnsureBucket, PutObject, PutFails, RetryUpload, HeadBucket,
                CreateBucket, BucketEnsured, EnsureFails, RemoveBucket, OnlyUpload
  <2>2. QED
    BY <1>7, <2>1, OthersDeliver DEF containerVars
<1>8. CASE Crash
  BY <1>8, CrashDelivers
<1>9. CASE UNCHANGED vars
  BY <1>9, OthersDeliver DEF vars, containerVars
<1>10. QED
  BY <1>1, <1>2, <1>3, <1>4, <1>5, <1>6, <1>7, <1>8, <1>9 DEF Next, Boot, Serve

LEMMA InitDelivers ==
  ASSUME Init
  PROVE  Delivers
<1>1. message = NoMessage /\ outcome = NoOutcome
  BY DEF Init
<1>2. QED
  BY <1>1, MessageFacts DEF Delivers, OnItsWay, SentIsAccepted

\* PhoneMessagingService and MailService: whatever the environment, the failures and
\* the lost answers, a notification row says SENT and the caller is told so only when
\* a provider took the message or the channel skips silently.
THEOREM SentMessagesAreAccepted == Spec => []SentIsAccepted
<1>1. Spec => []Delivers
  BY InitDelivers, NextDelivers, PTL DEF Spec
<1>2. Delivers => SentIsAccepted
  BY DEF Delivers
<1>3. QED
  BY <1>1, <1>2, PTL

-----------------------------------------------------------------------------
(* Uploads.                                                                *)

UploadSteps == {"idle", "ensure", "waiting", "put", "missing", "ensureAgain", "waitingAgain",
                "putAgain", "stored", "failed", "lost"}

\* The bucket was seen or made, and nothing else has been heard of it since.
Answered == ensuring \in {"found", "created"}

\* What is known of a bucket that was removed at most once: before, whoever is sure
\* of it is right; after, so is whoever was in doubt.
BucketIsThere ==
  /\ removals = 0 =>
       /\ ready \/ Answered => bucket
       /\ \A u \in Uploads :
            /\ upload[u] = "put" => ready
            /\ upload[u] \notin {"missing", "ensureAgain", "waitingAgain", "putAgain", "lost"}
  /\ removals = 1 =>
       \A u \in Uploads :
         /\ upload[u] # "lost"
         /\ upload[u] = "putAgain" => bucket
         /\ upload[u] \in {"ensureAgain", "waitingAgain"} => (ready \/ Answered => bucket)
         /\ upload[u] \in {"put", "missing"} => (Answered => bucket)

Stores ==
  /\ phase # "serving" =>
       ready = FALSE /\ ensuring = "none" /\ upload = [u \in Uploads |-> "idle"]
  /\ ready \in BOOLEAN /\ bucket \in BOOLEAN
  /\ removals \in Nat /\ upload \in [Uploads -> UploadSteps]
  /\ ready => ensuring = "none"
  /\ BucketIsThere

USE DEF mediaVars, containerVars

LEMMA UploadStores ==
  ASSUME Stores, NEW u \in Uploads,
         AskUpload(u) \/ EnsureBucket(u) \/ PutObject(u) \/ PutFails(u) \/ RetryUpload(u),
         phase = "serving"
  PROVE  Stores'
<1>1. upload \in [Uploads -> UploadSteps]
  BY DEF Stores
<1>2. CASE AskUpload(u)
  <2>1. upload' = [upload EXCEPT ![u] = "ensure"]
    BY <1>2 DEF AskUpload, Move
  <2>2. QED
    BY <1>1, <1>2, <2>1 DEF AskUpload, OnlyUpload, Stores, BucketIsThere, Answered, UploadSteps
<1>3. CASE EnsureBucket(u) /\ ready
  <2>1. upload' = [upload EXCEPT ![u] = IF upload[u] = "ensureAgain" THEN "putAgain" ELSE "put"]
    BY <1>3 DEF EnsureBucket, Move
  <2>2. UNCHANGED <<bucket, ready, ensuring, removals, phase>> /\ ensuring = "none"
    BY <1>3 DEF EnsureBucket, Stores
  <2>3. upload[u] \in {"ensure", "ensureAgain"}
    BY <1>3 DEF EnsureBucket
  <2>4. BucketIsThere'
    BY <1>1, <1>3, <2>1, <2>2, <2>3 DEF Stores, BucketIsThere, Answered
  <2>5. QED
    BY <1>1, <1>3, <2>1, <2>2, <2>4 DEF Stores, UploadSteps
<1>4. CASE EnsureBucket(u) /\ ~ready
  <2>1. upload' = [upload EXCEPT ![u] =
                     IF upload[u] = "ensureAgain" THEN "waitingAgain" ELSE "waiting"]
    BY <1>4 DEF EnsureBucket, Move
  <2>2. UNCHANGED <<bucket, ready, removals, phase>> /\ (ensuring' \in {ensuring, "head"})
    BY <1>4 DEF EnsureBucket
  <2>3. upload[u] \in {"ensure", "ensureAgain"}
    BY <1>4 DEF EnsureBucket
  <2>4. BucketIsThere'
    BY <1>1, <1>4, <2>1, <2>2, <2>3 DEF Stores, BucketIsThere, Answered
  <2>5. QED
    BY <1>1, <1>4, <2>1, <2>2, <2>4 DEF Stores, UploadSteps
<1>5. CASE PutObject(u)
  <2>1. upload' = [upload EXCEPT ![u] = IF bucket THEN "stored" ELSE
                                          IF upload[u] = "put" THEN "missing" ELSE "lost"]
    BY <1>5 DEF PutObject, Move
  <2>2. UNCHANGED <<bucket, ready, ensuring, removals, phase>>
    BY <1>5 DEF PutObject, OnlyUpload
  <2>3. upload[u] \in {"put", "putAgain"}
    BY <1>5 DEF PutObject
  <2>4. BucketIsThere'
    BY <1>1, <2>1, <2>2, <2>3 DEF Stores, BucketIsThere, Answered
  <2>5. QED
    BY <1>1, <2>1, <2>2, <2>4 DEF Stores, UploadSteps
<1>6. CASE PutFails(u)
  <2>1. upload' = [upload EXCEPT ![u] = "failed"]
    BY <1>6 DEF PutFails, Move
  <2>2. QED
    BY <1>1, <1>6, <2>1 DEF PutFails, OnlyUpload, Stores, BucketIsThere, Answered, UploadSteps
<1>7. CASE RetryUpload(u)
  <2>1. upload' = [upload EXCEPT ![u] = "ensureAgain"] /\ ready' = FALSE /\ upload[u] = "missing"
    BY <1>7 DEF RetryUpload, Move, ReadyAfterMissing
  <2>2. UNCHANGED <<bucket, ensuring, removals, phase>>
    BY <1>7 DEF RetryUpload
  <2>3. BucketIsThere'
    BY <1>1, <2>1, <2>2 DEF Stores, BucketIsThere, Answered
  <2>4. QED
    BY <1>1, <2>1, <2>2, <2>3 DEF Stores, UploadSteps
<1>8. QED
  BY <1>2, <1>3, <1>4, <1>5, <1>6, <1>7

LEMMA SettlingStores ==
  ASSUME Stores, phase = "serving", UNCHANGED <<bucket, removals, phase>>,
         NEW ok \in BOOLEAN, ok => Answered, ensuring # "none", Settle(ok)
  PROVE  Stores'
<1>1. ~ready /\ ready' = ok /\ ensuring' = "none"
  BY DEF Settle, Stores
<1>2. /\ upload' \in [Uploads -> UploadSteps]
      /\ \A u \in Uploads :
           /\ upload[u] = "waiting" => upload'[u] = IF ok THEN "put" ELSE "failed"
           /\ upload[u] = "waitingAgain" => upload'[u] = IF ok THEN "putAgain" ELSE "failed"
           /\ upload[u] \notin {"waiting", "waitingAgain"} => upload'[u] = upload[u]
  BY DEF Settle, Stores, UploadSteps
<1>3. BucketIsThere'
  BY <1>1, <1>2 DEF Stores, BucketIsThere, Answered
<1>4. QED
  BY <1>1, <1>2, <1>3 DEF Stores

LEMMA RemovalStores ==
  ASSUME Stores, RemoveBucket
  PROVE  Stores'
<1>1. /\ bucket' = FALSE /\ removals' = removals + 1 /\ removals \in Nat
      /\ UNCHANGED <<ready, ensuring, upload, phase>>
  BY DEF RemoveBucket, Stores
<1>2. removals' \in Nat /\ removals' # 0 /\ (removals' = 1 => removals = 0)
  BY <1>1
<1>3. BucketIsThere'
  BY <1>1, <1>2 DEF Stores, BucketIsThere, Answered
<1>4. QED
  BY <1>1, <1>2, <1>3 DEF Stores

LEMMA MediaStores ==
  ASSUME Stores, StoreMedia
  PROVE  Stores'
<1>1. phase = "serving" /\ phase' = phase
  <2>1. UNCHANGED phase
    BY DEF StoreMedia, AskUpload, EnsureBucket, PutObject, PutFails, RetryUpload, HeadBucket,
           CreateBucket, BucketEnsured, EnsureFails, RemoveBucket, OnlyUpload
  <2>2. phase # "serving" => FALSE
    BY DEF StoreMedia, AskUpload, EnsureBucket, PutObject, PutFails, RetryUpload, HeadBucket,
           CreateBucket, BucketEnsured, EnsureFails, RemoveBucket, Serves, Stores
  <2>3. QED
    BY <2>1, <2>2
<1>2. ASSUME NEW u \in Uploads,
             AskUpload(u) \/ EnsureBucket(u) \/ PutObject(u) \/ PutFails(u) \/ RetryUpload(u)
      PROVE  Stores'
  BY <1>1, <1>2, UploadStores
<1>3. CASE HeadBucket
  <2>1. /\ ensuring' = IF bucket THEN "found" ELSE "create"
        /\ ensuring = "head" /\ UNCHANGED <<bucket, ready, upload, removals>>
    BY <1>3 DEF HeadBucket
  <2>2. BucketIsThere'
    BY <2>1 DEF Stores, BucketIsThere, Answered
  <2>3. QED
    BY <1>1, <2>1, <2>2 DEF Stores
<1>4. CASE CreateBucket
  <2>1. /\ ensuring' = "created" /\ bucket' = TRUE
        /\ ensuring = "create" /\ UNCHANGED <<ready, upload, removals>>
    BY <1>4 DEF CreateBucket
  <2>2. BucketIsThere'
    BY <2>1 DEF Stores, BucketIsThere, Answered
  <2>3. QED
    BY <1>1, <2>1, <2>2 DEF Stores
<1>5. CASE BucketEnsured
  BY <1>1, <1>5, SettlingStores DEF BucketEnsured, Answered
<1>6. CASE EnsureFails
  BY <1>1, <1>6, SettlingStores DEF EnsureFails
<1>7. CASE RemoveBucket
  BY <1>7, RemovalStores
<1>8. QED
  BY <1>2, <1>3, <1>4, <1>5, <1>6, <1>7 DEF StoreMedia

\* Every other step leaves the uploads alone, or begins or ends the process.
LEMMA OthersStore ==
  ASSUME Stores, UNCHANGED mediaVars, phase = "serving" => phase' = "serving"
  PROVE  Stores'
BY DEF Stores, BucketIsThere, Answered

LEMMA ListeningStores ==
  ASSUME Stores, Listen
  PROVE  Stores'
<1>1. /\ ensuring' = "none" /\ upload' = [u \in Uploads |-> "idle"] /\ removals' = removals
      /\ ready = FALSE /\ phase' = "serving"
  BY DEF Listen, Booting, Stores
<1>2. /\ ready' \in BOOLEAN /\ bucket' \in BOOLEAN /\ (ready' => bucket')
  BY <1>1 DEF Listen, InitMedia, Stores
<1>3. \A u \in Uploads : upload'[u] = "idle"
  BY <1>1
<1>4. BucketIsThere'
  BY <1>1, <1>2, <1>3 DEF BucketIsThere, Answered
<1>5. upload' \in [Uploads -> UploadSteps] /\ removals' \in Nat
  BY <1>1 DEF Stores, UploadSteps
<1>6. QED
  BY <1>1, <1>2, <1>4, <1>5 DEF Stores

LEMMA CrashStores ==
  ASSUME Stores, Crash
  PROVE  Stores'
<1>1. /\ ready' = FALSE /\ ensuring' = "none" /\ upload' = [u \in Uploads |-> "idle"]
      /\ UNCHANGED <<bucket, removals>>
  BY DEF Crash
<1>2. QED
  BY <1>1 DEF Stores, BucketIsThere, Answered, UploadSteps

LEMMA NextStores ==
  ASSUME Stores, [Next]_vars
  PROVE  Stores'
<1>1. CASE Migrating
  BY <1>1, MigratingKeepsServices, OthersStore
<1>2. CASE BootRoles \/ SeedSettings \/ SeedSuperadmin \/ SeedCourseCategories
  BY <1>2, OthersStore
     DEF BootRoles, SeedSettings, SeedSuperadmin, SeedCourseCategories, SeedFacts, ServiceVars
<1>3. CASE BootFails
  BY <1>3, OthersStore DEF BootFails, Booting, ServiceVars
<1>4. CASE Listen
  BY <1>4, ListeningStores
<1>5. CASE EditRoles /\ UNCHANGED <<migrationVars, messageVars, mediaVars>>
  <2>1. UNCHANGED containerVars
    BY <1>5 DEF EditRoles, AskEdit, CheckNewRole, ReadRole, SaveRole, CheckRemoval, RemoveRole,
                FailEdit, OnlyEdit
  <2>2. QED
    BY <1>5, <2>1, OthersStore
<1>6. CASE DeliverMessages /\ UNCHANGED <<migrationVars, roleVars, mediaVars>>
  <2>1. UNCHANGED containerVars
    BY <1>6 DEF DeliverMessages, AskMessage, SendMail, FailToSend, SendWhatsAppOtp, SendSms,
                LogSent, LogFailed, Conclude, OnlyMessage
  <2>2. QED
    BY <1>6, <2>1, OthersStore
<1>7. CASE StoreMedia
  BY <1>7, MediaStores
<1>8. CASE Crash
  BY <1>8, CrashStores
<1>9. CASE UNCHANGED vars
  BY <1>9, OthersStore DEF vars
<1>10. QED
  BY <1>1, <1>2, <1>3, <1>4, <1>5, <1>6, <1>7, <1>8, <1>9 DEF Next, Boot, Serve

LEMMA InitStores ==
  ASSUME Init
  PROVE  Stores
BY DEF Init, Stores, BucketIsThere, Answered, UploadSteps

\* S3Service.uploadObject: of any number of uploads that share one look-up of the
\* bucket, none is lost unless the bucket is removed a second time.
THEOREM OneRemovalIsSurvived == Spec => []OneRemovalLosesNoUpload
<1>1. Spec => []Stores
  BY InitStores, NextStores, PTL DEF Spec
<1>2. Stores => OneRemovalLosesNoUpload
  BY DEF Stores, BucketIsThere, OneRemovalLosesNoUpload
<1>3. QED
  BY <1>1, <1>2, PTL

-----------------------------------------------------------------------------
(* Migrations.                                                             *)

\* The first facts a list of statements leaves, and the facts it leaves none of.
Kept(f, list)   == \A i \in DOMAIN list : f \notin list[i].loses
Absent(f, list) == \A i \in DOMAIN list : f \notin list[i].gains

Gained(f, list) ==
  \E i \in DOMAIN list : /\ f \in list[i].gains
                         /\ \A j \in DOMAIN list : j > i => f \notin list[j].loses

Lost(f, list) ==
  \E i \in DOMAIN list : /\ f \in list[i].loses \cup list[i].excludes
                         /\ \A j \in DOMAIN list : j >= i => f \notin list[j].gains

WillHold(f, facts, list) == Gained(f, list) \/ (f \in facts /\ Kept(f, list))
WillEnd(f, facts, list)  == Lost(f, list) \/ (f \notin facts /\ Absent(f, list))

\* The foreign key of the categories is there once they are, until it is dropped.
Results(m) ==
  Leaves(m) \cup (IF m = "categories" THEN {"courses => categories"} ELSE {})

\* The facts the statements of the migrations are about.
Facts ==
  {"roles", "partners", "system_settings", "payment_webhook_events", "courses", "users",
   "access_codes", "course_videos", "payment_transactions", "course_enrollments",
   "notifications", "otps", "users.accountStatus", "codes unique", "codes.partner required",
   "codes => partners", "users => codes", "videos.details", "payments => users",
   "inactive not disabled", "payments.user required", "courses => partners",
   "courses.commissionValue", "courses.commissionType", "courses.partner",
   "videos.duration text", "unused duplicates", "linked duplicates",
   "codes unique per partner", "newsletter_subscribers", "codes.exportedAt",
   "course_categories", "general category", "other categories", "courses.category",
   "uncategorised courses", "courses.category required", "courses => categories",
   "dangling courses", "placeholder ids", "paid not onboarded", "videos.resourceType"}

Statements == [ddl : BOOLEAN, needs : SUBSET Facts, excludes : SUBSET Facts,
               gains : SUBSET Facts, loses : SUBSET Facts]

\* A statement of a migration leaves the work of the others alone.
Harmless(m, s) ==
  /\ s \in Statements
  /\ m # "schema" => \A k \in All \ {m} : s.loses \cap Leaves(k) = {} /\ s.gains \cap Ends(k) = {}
  /\ s.loses \cap BootstrapTables = {}
  /\ "users" \in s.gains => m = "schema" /\ "users" \in s.excludes
  /\ m # "accountStatus" =>
       /\ "inactive not disabled" \notin s.gains
       /\ "users.accountStatus" \in s.gains => "users" \in s.gains
  /\ m # "paymentUser" =>
       /\ s.loses \cap {"payments.user required", "payments => users"} = {}
       /\ "payment_transactions" \in s.gains => "payments => users" \in s.gains
  /\ "courses => categories" \in s.gains => "dangling courses" \in s.excludes
  /\ m # "realCategoryIds" =>
       /\ "dangling courses" \notin s.gains
       /\ "courses => categories" \notin s.loses

\* What has been recorded has been done, here and where a rollback returns to.
Whole ==
  "schema" \notin interrupted => Intact(schema, recorded, interrupted \cup {running})

WholeBefore ==
  undo # None /\ "schema" \notin interrupted => Intact(undo.schema, undo.recorded, interrupted)

\* A list of statements a migration may send, and what makes it enough.
Fits(m, list) ==
  list \in Seq(Statements) /\ \A i \in DOMAIN list : Harmless(m, list[i])

Fulfils(m, facts, list) ==
  /\ \A f \in Results(m) : WillHold(f, facts, list)
  /\ \A f \in Ends(m) : WillEnd(f, facts, list)

\* What the migration under way still has to send makes up for what is missing.
Completes ==
  running # None =>
    /\ running \in All \ recorded
    /\ running # "schema" => "schema" \in recorded
    /\ Fits(running, todo)
    /\ "schema" \notin interrupted /\ running \notin Spoiled => Fulfils(running, schema, todo)

Migrated ==
  /\ Whole /\ WholeBefore /\ Completes
  /\ IF running = None THEN todo = <<>> ELSE phase = "migrating"

LEMMA AllMigrations ==
  /\ All = {"schema", "accountStatus", "paymentUser", "detachCourses", "videoDetails",
            "uniqueCode", "codePartner", "newsletter", "exportedAt", "categories",
            "realCategoryIds", "activatePaid", "resourceType"}
  /\ DOMAIN Order = 1 .. 13
<1>1. Len(Order) = 13 /\ DOMAIN Order = 1 .. 13
  BY DEF Order
<1>2. /\ Order[1] = "schema" /\ Order[2] = "accountStatus" /\ Order[3] = "paymentUser"
      /\ Order[4] = "detachCourses" /\ Order[5] = "videoDetails" /\ Order[6] = "uniqueCode"
      /\ Order[7] = "codePartner" /\ Order[8] = "newsletter" /\ Order[9] = "exportedAt"
      /\ Order[10] = "categories" /\ Order[11] = "realCategoryIds" /\ Order[12] = "activatePaid"
      /\ Order[13] = "resourceType"
  BY DEF Order
<1>3. QED
  BY <1>1, <1>2 DEF All

LEMMA CourseColumns ==
  /\ CoursePartner[1] = "courses => partners" /\ CoursePartner[2] = "courses.commissionValue"
  /\ CoursePartner[3] = "courses.commissionType" /\ CoursePartner[4] = "courses.partner"
  /\ {CoursePartner[i] : i \in DOMAIN CoursePartner} =
       {"courses => partners", "courses.commissionValue", "courses.commissionType",
        "courses.partner"}
<1>1. DOMAIN CoursePartner = 1 .. 4
  BY DEF CoursePartner
<1>2. /\ CoursePartner[1] = "courses => partners" /\ CoursePartner[2] = "courses.commissionValue"
      /\ CoursePartner[3] = "courses.commissionType" /\ CoursePartner[4] = "courses.partner"
  BY DEF CoursePartner
<1>3. {CoursePartner[i] : i \in 1 .. 4} =
        {CoursePartner[1], CoursePartner[2], CoursePartner[3], CoursePartner[4]}
  OBVIOUS
<1>4. QED
  BY <1>1, <1>2, <1>3

\* The facts some statement removes that a migration is for: each has one owner.
LEMMA OwnersOfLeaves ==
  ASSUME NEW k \in All
  PROVE  /\ Leaves(k) \cap
              {"courses => partners", "courses.commissionValue", "courses.commissionType",
               "courses.partner", "payments.user required", "videos.duration text",
               "unused duplicates", "codes unique per partner", "codes.partner required",
               "uncategorised courses", "placeholder ids", "dangling courses",
               "paid not onboarded", "inactive not disabled"} = {}
         /\ "payments => users" \in Leaves(k) => k = "paymentUser"
         /\ "codes => partners" \in Leaves(k) => k = "codePartner"
         /\ "courses => categories" \in Leaves(k) => k = "realCategoryIds"
BY AllMigrations DEF Leaves, BootstrapTables

\* The facts some later statement makes that a migration is against: each has one owner.
LEMMA OwnersOfEnds ==
  ASSUME NEW k \in All
  PROVE  /\ Ends(k) \cap
              {"users.accountStatus", "payments => users", "videos.details", "codes unique",
               "codes => partners", "newsletter_subscribers", "codes.exportedAt",
               "course_categories", "general category", "other categories", "courses.category",
               "courses.category required", "courses => categories", "videos.resourceType",
               "fee and flags", "superadmin"} = {}
         /\ "uncategorised courses" \in Ends(k) => k = "categories"
         /\ "dangling courses" \in Ends(k) => k = "realCategoryIds"
<1>1. CASE k \in {"schema", "newsletter", "exportedAt", "resourceType"}
  <2>1. Ends(k) = {}
    BY <1>1 DEF Ends
  <2>2. QED
    BY <2>1
<1>2. CASE k = "detachCourses"
  <2>1. Ends(k) = {"courses => partners", "courses.commissionValue", "courses.commissionType",
                   "courses.partner"}
    BY <1>2, CourseColumns DEF Ends
  <2>2. QED
    BY <1>2, <2>1
<1>3. CASE k \in {"accountStatus", "paymentUser", "videoDetails", "uniqueCode", "codePartner",
                  "categories", "realCategoryIds", "activatePaid"}
  BY <1>3 DEF Ends
<1>4. QED
  BY <1>1, <1>2, <1>3, AllMigrations

-----------------------------------------------------------------------------
(* Lists of statements.                                                    *)

LEMMA EmptyList ==
  ASSUME NEW m, NEW f
  PROVE  Fits(m, <<>>) /\ Kept(f, <<>>) /\ Absent(f, <<>>)
BY DEF Fits, Kept, Absent

LEMMA OneStatement ==
  ASSUME NEW s \in Statements
  PROVE  /\ \A m : Harmless(m, s) => Fits(m, <<s>>)
         /\ \A f : /\ f \notin s.loses => Kept(f, <<s>>)
                   /\ f \notin s.gains => Absent(f, <<s>>)
                   /\ f \in s.gains => Gained(f, <<s>>)
                   /\ f \in s.loses \cup s.excludes /\ f \notin s.gains => Lost(f, <<s>>)
BY DEF Fits, Kept, Absent, Gained, Lost

LEMMA ConcatIndexes ==
  ASSUME NEW a \in Seq(Statements), NEW b \in Seq(Statements)
  PROVE  /\ a \o b \in Seq(Statements)
         /\ DOMAIN a = 1 .. Len(a) /\ DOMAIN b = 1 .. Len(b) /\ Len(a) \in Nat /\ Len(b) \in Nat
         /\ DOMAIN (a \o b) = 1 .. Len(a) + Len(b)
         /\ \A i \in 1 .. Len(a) : (a \o b)[i] = a[i]
         /\ \A i \in 1 .. Len(b) : (a \o b)[Len(a) + i] = b[i]
         /\ \A i \in 1 .. Len(a) + Len(b) :
              (i > Len(a)) => i - Len(a) \in 1 .. Len(b) /\ (a \o b)[i] = b[i - Len(a)]
OBVIOUS

LEMMA ConcatFits ==
  ASSUME NEW m, NEW a, NEW b, Fits(m, a), Fits(m, b)
  PROVE  Fits(m, a \o b)
<1>1. a \in Seq(Statements) /\ b \in Seq(Statements)
  BY DEF Fits
<1>2. QED
  BY <1>1, ConcatIndexes DEF Fits

LEMMA ConcatKeeps ==
  ASSUME NEW f, NEW a \in Seq(Statements), NEW b \in Seq(Statements)
  PROVE  /\ Kept(f, a) /\ Kept(f, b) => Kept(f, a \o b)
         /\ Absent(f, a) /\ Absent(f, b) => Absent(f, a \o b)
BY ConcatIndexes DEF Kept, Absent

LEMMA ConcatGains ==
  ASSUME NEW f, NEW a \in Seq(Statements), NEW b \in Seq(Statements)
  PROVE  /\ Gained(f, b) => Gained(f, a \o b)
         /\ Gained(f, a) /\ Kept(f, b) => Gained(f, a \o b)
<1>1. ASSUME Gained(f, b) PROVE Gained(f, a \o b)
  <2>1. PICK i \in DOMAIN b : f \in b[i].gains /\ \A j \in DOMAIN b : j > i => f \notin b[j].loses
    BY <1>1 DEF Gained
  <2>2. /\ Len(a) + i \in DOMAIN (a \o b) /\ (a \o b)[Len(a) + i] = b[i]
    BY <2>1, ConcatIndexes
  <2>3. ASSUME NEW j \in DOMAIN (a \o b), j > Len(a) + i
        PROVE  f \notin (a \o b)[j].loses
    BY <2>1, <2>3, ConcatIndexes
  <2>4. QED
    BY <2>1, <2>2, <2>3 DEF Gained
<1>2. ASSUME Gained(f, a), Kept(f, b) PROVE Gained(f, a \o b)
  <2>1. PICK i \in DOMAIN a : f \in a[i].gains /\ \A j \in DOMAIN a : j > i => f \notin a[j].loses
    BY <1>2 DEF Gained
  <2>2. /\ i \in DOMAIN (a \o b) /\ (a \o b)[i] = a[i]
    BY <2>1, ConcatIndexes
  <2>3. ASSUME NEW j \in DOMAIN (a \o b), j > i
        PROVE  f \notin (a \o b)[j].loses
    <3>1. CASE j \in 1 .. Len(a)
      BY <2>1, <2>3, <3>1, ConcatIndexes
    <3>2. CASE j \notin 1 .. Len(a)
      BY <1>2, <2>3, <3>2, ConcatIndexes DEF Kept
    <3>3. QED
      BY <3>1, <3>2
  <2>4. QED
    BY <2>1, <2>2, <2>3 DEF Gained
<1>3. QED
  BY <1>1, <1>2

LEMMA ConcatLoses ==
  ASSUME NEW f, NEW a \in Seq(Statements), NEW b \in Seq(Statements)
  PROVE  /\ Lost(f, b) => Lost(f, a \o b)
         /\ Lost(f, a) /\ Absent(f, b) => Lost(f, a \o b)
<1>1. ASSUME Lost(f, b) PROVE Lost(f, a \o b)
  <2>1. PICK i \in DOMAIN b : /\ f \in b[i].loses \cup b[i].excludes
                              /\ \A j \in DOMAIN b : j >= i => f \notin b[j].gains
    BY <1>1 DEF Lost
  <2>2. /\ Len(a) + i \in DOMAIN (a \o b) /\ (a \o b)[Len(a) + i] = b[i]
    BY <2>1, ConcatIndexes
  <2>3. ASSUME NEW j \in DOMAIN (a \o b), j >= Len(a) + i
        PROVE  f \notin (a \o b)[j].gains
    BY <2>1, <2>3, ConcatIndexes
  <2>4. QED
    BY <2>1, <2>2, <2>3 DEF Lost
<1>2. ASSUME Lost(f, a), Absent(f, b) PROVE Lost(f, a \o b)
  <2>1. PICK i \in DOMAIN a : /\ f \in a[i].loses \cup a[i].excludes
                              /\ \A j \in DOMAIN a : j >= i => f \notin a[j].gains
    BY <1>2 DEF Lost
  <2>2. /\ i \in DOMAIN (a \o b) /\ (a \o b)[i] = a[i]
    BY <2>1, ConcatIndexes
  <2>3. ASSUME NEW j \in DOMAIN (a \o b), j >= i
        PROVE  f \notin (a \o b)[j].gains
    <3>1. CASE j \in 1 .. Len(a)
      BY <2>1, <2>3, <3>1, ConcatIndexes
    <3>2. CASE j \notin 1 .. Len(a)
      BY <1>2, <2>3, <3>2, ConcatIndexes DEF Absent
    <3>3. QED
      BY <3>1, <3>2
  <2>4. QED
    BY <2>1, <2>2, <2>3 DEF Lost
<1>3. QED
  BY <1>1, <1>2

LEMMA TwoStatements ==
  ASSUME NEW s \in Statements, NEW t \in Statements
  PROVE  /\ \A m : Harmless(m, s) /\ Harmless(m, t) => Fits(m, <<s, t>>)
         /\ \A f : /\ f \notin s.loses /\ f \notin t.loses => Kept(f, <<s, t>>)
                   /\ f \notin s.gains /\ f \notin t.gains => Absent(f, <<s, t>>)
                   /\ f \in t.gains \/ (f \in s.gains /\ f \notin t.loses) => Gained(f, <<s, t>>)
                   /\ /\ f \in s.loses \cup s.excludes \cup t.loses \cup t.excludes
                      /\ f \notin s.gains /\ f \notin t.gains
                      => Lost(f, <<s, t>>)
BY DEF Fits, Kept, Absent, Gained, Lost

LEMMA ThreeStatements ==
  ASSUME NEW s \in Statements, NEW t \in Statements, NEW u \in Statements
  PROVE  /\ \A m : Harmless(m, s) /\ Harmless(m, t) /\ Harmless(m, u) => Fits(m, <<s, t, u>>)
         /\ \A f : /\ f \in u.gains => Gained(f, <<s, t, u>>)
                   /\ /\ f \in u.loses \cup u.excludes \/ (f \in t.loses /\ f \notin t.gains)
                      /\ f \notin u.gains
                      => Lost(f, <<s, t, u>>)
BY DEF Fits, Gained, Lost

LEMMA Conditionals ==
  ASSUME NEW list
  PROVE  /\ When(TRUE, list) = list
         /\ When(FALSE, list) = <<>>
BY DEF When

LEMMA NamedFacts ==
  /\ "roles" \in Facts /\ "partners" \in Facts
  /\ "system_settings" \in Facts /\ "payment_webhook_events" \in Facts
  /\ "courses" \in Facts /\ "users" \in Facts
  /\ "access_codes" \in Facts /\ "course_videos" \in Facts
  /\ "payment_transactions" \in Facts /\ "course_enrollments" \in Facts
  /\ "notifications" \in Facts /\ "otps" \in Facts
  /\ "users.accountStatus" \in Facts /\ "codes unique" \in Facts
  /\ "codes.partner required" \in Facts /\ "codes => partners" \in Facts
  /\ "users => codes" \in Facts /\ "videos.details" \in Facts
  /\ "payments => users" \in Facts /\ "inactive not disabled" \in Facts
  /\ "payments.user required" \in Facts /\ "courses => partners" \in Facts
  /\ "courses.commissionValue" \in Facts /\ "courses.commissionType" \in Facts
  /\ "courses.partner" \in Facts /\ "videos.duration text" \in Facts
  /\ "unused duplicates" \in Facts /\ "linked duplicates" \in Facts
  /\ "codes unique per partner" \in Facts /\ "newsletter_subscribers" \in Facts
  /\ "codes.exportedAt" \in Facts /\ "course_categories" \in Facts
  /\ "general category" \in Facts /\ "other categories" \in Facts
  /\ "courses.category" \in Facts /\ "uncategorised courses" \in Facts
  /\ "courses.category required" \in Facts /\ "courses => categories" \in Facts
  /\ "dangling courses" \in Facts /\ "placeholder ids" \in Facts
  /\ "paid not onboarded" \in Facts /\ "videos.resourceType" \in Facts
  /\ {} \in SUBSET Facts /\ \A f \in Facts : {f} \in SUBSET Facts
BY DEF Facts

\* A list that comes before or after another.
LEMMA ConcatEnds ==
  ASSUME NEW f, NEW facts, NEW a \in Seq(Statements), NEW b \in Seq(Statements)
  PROVE  /\ Lost(f, b) => WillEnd(f, facts, a \o b)
         /\ WillEnd(f, facts, a) /\ Absent(f, b) => WillEnd(f, facts, a \o b)
         /\ Absent(f, a) /\ WillEnd(f, facts, b) => WillEnd(f, facts, a \o b)
BY ConcatLoses, ConcatKeeps DEF WillEnd

LEMMA ConcatHolds ==
  ASSUME NEW f, NEW facts, NEW a \in Seq(Statements), NEW b \in Seq(Statements)
  PROVE  /\ Gained(f, b) => WillHold(f, facts, a \o b)
         /\ WillHold(f, facts, a) /\ Kept(f, b) => WillHold(f, facts, a \o b)
         /\ Kept(f, a) /\ WillHold(f, facts, b) => WillHold(f, facts, a \o b)
BY ConcatGains, ConcatKeeps DEF WillHold

\* A column or key that is dropped, or added.
LEMMA DropFacts ==
  ASSUME NEW table \in Facts, NEW f \in Facts
  PROVE  /\ Alter(table, {}, {}, {f}) \in Statements
         /\ Alter(table, {}, {}, {f}).gains = {} /\ Alter(table, {}, {}, {f}).loses = {f}
         /\ Alter(table, {}, {}, {f}).excludes = {}
BY DEF Alter, Statement, Statements

LEMMA AddFacts ==
  ASSUME NEW table \in Facts, NEW f \in Facts
  PROVE  /\ Alter(table, {}, {f}, {}) \in Statements
         /\ Alter(table, {}, {f}, {}).gains = {f} /\ Alter(table, {}, {f}, {}).loses = {}
         /\ Alter(table, {}, {f}, {}).excludes = {f}
BY DEF Alter, Statement, Statements

LEMMA AddKeyFacts ==
  ASSUME NEW table \in Facts, NEW f \in Facts, NEW n \in Facts
  PROVE  /\ Alter(table, {n}, {f}, {}) \in Statements
         /\ Alter(table, {n}, {f}, {}).gains = {f} /\ Alter(table, {n}, {f}, {}).loses = {}
         /\ Alter(table, {n}, {f}, {}).excludes = {f}
BY DEF Alter, Statement, Statements

LEMMA WriteFacts ==
  ASSUME NEW f \in Facts
  PROVE  /\ Write({}, {}, {f}) \in Statements
         /\ Write({}, {}, {f}).gains = {} /\ Write({}, {}, {f}).loses = {f}
         /\ Write({}, {}, {f}).excludes = {}
BY DEF Write, Statement, Statements

LEMMA InsertFacts ==
  ASSUME NEW f \in Facts, NEW n \in Facts
  PROVE  /\ Write({n}, {f}, {}) \in Statements
         /\ Write({n}, {f}, {}).gains = {f} /\ Write({n}, {f}, {}).loses = {}
         /\ Write({n}, {f}, {}).excludes = {}
BY DEF Write, Statement, Statements

\* What nobody else is for may go, and what nobody is against may come.
LEMMA DroppingIsHarmless ==
  ASSUME NEW m, NEW table \in Facts, NEW f \in Facts, f \notin BootstrapTables,
         \A k \in All \ {m} : f \notin Leaves(k),
         f \in {"payments.user required", "payments => users"} => m = "paymentUser",
         f = "courses => categories" => m = "realCategoryIds"
  PROVE  Harmless(m, Alter(table, {}, {}, {f})) /\ Harmless(m, Write({}, {}, {f}))
<1>1. ASSUME NEW s \in Statements, s.gains = {}, s.loses = {f}
      PROVE  Harmless(m, s)
  BY <1>1 DEF Harmless
<1>2. QED
  BY <1>1, DropFacts, WriteFacts

LEMMA AddingIsHarmless ==
  ASSUME NEW m, NEW table \in Facts, NEW f \in Facts,
         f \notin {"users", "inactive not disabled", "dangling courses", "courses => categories",
                   "payment_transactions"},
         \A k \in All \ {m} : f \notin Ends(k),
         f = "users.accountStatus" => m = "accountStatus"
  PROVE  Harmless(m, Alter(table, {}, {f}, {}))
<1>1. ASSUME NEW s \in Statements, s.gains = {f}, s.loses = {}
      PROVE  Harmless(m, s)
  BY <1>1 DEF Harmless
<1>2. QED
  BY <1>1, AddFacts

LEMMA DroppingIfThere ==
  ASSUME NEW m, NEW table \in Facts, NEW f \in Facts, Harmless(m, Alter(table, {}, {}, {f}))
  PROVE  LET list == When(Has(f), << Alter(table, {}, {}, {f}) >>)
         IN  /\ Fits(m, list) /\ list \in Seq(Statements)
             /\ WillEnd(f, schema, list)
             /\ \A g : Absent(g, list) /\ (g # f => Kept(g, list))
<1> DEFINE s == Alter(table, {}, {}, {f})
           list == When(Has(f), << s >>)
<1>1. s \in Statements /\ s.gains = {} /\ s.loses = {f}
  BY DropFacts
<1> HIDE DEF s
<1>2. CASE Has(f)
  BY <1>1, <1>2, OneStatement DEF When, WillEnd, Fits, s
<1>3. CASE ~Has(f)
  BY <1>3, EmptyList DEF When, WillEnd, Fits, Has, s
<1>4. QED
  BY <1>2, <1>3 DEF s

LEMMA AddingIfMissing ==
  ASSUME NEW m, NEW table \in Facts, NEW f \in Facts, Harmless(m, Alter(table, {}, {f}, {}))
  PROVE  LET list == When(~Has(f), << Alter(table, {}, {f}, {}) >>)
         IN  /\ Fits(m, list) /\ list \in Seq(Statements)
             /\ WillHold(f, schema, list)
             /\ \A g : Kept(g, list) /\ (g # f => Absent(g, list))
<1> DEFINE s == Alter(table, {}, {f}, {})
           list == When(~Has(f), << s >>)
<1>1. s \in Statements /\ s.gains = {f} /\ s.loses = {}
  BY AddFacts, NamedFacts
<1> HIDE DEF s
<1>2. CASE ~Has(f)
  BY <1>1, <1>2, OneStatement DEF When, WillHold, Fits, s
<1>3. CASE Has(f)
  BY <1>3, EmptyList DEF When, WillHold, Fits, Has, s
<1>4. QED
  BY <1>2, <1>3 DEF s

-----------------------------------------------------------------------------
(* Every migration but the first finds the tables of the first, and sends  *)
(* what makes up for what it does not find.                                *)

Found ==
  /\ Intact(schema, recorded, interrupted)
  /\ "schema" \in recorded /\ "schema" \notin interrupted

LEMMA FoundTables ==
  ASSUME Found
  PROVE  BootstrapTables \subseteq schema
BY DEF Found, Intact, Leaves, Fragile

LEMMA PaymentUserFits ==
  /\ Fits("paymentUser", UpPaymentUser)
  /\ Found /\ "paymentUser" \notin interrupted => Fulfils("paymentUser", schema, UpPaymentUser)
<1> DEFINE m     == "paymentUser"
           drop  == Alter("payment_transactions", {}, {}, {"payments => users"})
           null  == Alter("payment_transactions", {}, {}, {"payments.user required"})
           add   == Alter("payment_transactions", {"users"}, {"payments => users"}, {})
           first == When(Has("payments => users"), << drop >>)
           both  == << null, add >>
<1>1. /\ drop \in Statements /\ drop.gains = {} /\ drop.loses = {"payments => users"}
      /\ null \in Statements /\ null.gains = {} /\ null.loses = {"payments.user required"}
      /\ add \in Statements /\ add.gains = {"payments => users"} /\ add.loses = {}
  <2>1. "payment_transactions" \in Facts /\ "users" \in Facts /\ "payments => users" \in Facts
          /\ "payments.user required" \in Facts
    BY NamedFacts
  <2>2. drop \in Statements /\ drop.gains = {} /\ drop.loses = {"payments => users"}
    BY <2>1, DropFacts
  <2>3. null \in Statements /\ null.gains = {} /\ null.loses = {"payments.user required"}
    BY <2>1, DropFacts
  <2>4. add \in Statements /\ add.gains = {"payments => users"} /\ add.loses = {}
    BY <2>1 DEF Alter, Statement, Statements
  <2>5. QED
    BY <2>2, <2>3, <2>4
<1> HIDE DEF drop, null, add
<1>2. Harmless(m, drop) /\ Harmless(m, null) /\ Harmless(m, add)
  BY <1>1, OwnersOfLeaves, OwnersOfEnds DEF Harmless, BootstrapTables
<1>3. Fits(m, first)
  BY <1>1, <1>2, OneStatement, EmptyList DEF When
<1>4. Fits(m, both)
  BY <1>1, <1>2, TwoStatements
<1>5. Gained("payments => users", both) /\ Lost("payments.user required", both)
  BY <1>1, TwoStatements
<1>6. first \in Seq(Statements) /\ both \in Seq(Statements)
  BY <1>3, <1>4 DEF Fits
<1>7. UpPaymentUser = When(Has("payments.user required"), first \o both)
  BY DEF UpPaymentUser, drop, null, add
<1> HIDE DEF first, both
<1>8. /\ Gained("payments => users", first \o both)
      /\ Lost("payments.user required", first \o both)
      /\ Fits(m, first \o both)
  BY <1>3, <1>4, <1>5, <1>6, ConcatGains, ConcatLoses, ConcatFits
<1>9. Fits(m, UpPaymentUser)
  BY <1>7, <1>8, EmptyList DEF When
<1>10. ASSUME Found, "paymentUser" \notin interrupted
       PROVE  Fulfils(m, schema, UpPaymentUser)
  <2>1. Results(m) = {"payments => users"} /\ Ends(m) = {"payments.user required"}
    BY DEF Results, Leaves, Ends
  <2>2. "payment_transactions" \in schema
    BY <1>10, FoundTables DEF BootstrapTables
  <2>3. CASE Has("payments.user required")
    <3>1. UpPaymentUser = first \o both
      BY <1>7, <2>3 DEF When
    <3>2. QED
      BY <1>8, <2>1, <3>1 DEF Fulfils, WillHold, WillEnd
  <2>4. CASE ~Has("payments.user required")
    <3>1. UpPaymentUser = <<>>
      BY <1>7, <2>4 DEF When
    <3>2. "payments => users" \in schema /\ "payments.user required" \notin schema
      BY <1>10, <2>2, <2>4 DEF Found, Intact, Has
    <3>3. QED
      BY <2>1, <3>1, <3>2, EmptyList DEF Fulfils, WillHold, WillEnd
  <2>5. QED
    BY <2>3, <2>4
<1>11. QED
  BY <1>9, <1>10

LEMMA AccountStatusFits ==
  /\ Fits("accountStatus", UpAccountStatus)
  /\ Found /\ "accountStatus" \notin interrupted =>
       Fulfils("accountStatus", schema, UpAccountStatus)
<1> DEFINE m      == "accountStatus"
           add    == Alter("users", {}, {"users.accountStatus"}, {})
           unmark == Write({}, {}, {"inactive not disabled"})
           both   == << add, unmark >>
<1>1. /\ add \in Statements /\ add.gains = {"users.accountStatus"} /\ add.loses = {}
      /\ unmark \in Statements /\ unmark.gains = {} /\ unmark.loses = {"inactive not disabled"}
  <2>1. "users" \in Facts /\ "users.accountStatus" \in Facts /\ "inactive not disabled" \in Facts
    BY NamedFacts
  <2>2. add \in Statements /\ add.gains = {"users.accountStatus"} /\ add.loses = {}
    BY <2>1, AddFacts
  <2>3. unmark \in Statements /\ unmark.gains = {} /\ unmark.loses = {"inactive not disabled"}
    BY <2>1, WriteFacts
  <2>4. QED
    BY <2>2, <2>3
<1>2. UpAccountStatus = When(Has("users") /\ ~Has("users.accountStatus"), both)
  BY DEF UpAccountStatus
<1> HIDE DEF add, unmark
<1>3. Harmless(m, add) /\ Harmless(m, unmark)
  BY <1>1, OwnersOfLeaves, OwnersOfEnds DEF Harmless, BootstrapTables
<1>4. /\ Fits(m, both)
      /\ Gained("users.accountStatus", both) /\ Lost("inactive not disabled", both)
  BY <1>1, <1>3, TwoStatements
<1> HIDE DEF both
<1>5. Fits(m, UpAccountStatus)
  BY <1>2, <1>4, EmptyList DEF When
<1>6. ASSUME Found, "accountStatus" \notin interrupted
      PROVE  Fulfils(m, schema, UpAccountStatus)
  <2>1. Results(m) = {"users.accountStatus"} /\ Ends(m) = {"inactive not disabled"}
    BY DEF Results, Leaves, Ends
  <2>2. "users" \in schema
    BY <1>6, FoundTables DEF BootstrapTables
  <2>3. CASE ~Has("users.accountStatus")
    <3>1. UpAccountStatus = both
      BY <1>2, <2>2, <2>3 DEF When, Has
    <3>2. QED
      BY <1>4, <2>1, <3>1 DEF Fulfils, WillHold, WillEnd
  <2>4. CASE Has("users.accountStatus")
    <3>1. UpAccountStatus = <<>>
      BY <1>2, <2>4 DEF When
    <3>2. "users.accountStatus" \in schema /\ "inactive not disabled" \notin schema
      BY <1>6, <2>4 DEF Found, Intact, Has
    <3>3. QED
      BY <2>1, <3>1, <3>2, EmptyList DEF Fulfils, WillHold, WillEnd
  <2>5. QED
    BY <2>3, <2>4
<1>7. QED
  BY <1>5, <1>6

LEMMA DetachCoursesFits ==
  Fits("detachCourses", UpDetachCourses) /\ Fulfils("detachCourses", schema, UpDetachCourses)
<1> DEFINE m == "detachCourses"
           dropping(f) == When(Has(f), << Alter("courses", {}, {}, {f}) >>)
           Columns == {"courses => partners", "courses.commissionValue",
                       "courses.commissionType", "courses.partner"}
<1>1. ASSUME NEW f \in Columns
      PROVE  /\ Fits(m, dropping(f)) /\ dropping(f) \in Seq(Statements)
             /\ WillEnd(f, schema, dropping(f)) /\ \A g : Absent(g, dropping(f))
  <2>1. f \in Facts /\ "courses" \in Facts
    BY NamedFacts
  <2>2. Harmless(m, Alter("courses", {}, {}, {f}))
    BY <2>1, DroppingIsHarmless, OwnersOfLeaves DEF BootstrapTables
  <2>3. QED
    BY <2>1, <2>2, DroppingIfThere
<1> DEFINE a == dropping("courses => partners")
           b == dropping("courses.commissionValue")
           c == dropping("courses.commissionType")
           d == dropping("courses.partner")
<1>2. UpDetachCourses = ((a \o b) \o c) \o d
  BY CourseColumns DEF UpDetachCourses, DropFromCourses
<1>3. /\ Fits(m, a) /\ a \in Seq(Statements) /\ WillEnd("courses => partners", schema, a)
      /\ \A g : Absent(g, a)
  BY <1>1
<1>4. /\ Fits(m, b) /\ b \in Seq(Statements) /\ WillEnd("courses.commissionValue", schema, b)
      /\ \A g : Absent(g, b)
  BY <1>1
<1>5. /\ Fits(m, c) /\ c \in Seq(Statements) /\ WillEnd("courses.commissionType", schema, c)
      /\ \A g : Absent(g, c)
  BY <1>1
<1>6. /\ Fits(m, d) /\ d \in Seq(Statements) /\ WillEnd("courses.partner", schema, d)
      /\ \A g : Absent(g, d)
  BY <1>1
<1> HIDE DEF a, b, c, d
<1>7. /\ Fits(m, a \o b) /\ a \o b \in Seq(Statements) /\ \A g : Absent(g, a \o b)
      /\ WillEnd("courses => partners", schema, a \o b)
      /\ WillEnd("courses.commissionValue", schema, a \o b)
  BY <1>3, <1>4, ConcatFits, ConcatIndexes, ConcatKeeps, ConcatEnds
<1>8. /\ Fits(m, (a \o b) \o c) /\ (a \o b) \o c \in Seq(Statements)
      /\ \A g : Absent(g, (a \o b) \o c)
      /\ WillEnd("courses => partners", schema, (a \o b) \o c)
      /\ WillEnd("courses.commissionValue", schema, (a \o b) \o c)
      /\ WillEnd("courses.commissionType", schema, (a \o b) \o c)
  BY <1>5, <1>7, ConcatFits, ConcatIndexes, ConcatKeeps, ConcatEnds
<1>9. Results(m) = {} /\ Ends(m) = Columns
  BY CourseColumns DEF Results, Leaves, Ends
<1>10. QED
  BY <1>2, <1>6, <1>8, <1>9, ConcatFits, ConcatEnds DEF Fulfils

LEMMA VideoDetailsFits ==
  /\ Fits("videoDetails", UpVideoDetails)
  /\ Found => Fulfils("videoDetails", schema, UpVideoDetails)
<1> DEFINE m == "videoDetails"
           a == When(Has("videos.duration text"),
                     << Alter("course_videos", {}, {}, {"videos.duration text"}) >>)
           b == When(~Has("videos.details"),
                     << Alter("course_videos", {}, {"videos.details"}, {}) >>)
<1>1. UpVideoDetails = When(Has("course_videos"), a \o b)
  BY DEF UpVideoDetails
<1>2. Harmless(m, Alter("course_videos", {}, {}, {"videos.duration text"}))
  BY DroppingIsHarmless, NamedFacts, OwnersOfLeaves DEF BootstrapTables
<1>3. Harmless(m, Alter("course_videos", {}, {"videos.details"}, {}))
  BY AddingIsHarmless, NamedFacts, OwnersOfEnds
<1>4. /\ Fits(m, a) /\ a \in Seq(Statements) /\ WillEnd("videos.duration text", schema, a)
      /\ Kept("videos.details", a)
  BY <1>2, DroppingIfThere, NamedFacts
<1>5. /\ Fits(m, b) /\ b \in Seq(Statements) /\ WillHold("videos.details", schema, b)
      /\ Absent("videos.duration text", b)
  BY <1>3, AddingIfMissing, NamedFacts
<1> HIDE DEF a, b
<1>6. /\ Fits(m, a \o b) /\ WillEnd("videos.duration text", schema, a \o b)
      /\ WillHold("videos.details", schema, a \o b)
  BY <1>4, <1>5, ConcatFits, ConcatEnds, ConcatHolds
<1>7. Fits(m, UpVideoDetails)
  BY <1>1, <1>6, EmptyList DEF When
<1>8. ASSUME Found
      PROVE  Fulfils(m, schema, UpVideoDetails)
  <2>1. Results(m) = {"videos.details"} /\ Ends(m) = {"videos.duration text"}
    BY DEF Results, Leaves, Ends
  <2>2. UpVideoDetails = a \o b
    BY <1>1, <1>8, FoundTables DEF When, Has, BootstrapTables
  <2>3. QED
    BY <1>6, <2>1, <2>2 DEF Fulfils
<1>9. QED
  BY <1>7, <1>8

LEMMA UniqueCodeFits ==
  /\ Fits("uniqueCode", UpUniqueCode)
  /\ Found => Fulfils("uniqueCode", schema, UpUniqueCode)
<1> DEFINE m      == "uniqueCode"
           delete == Write({}, {}, {"unused duplicates"})
           refuse == Statement(FALSE, {}, {"linked duplicates"}, {}, {})
           both   == << delete, refuse >>
           a      == When(Has("codes unique per partner"),
                          << Alter("access_codes", {}, {}, {"codes unique per partner"}) >>)
           b      == When(~Has("codes unique"),
                          << Alter("access_codes", {}, {"codes unique"}, {}) >>)
<1>1. UpUniqueCode = When(Has("access_codes"), (both \o a) \o b)
  BY DEF UpUniqueCode
<1>2. /\ delete \in Statements /\ delete.gains = {} /\ delete.loses = {"unused duplicates"}
      /\ Harmless(m, delete)
  BY WriteFacts, DroppingIsHarmless, NamedFacts, OwnersOfLeaves DEF BootstrapTables
<1>3. /\ refuse \in Statements /\ refuse.gains = {} /\ refuse.loses = {}
      /\ refuse.excludes = {"linked duplicates"}
  BY NamedFacts DEF Statement, Statements
<1> HIDE DEF delete, refuse
<1>4. Harmless(m, refuse)
  BY <1>3 DEF Harmless
<1>5. /\ Fits(m, both) /\ Lost("unused duplicates", both) /\ Lost("linked duplicates", both)
      /\ Kept("codes unique", both)
  BY <1>2, <1>3, <1>4, TwoStatements
<1>6. Harmless(m, Alter("access_codes", {}, {}, {"codes unique per partner"}))
  BY DroppingIsHarmless, NamedFacts, OwnersOfLeaves DEF BootstrapTables
<1>7. Harmless(m, Alter("access_codes", {}, {"codes unique"}, {}))
  BY AddingIsHarmless, NamedFacts, OwnersOfEnds
<1>8. /\ Fits(m, a) /\ a \in Seq(Statements) /\ WillEnd("codes unique per partner", schema, a)
      /\ \A g : Absent(g, a) /\ Kept("codes unique", a)
  BY <1>6, DroppingIfThere, NamedFacts
<1>9. /\ Fits(m, b) /\ b \in Seq(Statements) /\ WillHold("codes unique", schema, b)
      /\ \A g : g # "codes unique" => Absent(g, b)
  BY <1>7, AddingIfMissing, NamedFacts
<1>10. both \in Seq(Statements)
  BY <1>5 DEF Fits
<1> HIDE DEF both, a, b
<1>11. /\ Fits(m, both \o a) /\ both \o a \in Seq(Statements)
       /\ WillEnd("unused duplicates", schema, both \o a)
       /\ WillEnd("linked duplicates", schema, both \o a)
       /\ WillEnd("codes unique per partner", schema, both \o a)
       /\ Kept("codes unique", both \o a)
  <2>1. WillEnd("unused duplicates", schema, both) /\ WillEnd("linked duplicates", schema, both)
    BY <1>5 DEF WillEnd
  <2>2. Absent("codes unique per partner", both)
    BY <1>2, <1>3, TwoStatements DEF both
  <2>3. QED
    BY <1>5, <1>8, <1>10, <2>1, <2>2, ConcatFits, ConcatIndexes, ConcatKeeps, ConcatEnds
<1>12. /\ Fits(m, (both \o a) \o b)
       /\ WillHold("codes unique", schema, (both \o a) \o b)
       /\ WillEnd("unused duplicates", schema, (both \o a) \o b)
       /\ WillEnd("linked duplicates", schema, (both \o a) \o b)
       /\ WillEnd("codes unique per partner", schema, (both \o a) \o b)
  BY <1>9, <1>11, ConcatFits, ConcatHolds, ConcatEnds
<1>13. Fits(m, UpUniqueCode)
  BY <1>1, <1>12, EmptyList DEF When
<1>14. ASSUME Found
       PROVE  Fulfils(m, schema, UpUniqueCode)
  <2>1. /\ Results(m) = {"codes unique"}
        /\ Ends(m) = {"codes unique per partner", "unused duplicates", "linked duplicates"}
    BY DEF Results, Leaves, Ends
  <2>2. UpUniqueCode = (both \o a) \o b
    BY <1>1, <1>14, FoundTables DEF When, Has, BootstrapTables
  <2>3. QED
    BY <1>12, <2>1, <2>2 DEF Fulfils
<1>15. QED
  BY <1>13, <1>14

LEMMA CodePartnerFits ==
  /\ Fits("codePartner", UpCodePartner)
  /\ Found => Fulfils("codePartner", schema, UpCodePartner)
<1> DEFINE m   == "codePartner"
           a   == When(Has("codes => partners"),
                       << Alter("access_codes", {}, {}, {"codes => partners"}) >>)
           b   == When(Has("codes.partner required"),
                       << Alter("access_codes", {}, {}, {"codes.partner required"}) >>)
           add == Alter("access_codes", {"partners"}, {"codes => partners"}, {})
           c   == << add >>
<1>1. UpCodePartner = When(Has("access_codes"), (a \o b) \o c)
  BY DEF UpCodePartner
<1>2. add \in Statements /\ add.gains = {"codes => partners"} /\ add.loses = {}
  BY NamedFacts DEF Alter, Statement, Statements
<1> HIDE DEF add
<1>3. Harmless(m, add)
  BY <1>2, OwnersOfEnds DEF Harmless
<1>4. /\ Fits(m, c) /\ c \in Seq(Statements) /\ Gained("codes => partners", c)
      /\ Absent("codes.partner required", c)
  BY <1>2, <1>3, OneStatement DEF Fits
<1>5. Harmless(m, Alter("access_codes", {}, {}, {"codes => partners"}))
  BY DroppingIsHarmless, NamedFacts, OwnersOfLeaves DEF BootstrapTables
<1>6. Harmless(m, Alter("access_codes", {}, {}, {"codes.partner required"}))
  BY DroppingIsHarmless, NamedFacts, OwnersOfLeaves DEF BootstrapTables
<1>7. Fits(m, a) /\ a \in Seq(Statements) /\ Absent("codes.partner required", a)
  BY <1>5, DroppingIfThere, NamedFacts
<1>8. Fits(m, b) /\ b \in Seq(Statements) /\ WillEnd("codes.partner required", schema, b)
  BY <1>6, DroppingIfThere, NamedFacts
<1> HIDE DEF a, b, c
<1>9. /\ Fits(m, a \o b) /\ a \o b \in Seq(Statements)
      /\ WillEnd("codes.partner required", schema, a \o b)
  BY <1>7, <1>8, ConcatFits, ConcatIndexes, ConcatEnds
<1>10. /\ Fits(m, (a \o b) \o c)
       /\ WillHold("codes => partners", schema, (a \o b) \o c)
       /\ WillEnd("codes.partner required", schema, (a \o b) \o c)
  BY <1>4, <1>9, ConcatFits, ConcatHolds, ConcatEnds
<1>11. Fits(m, UpCodePartner)
  BY <1>1, <1>10, EmptyList DEF When
<1>12. ASSUME Found
       PROVE  Fulfils(m, schema, UpCodePartner)
  <2>1. Results(m) = {"codes => partners"} /\ Ends(m) = {"codes.partner required"}
    BY DEF Results, Leaves, Ends
  <2>2. UpCodePartner = (a \o b) \o c
    BY <1>1, <1>12, FoundTables DEF When, Has, BootstrapTables
  <2>3. QED
    BY <1>10, <2>1, <2>2 DEF Fulfils
<1>13. QED
  BY <1>11, <1>12

LEMMA NewsletterFits ==
  Fits("newsletter", UpNewsletter) /\ Fulfils("newsletter", schema, UpNewsletter)
<1> DEFINE m      == "newsletter"
           create == Statement(TRUE, {}, {}, {"newsletter_subscribers"}, {})
<1>1. /\ create \in Statements /\ create.gains = {"newsletter_subscribers"}
      /\ create.loses = {}
  BY NamedFacts DEF Statement, Statements
<1>2. UpNewsletter = << create >>
  BY DEF UpNewsletter
<1> HIDE DEF create
<1>3. Harmless(m, create)
  BY <1>1, OwnersOfEnds DEF Harmless
<1>4. Results(m) = {"newsletter_subscribers"} /\ Ends(m) = {}
  BY DEF Results, Leaves, Ends
<1>5. QED
  BY <1>1, <1>2, <1>3, <1>4, OneStatement DEF Fulfils, WillHold

LEMMA ExportedAtFits ==
  Fits("exportedAt", UpExportedAt) /\ Fulfils("exportedAt", schema, UpExportedAt)
<1> DEFINE m == "exportedAt"
           s == Alter("access_codes", {}, {"codes.exportedAt"}, {})
<1>1. Harmless(m, s)
  BY AddingIsHarmless, NamedFacts, OwnersOfEnds
<1>2. Fits(m, UpExportedAt) /\ WillHold("codes.exportedAt", schema, UpExportedAt)
  BY <1>1, AddingIfMissing, NamedFacts DEF UpExportedAt
<1>3. Results(m) = {"codes.exportedAt"} /\ Ends(m) = {}
  BY DEF Results, Leaves, Ends
<1>4. QED
  BY <1>2, <1>3 DEF Fulfils

LEMMA ActivatePaidFits ==
  Fits("activatePaid", UpActivatePaid) /\ Fulfils("activatePaid", schema, UpActivatePaid)
<1> DEFINE m     == "activatePaid"
           write == Write({"users", "payment_transactions"}, {}, {"paid not onboarded"})
<1>1. write \in Statements /\ write.gains = {} /\ write.loses = {"paid not onboarded"}
  BY NamedFacts DEF Write, Statement, Statements
<1>2. UpActivatePaid = << write >>
  BY DEF UpActivatePaid
<1> HIDE DEF write
<1>3. Harmless(m, write)
  BY <1>1, OwnersOfLeaves DEF Harmless, BootstrapTables
<1>4. Results(m) = {} /\ Ends(m) = {"paid not onboarded"}
  BY DEF Results, Leaves, Ends
<1>5. QED
  BY <1>1, <1>2, <1>3, <1>4, OneStatement DEF Fulfils, WillEnd

LEMMA ResourceTypeFits ==
  /\ Fits("resourceType", UpResourceType)
  /\ Found => Fulfils("resourceType", schema, UpResourceType)
<1> DEFINE m == "resourceType"
           s == Alter("course_videos", {}, {"videos.resourceType"}, {})
           l == When(~Has("videos.resourceType"), << s >>)
<1>1. Harmless(m, s)
  BY AddingIsHarmless, NamedFacts, OwnersOfEnds
<1>2. Fits(m, l) /\ WillHold("videos.resourceType", schema, l)
  BY <1>1, AddingIfMissing, NamedFacts
<1> HIDE DEF s
<1>3. Has("course_videos") => UpResourceType = l
  BY DEF UpResourceType, When, s
<1>4. ~Has("course_videos") => UpResourceType = <<>>
  BY DEF UpResourceType, When
<1> HIDE DEF l
<1>5. Fits(m, UpResourceType)
  BY <1>2, <1>3, <1>4, EmptyList
<1>6. Results(m) = {"videos.resourceType"} /\ Ends(m) = {}
  BY DEF Results, Leaves, Ends
<1>7. Found => Has("course_videos")
  BY FoundTables DEF Has, BootstrapTables
<1>8. QED
  BY <1>2, <1>3, <1>5, <1>6, <1>7 DEF Fulfils

LEMMA CategoriesFits ==
  Fits("categories", UpCategories) /\ Fulfils("categories", schema, UpCategories)
<1> DEFINE m       == "categories"
           column  == Alter("courses", {}, {"courses.category", "uncategorised courses"}, {})
           fill    == Write({"courses.category", "general category"}, {}, {"uncategorised courses"})
           require == Statement(TRUE, {"courses.category"}, {"uncategorised courses"},
                                {"courses.category required"}, {})
           key     == Statement(TRUE, {"courses.category", "course_categories"},
                                {"courses => categories", "dangling courses"},
                                {"courses => categories"}, {})
           general == Write({"course_categories"}, {"general category"}, {})
           other   == Write({"course_categories"}, {"other categories"}, {})
           a == When(~Has("course_categories"), << CategoryTable >>)
           b == << general, other >>
           c == When(Has("courses") /\ ~Has("courses.category"), << column >>)
           d == << fill, require >>
           e == When(~Has("courses => categories"), << key >>)
           Unlost == {"general category", "other categories", "courses.category required",
                      "courses => categories"}
<1>1. UpCategories = (a \o b) \o ((c \o d) \o e)
  BY DEF UpCategories, SeedCategories, CategoryOfCourse
<1>2. column \in Statements /\ column.loses = {}
      /\ column.gains = {"courses.category", "uncategorised courses"}
  BY NamedFacts DEF Alter, Statement, Statements
<1>3. fill \in Statements /\ fill.gains = {} /\ fill.loses = {"uncategorised courses"}
  BY NamedFacts DEF Write, Statement, Statements
<1>4. require \in Statements /\ require.gains = {"courses.category required"} /\ require.loses = {}
  BY NamedFacts DEF Statement, Statements
<1>5. key \in Statements /\ key.gains = {"courses => categories"} /\ key.loses = {}
      /\ key.excludes = {"courses => categories", "dangling courses"}
  BY NamedFacts DEF Statement, Statements
<1>6. general \in Statements /\ general.gains = {"general category"} /\ general.loses = {}
  BY NamedFacts DEF Write, Statement, Statements
<1>7. other \in Statements /\ other.gains = {"other categories"} /\ other.loses = {}
  BY NamedFacts DEF Write, Statement, Statements
<1>8. CategoryTable \in Statements /\ CategoryTable.gains = {"course_categories"}
      /\ CategoryTable.loses = {}
  BY NamedFacts DEF CategoryTable, Create, Statement, Statements
<1> HIDE DEF column, fill, require, key, general, other
<1>9. Harmless(m, column) /\ Harmless(m, fill) /\ Harmless(m, require)
  <2>1. \A k \in All \ {m} : column.gains \cap Ends(k) = {}
    BY <1>2, OwnersOfEnds
  <2>2. Harmless(m, column)
    BY <1>2, <2>1 DEF Harmless
  <2>3. \A k \in All \ {m} : fill.loses \cap Leaves(k) = {}
    BY <1>3, OwnersOfLeaves
  <2>4. Harmless(m, fill)
    BY <1>3, <2>3 DEF Harmless, BootstrapTables
  <2>5. Harmless(m, require)
    BY <1>4, OwnersOfEnds DEF Harmless
  <2>6. QED
    BY <2>2, <2>4, <2>5
<1>10. Harmless(m, key)
  BY <1>5, OwnersOfEnds DEF Harmless
<1>11. Harmless(m, general) /\ Harmless(m, other) /\ Harmless(m, CategoryTable)
  BY <1>6, <1>7, <1>8, OwnersOfEnds DEF Harmless
<1>12. Fits(m, a) /\ \A f : Kept(f, a)
  BY <1>8, <1>11, OneStatement, EmptyList DEF When
<1>13. /\ Fits(m, b) /\ Gained("general category", b) /\ Gained("other categories", b)
       /\ \A f : Kept(f, b)
  BY <1>6, <1>7, <1>11, TwoStatements
<1>14. Fits(m, c) /\ \A f : Kept(f, c)
  BY <1>2, <1>9, OneStatement, EmptyList DEF When
<1>15. /\ Fits(m, d) /\ Gained("courses.category required", d)
       /\ Lost("uncategorised courses", d) /\ \A f \in Unlost : Kept(f, d)
  BY <1>3, <1>4, <1>9, TwoStatements
<1>16. /\ Fits(m, e) /\ WillHold("courses => categories", schema, e)
       /\ Absent("uncategorised courses", e) /\ \A f : Kept(f, e)
  <2>1. CASE Has("courses => categories")
    BY <2>1, EmptyList DEF When, Has, WillHold
  <2>2. CASE ~Has("courses => categories")
    BY <1>5, <1>10, <2>2, OneStatement DEF When, WillHold
  <2>3. QED
    BY <2>1, <2>2
<1> HIDE DEF a, b, c, d, e
<1>17. /\ a \in Seq(Statements) /\ b \in Seq(Statements) /\ c \in Seq(Statements)
       /\ d \in Seq(Statements) /\ e \in Seq(Statements)
  BY <1>12, <1>13, <1>14, <1>15, <1>16 DEF Fits
<1>18. /\ Fits(m, a \o b) /\ a \o b \in Seq(Statements)
       /\ Gained("general category", a \o b) /\ Gained("other categories", a \o b)
       /\ \A f : Kept(f, a \o b)
  BY <1>12, <1>13, <1>17, ConcatFits, ConcatIndexes, ConcatGains, ConcatKeeps
<1>19. /\ Fits(m, c \o d) /\ c \o d \in Seq(Statements)
       /\ Gained("courses.category required", c \o d) /\ Lost("uncategorised courses", c \o d)
       /\ \A f \in Unlost : Kept(f, c \o d)
  BY <1>14, <1>15, <1>17, ConcatFits, ConcatIndexes, ConcatGains, ConcatLoses, ConcatKeeps
<1>20. /\ Fits(m, (c \o d) \o e) /\ (c \o d) \o e \in Seq(Statements)
       /\ Gained("courses.category required", (c \o d) \o e)
       /\ Lost("uncategorised courses", (c \o d) \o e)
       /\ WillHold("courses => categories", schema, (c \o d) \o e)
       /\ \A f \in Unlost : Kept(f, (c \o d) \o e)
  BY <1>16, <1>17, <1>19, ConcatFits, ConcatIndexes, ConcatGains, ConcatLoses, ConcatKeeps,
     ConcatHolds
<1> DEFINE rest == (c \o d) \o e
<1> HIDE DEF rest
<1>21. /\ Fits(m, (a \o b) \o rest)
       /\ WillHold("general category", schema, (a \o b) \o rest)
       /\ WillHold("other categories", schema, (a \o b) \o rest)
       /\ WillHold("courses.category required", schema, (a \o b) \o rest)
       /\ WillHold("courses => categories", schema, (a \o b) \o rest)
       /\ WillEnd("uncategorised courses", schema, (a \o b) \o rest)
  <2>1. rest \in Seq(Statements) /\ Fits(m, rest) /\ \A f \in Unlost : Kept(f, rest)
        /\ Gained("courses.category required", rest) /\ Lost("uncategorised courses", rest)
        /\ WillHold("courses => categories", schema, rest)
    BY <1>20 DEF rest
  <2>2. WillHold("general category", schema, a \o b) /\ WillHold("other categories", schema, a \o b)
    BY <1>18 DEF WillHold
  <2>3. QED
    BY <1>18, <2>1, <2>2, ConcatFits, ConcatHolds, ConcatEnds
<1>22. /\ Results(m) = Unlost /\ Ends(m) = {"uncategorised courses"}
  BY DEF Results, Leaves, Ends
<1>23. QED
  BY <1>1, <1>21, <1>22 DEF Fulfils, rest

LEMMA RealCategoryIdsFits ==
  /\ Fits("realCategoryIds", UpRealCategoryIds)
  /\ Found /\ "realCategoryIds" \notin interrupted /\ "categories" \in recorded =>
       Fulfils("realCategoryIds", schema, UpRealCategoryIds)
<1> DEFINE m       == "realCategoryIds"
           fk      == "courses => categories"
           left    == IF Has("dangling courses") THEN {} ELSE {"dangling courses"}
           a       == When(Has(fk), << Alter("courses", {}, {}, {fk}) >>)
           give    == Write({}, {"dangling courses"}, {})
           take    == Write({}, {}, {"placeholder ids"} \cup left)
           key     == Statement(TRUE, {}, {fk, "dangling courses"}, {fk}, {})
           list    == << give, take, key >>
<1>1. UpRealCategoryIds = When(Has("placeholder ids"), a \o list)
  BY DEF UpRealCategoryIds
<1>2. give \in Statements /\ give.gains = {"dangling courses"} /\ give.loses = {}
  BY NamedFacts DEF Write, Statement, Statements
<1>3. left \subseteq {"dangling courses"}
  OBVIOUS
<1> HIDE DEF left
<1>4. take \in Statements /\ take.gains = {} /\ take.loses = {"placeholder ids"} \cup left
  BY <1>3, NamedFacts DEF Write, Statement, Statements
<1>5. key \in Statements /\ key.gains = {fk} /\ key.loses = {}
      /\ key.excludes = {fk, "dangling courses"}
  BY NamedFacts DEF Statement, Statements
<1> HIDE DEF give, take, key
<1>6. Harmless(m, give) /\ Harmless(m, take) /\ Harmless(m, key)
  <2>1. Harmless(m, give)
    BY <1>2, OwnersOfEnds DEF Harmless
  <2>2. take.loses \subseteq {"placeholder ids", "dangling courses"}
    BY <1>3, <1>4
  <2>3. \A k \in All \ {m} : take.loses \cap Leaves(k) = {}
    BY <2>2, OwnersOfLeaves
  <2>4. Harmless(m, take)
    BY <1>4, <2>2, <2>3 DEF Harmless, BootstrapTables
  <2>5. Harmless(m, key)
    BY <1>5, OwnersOfEnds DEF Harmless
  <2>6. QED
    BY <2>1, <2>4, <2>5
<1>7. /\ Fits(m, list) /\ Gained(fk, list)
      /\ Lost("placeholder ids", list) /\ Lost("dangling courses", list)
  BY <1>2, <1>4, <1>5, <1>6, ThreeStatements
<1>8. Harmless(m, Alter("courses", {}, {}, {fk}))
  BY DroppingIsHarmless, NamedFacts, OwnersOfLeaves DEF BootstrapTables
<1>9. Fits(m, a) /\ a \in Seq(Statements) /\ list \in Seq(Statements)
  BY <1>7, <1>8, DroppingIfThere, NamedFacts DEF Fits
<1> HIDE DEF a, list
<1>10. /\ Fits(m, a \o list) /\ WillHold(fk, schema, a \o list)
       /\ WillEnd("placeholder ids", schema, a \o list)
       /\ WillEnd("dangling courses", schema, a \o list)
  BY <1>7, <1>9, ConcatFits, ConcatHolds, ConcatEnds
<1>11. Fits(m, UpRealCategoryIds)
  BY <1>1, <1>10, EmptyList DEF When
<1>12. ASSUME Found, "realCategoryIds" \notin interrupted, "categories" \in recorded
       PROVE  Fulfils(m, schema, UpRealCategoryIds)
  <2>1. Results(m) = {fk} /\ Ends(m) = {"placeholder ids", "dangling courses"}
    BY DEF Results, Leaves, Ends
  <2>2. CASE Has("placeholder ids")
    <3>1. UpRealCategoryIds = a \o list
      BY <1>1, <2>2 DEF When
    <3>2. QED
      BY <1>10, <2>1, <3>1 DEF Fulfils
  <2>3. CASE ~Has("placeholder ids")
    <3>1. UpRealCategoryIds = <<>>
      BY <1>1, <2>3 DEF When
    <3>2. fk \in schema /\ "dangling courses" \notin schema
      BY <1>12 DEF Found, Intact
    <3>3. QED
      BY <2>1, <2>3, <3>1, <3>2, EmptyList DEF Fulfils, WillHold, WillEnd, Has
  <2>4. QED
    BY <2>2, <2>3
<1>13. QED
  BY <1>11, <1>12

\* A table of the first migration, or a key between two of them.
LEMMA CreatingIsHarmless ==
  ASSUME NEW s \in Statements, s.loses = {},
         s.gains \cap {"inactive not disabled", "courses => categories", "dangling courses"} = {},
         "users" \in s.gains => "users" \in s.excludes,
         "users.accountStatus" \in s.gains => "users" \in s.gains,
         "payment_transactions" \in s.gains => "payments => users" \in s.gains
  PROVE  Harmless("schema", s)
BY DEF Harmless

LEMMA FirstTablesFit ==
  /\ Fits("schema", FirstTables) /\ \A f : Kept(f, FirstTables)
  /\ \A f \in {"roles", "partners", "system_settings",
             "payment_webhook_events", "courses", "users",
             "access_codes"} : Gained(f, FirstTables)
<1> DEFINE roles == Create("roles", {}, {})
           partners == Create("partners", {}, {})
           settings == Create("system_settings", {}, {})
           events == Create("payment_webhook_events", {}, {})
           courses == Create("courses", {}, {})
           users == Create("users", {"roles", "partners"}, {"users.accountStatus"})
           codes == Create("access_codes", {"partners", "users"},
                       {"codes unique", "codes.partner required", "codes => partners"})
           key == Alter("users", {"access_codes"}, {"users => codes"}, {})
<1>1. FirstTables = << roles, partners, settings, events, courses, users, codes, key >>
  BY DEF FirstTables
<1>2. roles \in Statements /\ roles.loses = {} /\ Harmless("schema", roles)
      /\ roles.gains = {"roles"}
  <2>1. roles \in Statements /\ roles.loses = {} /\ roles.excludes = {"roles"}
        /\ roles.gains = {"roles"}
    BY NamedFacts DEF Create, Statement, Statements
  <2> HIDE DEF roles
  <2>2. QED
    BY <2>1, CreatingIsHarmless
<1>3. partners \in Statements /\ partners.loses = {} /\ Harmless("schema", partners)
      /\ partners.gains = {"partners"}
  <2>1. partners \in Statements /\ partners.loses = {} /\ partners.excludes = {"partners"}
        /\ partners.gains = {"partners"}
    BY NamedFacts DEF Create, Statement, Statements
  <2> HIDE DEF partners
  <2>2. QED
    BY <2>1, CreatingIsHarmless
<1>4. settings \in Statements /\ settings.loses = {} /\ Harmless("schema", settings)
      /\ settings.gains = {"system_settings"}
  <2>1. settings \in Statements /\ settings.loses = {} /\ settings.excludes = {"system_settings"}
        /\ settings.gains = {"system_settings"}
    BY NamedFacts DEF Create, Statement, Statements
  <2> HIDE DEF settings
  <2>2. QED
    BY <2>1, CreatingIsHarmless
<1>5. events \in Statements /\ events.loses = {} /\ Harmless("schema", events)
      /\ events.gains = {"payment_webhook_events"}
  <2>1. events \in Statements /\ events.loses = {} /\ events.excludes = {"payment_webhook_events"}
        /\ events.gains = {"payment_webhook_events"}
    BY NamedFacts DEF Create, Statement, Statements
  <2> HIDE DEF events
  <2>2. QED
    BY <2>1, CreatingIsHarmless
<1>6. courses \in Statements /\ courses.loses = {} /\ Harmless("schema", courses)
      /\ courses.gains = {"courses"}
  <2>1. courses \in Statements /\ courses.loses = {} /\ courses.excludes = {"courses"}
        /\ courses.gains = {"courses"}
    BY NamedFacts DEF Create, Statement, Statements
  <2> HIDE DEF courses
  <2>2. QED
    BY <2>1, CreatingIsHarmless
<1>7. users \in Statements /\ users.loses = {} /\ Harmless("schema", users)
      /\ users.gains = {"users", "users.accountStatus"}
  <2>1. users \in Statements /\ users.loses = {} /\ users.excludes = {"users"}
        /\ users.gains = {"users", "users.accountStatus"}
    BY NamedFacts DEF Create, Statement, Statements
  <2> HIDE DEF users
  <2>2. QED
    BY <2>1, CreatingIsHarmless
<1>8. codes \in Statements /\ codes.loses = {} /\ Harmless("schema", codes)
      /\ codes.gains = {"access_codes", "codes unique", "codes.partner required",
                        "codes => partners"}
  <2>1. codes \in Statements /\ codes.loses = {} /\ codes.excludes = {"access_codes"}
        /\ codes.gains = {"access_codes", "codes unique", "codes.partner required",
                        "codes => partners"}
    BY NamedFacts DEF Create, Statement, Statements
  <2> HIDE DEF codes
  <2>2. QED
    BY <2>1, CreatingIsHarmless
<1>9. key \in Statements /\ key.loses = {} /\ Harmless("schema", key)
      /\ key.gains = {"users => codes"}
  <2>1. key \in Statements /\ key.loses = {} /\ key.excludes = {"users => codes"}
        /\ key.gains = {"users => codes"}
    BY NamedFacts DEF Alter, Statement, Statements
  <2> HIDE DEF key
  <2>2. QED
    BY <2>1, CreatingIsHarmless
<1> HIDE DEF roles, partners, settings, events, courses, users, codes, key
<1> DEFINE list == << roles, partners, settings, events, courses, users, codes, key >>
<1>10. DOMAIN list = 1 .. 8
  OBVIOUS
<1>11. /\ list[1] = roles
      /\ list[2] = partners
      /\ list[3] = settings
      /\ list[4] = events
      /\ list[5] = courses
      /\ list[6] = users
      /\ list[7] = codes
      /\ list[8] = key
  OBVIOUS
<1>12. list \in Seq(Statements)
  <2>1. /\ roles \in Statements
        /\ partners \in Statements
        /\ settings \in Statements
        /\ events \in Statements
        /\ courses \in Statements
        /\ users \in Statements
        /\ codes \in Statements
        /\ key \in Statements
    BY <1>2, <1>3, <1>4, <1>5, <1>6, <1>7, <1>8, <1>9
  <2>2. QED
    BY <2>1
<1> HIDE DEF list
<1>13. ASSUME NEW i \in DOMAIN list PROVE Harmless("schema", list[i]) /\ list[i].loses = {}
  <2>1. CASE i = 1
    BY <1>2, <1>11, <2>1
  <2>2. CASE i = 2
    BY <1>3, <1>11, <2>2
  <2>3. CASE i = 3
    BY <1>4, <1>11, <2>3
  <2>4. CASE i = 4
    BY <1>5, <1>11, <2>4
  <2>5. CASE i = 5
    BY <1>6, <1>11, <2>5
  <2>6. CASE i = 6
    BY <1>7, <1>11, <2>6
  <2>7. CASE i = 7
    BY <1>8, <1>11, <2>7
  <2>8. CASE i = 8
    BY <1>9, <1>11, <2>8
  <2>9. QED
    BY <1>10, <2>1, <2>2, <2>3, <2>4, <2>5, <2>6, <2>7, <2>8
<1>14. \A f : Kept(f, list)
  BY <1>13 DEF Kept
<1>15. \A f : \A i \in DOMAIN list : f \in list[i].gains => Gained(f, list)
  BY <1>13 DEF Gained
<1>16. /\ "roles" \in list[1].gains
       /\ "partners" \in list[2].gains
       /\ "system_settings" \in list[3].gains
       /\ "payment_webhook_events" \in list[4].gains
       /\ "courses" \in list[5].gains
       /\ "users" \in list[6].gains
       /\ "access_codes" \in list[7].gains
  BY <1>2, <1>3, <1>4, <1>5, <1>6, <1>7, <1>8, <1>9, <1>11
<1>17. /\ Gained("roles", list)
       /\ Gained("partners", list)
       /\ Gained("system_settings", list)
       /\ Gained("payment_webhook_events", list)
       /\ Gained("courses", list)
       /\ Gained("users", list)
       /\ Gained("access_codes", list)
  BY <1>10, <1>15, <1>16
<1>18. Fits("schema", list)
  BY <1>12, <1>13 DEF Fits
<1>19. QED
  BY <1>1, <1>14, <1>17, <1>18 DEF list

LEMMA LastTablesFit ==
  /\ Fits("schema", LastTables) /\ \A f : Kept(f, LastTables)
  /\ \A f \in {"course_videos", "payment_transactions", "course_enrollments",
             "notifications", "otps"} : Gained(f, LastTables)
<1> DEFINE videos == Create("course_videos", {"courses"}, {"videos.details"})
           payments == Create("payment_transactions", {"users", "partners", "courses"},
                       {"payments => users"})
           enrolments == Create("course_enrollments",
                                {"users", "courses", "payment_transactions"}, {})
           notices == Create("notifications", {"users"}, {})
           otps == Create("otps", {"users"}, {})
<1>1. LastTables = << videos, payments, enrolments, notices, otps >>
  BY DEF LastTables
<1>2. videos \in Statements /\ videos.loses = {} /\ Harmless("schema", videos)
      /\ videos.gains = {"course_videos", "videos.details"}
  <2>1. videos \in Statements /\ videos.loses = {} /\ videos.excludes = {"course_videos"}
        /\ videos.gains = {"course_videos", "videos.details"}
    BY NamedFacts DEF Create, Statement, Statements
  <2> HIDE DEF videos
  <2>2. QED
    BY <2>1, CreatingIsHarmless
<1>3. payments \in Statements /\ payments.loses = {} /\ Harmless("schema", payments)
      /\ payments.gains = {"payment_transactions", "payments => users"}
  <2>1. payments \in Statements /\ payments.loses = {}
        /\ payments.excludes = {"payment_transactions"}
        /\ payments.gains = {"payment_transactions", "payments => users"}
    BY NamedFacts DEF Create, Statement, Statements
  <2> HIDE DEF payments
  <2>2. QED
    BY <2>1, CreatingIsHarmless
<1>4. enrolments \in Statements /\ enrolments.loses = {} /\ Harmless("schema", enrolments)
      /\ enrolments.gains = {"course_enrollments"}
  <2>1. enrolments \in Statements /\ enrolments.loses = {}
        /\ enrolments.excludes = {"course_enrollments"}
        /\ enrolments.gains = {"course_enrollments"}
    BY NamedFacts DEF Create, Statement, Statements
  <2> HIDE DEF enrolments
  <2>2. QED
    BY <2>1, CreatingIsHarmless
<1>5. notices \in Statements /\ notices.loses = {} /\ Harmless("schema", notices)
      /\ notices.gains = {"notifications"}
  <2>1. notices \in Statements /\ notices.loses = {} /\ notices.excludes = {"notifications"}
        /\ notices.gains = {"notifications"}
    BY NamedFacts DEF Create, Statement, Statements
  <2> HIDE DEF notices
  <2>2. QED
    BY <2>1, CreatingIsHarmless
<1>6. otps \in Statements /\ otps.loses = {} /\ Harmless("schema", otps)
      /\ otps.gains = {"otps"}
  <2>1. otps \in Statements /\ otps.loses = {} /\ otps.excludes = {"otps"}
        /\ otps.gains = {"otps"}
    BY NamedFacts DEF Create, Statement, Statements
  <2> HIDE DEF otps
  <2>2. QED
    BY <2>1, CreatingIsHarmless
<1> HIDE DEF videos, payments, enrolments, notices, otps
<1> DEFINE list == << videos, payments, enrolments, notices, otps >>
<1>7. DOMAIN list = 1 .. 5
  OBVIOUS
<1>8. /\ list[1] = videos
      /\ list[2] = payments
      /\ list[3] = enrolments
      /\ list[4] = notices
      /\ list[5] = otps
  OBVIOUS
<1>9. list \in Seq(Statements)
  <2>1. /\ videos \in Statements
        /\ payments \in Statements
        /\ enrolments \in Statements
        /\ notices \in Statements
        /\ otps \in Statements
    BY <1>2, <1>3, <1>4, <1>5, <1>6
  <2>2. QED
    BY <2>1
<1> HIDE DEF list
<1>10. ASSUME NEW i \in DOMAIN list PROVE Harmless("schema", list[i]) /\ list[i].loses = {}
  <2>1. CASE i = 1
    BY <1>2, <1>8, <2>1
  <2>2. CASE i = 2
    BY <1>3, <1>8, <2>2
  <2>3. CASE i = 3
    BY <1>4, <1>8, <2>3
  <2>4. CASE i = 4
    BY <1>5, <1>8, <2>4
  <2>5. CASE i = 5
    BY <1>6, <1>8, <2>5
  <2>6. QED
    BY <1>7, <2>1, <2>2, <2>3, <2>4, <2>5
<1>11. \A f : Kept(f, list)
  BY <1>10 DEF Kept
<1>12. \A f : \A i \in DOMAIN list : f \in list[i].gains => Gained(f, list)
  BY <1>10 DEF Gained
<1>13. /\ "course_videos" \in list[1].gains
       /\ "payment_transactions" \in list[2].gains
       /\ "course_enrollments" \in list[3].gains
       /\ "notifications" \in list[4].gains
       /\ "otps" \in list[5].gains
  BY <1>2, <1>3, <1>4, <1>5, <1>6, <1>8
<1>14. /\ Gained("course_videos", list)
       /\ Gained("payment_transactions", list)
       /\ Gained("course_enrollments", list)
       /\ Gained("notifications", list)
       /\ Gained("otps", list)
  BY <1>7, <1>12, <1>13
<1>15. Fits("schema", list)
  BY <1>9, <1>10 DEF Fits
<1>16. QED
  BY <1>1, <1>11, <1>14, <1>15 DEF list

LEMMA SchemaFits ==
  /\ Fits("schema", UpSchema)
  /\ Intact(schema, recorded, interrupted) /\ "schema" \notin interrupted =>
       Fulfils("schema", schema, UpSchema)
<1>1. UpSchema = When(~Has("users"), FirstTables \o LastTables)
  BY DEF UpSchema
<1>2. FirstTables \in Seq(Statements) /\ LastTables \in Seq(Statements)
  BY FirstTablesFit, LastTablesFit DEF Fits
<1>3. /\ Fits("schema", FirstTables \o LastTables)
      /\ \A f \in BootstrapTables : Gained(f, FirstTables \o LastTables)
  BY <1>2, FirstTablesFit, LastTablesFit, ConcatFits, ConcatGains DEF BootstrapTables
<1>4. Fits("schema", UpSchema)
  BY <1>1, <1>3, EmptyList DEF When
<1>5. Results("schema") = BootstrapTables /\ Ends("schema") = {}
  BY DEF Results, Leaves, Ends
<1>6. ASSUME Intact(schema, recorded, interrupted), "schema" \notin interrupted
      PROVE  Fulfils("schema", schema, UpSchema)
  <2>1. CASE ~Has("users")
    BY <1>1, <1>3, <1>5, <2>1 DEF When, Fulfils, WillHold
  <2>2. CASE Has("users")
    <3>1. UpSchema = <<>>
      BY <1>1, <2>2 DEF When
    <3>2. BootstrapTables \subseteq schema
      BY <1>6, <2>2 DEF Intact, Has
    <3>3. QED
      BY <1>5, <3>1, <3>2, EmptyList DEF Fulfils, WillHold
  <2>3. QED
    BY <2>1, <2>2
<1>7. QED
  BY <1>4, <1>6

\* Whichever migration is next, it fits, and it fulfils what it is for unless it is
\* one that an interruption spoiled.
LEMMA NextFits ==
  ASSUME NEW i \in DOMAIN Order, NextPending(i), Intact(schema, recorded, interrupted),
         "schema" \notin interrupted
  PROVE  Order[i] \notin Spoiled => Fulfils(Order[i], schema, Up(Order[i]))
<1> DEFINE m == Order[i]
<1>1. \A j \in 1 .. i - 1 : Order[j] \in recorded
  BY DEF NextPending
<1>2. i \in 1 .. 13 /\ DOMAIN Order = 1 .. 13
  BY AllMigrations
<1>3. m # "schema" => Found
  <2>1. Order[1] = "schema"
    BY DEF Order
  <2>2. i # 1 => "schema" \in recorded
    BY <1>1, <1>2, <2>1
  <2>3. QED
    BY <2>1, <2>2 DEF Found
<1>4. m = "realCategoryIds" => "categories" \in recorded
  <2>1. Order[10] = "categories"
    BY DEF Order
  <2>2. i \in 1 .. 10 => m # "realCategoryIds"
    BY DEF Order
  <2>3. QED
    BY <1>1, <1>2, <2>1, <2>2
<1>5. m \in All
  BY <1>2 DEF All, Order
<1> HIDE DEF m
<1>6. ASSUME m \notin Spoiled, m \in Fragile PROVE m \notin interrupted
  BY <1>6 DEF Spoiled
<1>7. m \notin Spoiled => Fulfils(m, schema, Up(m))
  <2>1. CASE m = "schema"
    BY <2>1, SchemaFits DEF Up
  <2>2. CASE m \in {"accountStatus", "paymentUser", "realCategoryIds"}
    BY <1>3, <1>4, <1>6, <2>2, AccountStatusFits, PaymentUserFits, RealCategoryIdsFits
       DEF Up, Fragile
  <2>3. CASE m \in {"detachCourses", "videoDetails", "uniqueCode", "codePartner"}
    BY <1>3, <2>3, DetachCoursesFits, VideoDetailsFits, UniqueCodeFits, CodePartnerFits DEF Up
  <2>4. CASE m \in {"newsletter", "exportedAt", "categories", "activatePaid", "resourceType"}
    BY <1>3, <2>4, NewsletterFits, ExportedAtFits, CategoriesFits, ActivatePaidFits,
       ResourceTypeFits DEF Up
  <2>5. QED
    BY <1>5, <2>1, <2>2, <2>3, <2>4, AllMigrations
<1>8. QED
  BY <1>7 DEF m

LEMMA EveryUpFits ==
  ASSUME NEW m \in All
  PROVE  Fits(m, Up(m))
<1>1. CASE m \in {"schema", "accountStatus", "paymentUser", "realCategoryIds"}
  BY <1>1, SchemaFits, AccountStatusFits, PaymentUserFits, RealCategoryIdsFits DEF Up
<1>2. CASE m \in {"detachCourses", "videoDetails", "uniqueCode", "codePartner"}
  BY <1>2, DetachCoursesFits, VideoDetailsFits, UniqueCodeFits, CodePartnerFits DEF Up
<1>3. CASE m \in {"newsletter", "exportedAt", "categories", "activatePaid", "resourceType"}
  BY <1>3, NewsletterFits, ExportedAtFits, CategoriesFits, ActivatePaidFits, ResourceTypeFits DEF Up
<1>4. QED
  BY <1>1, <1>2, <1>3, AllMigrations

-----------------------------------------------------------------------------
(* The runner.                                                             *)

LEMMA HeadAndTail ==
  ASSUME NEW list \in Seq(Statements), list # <<>>
  PROVE  /\ Len(list) \in Nat \ {0} /\ DOMAIN list = 1 .. Len(list)
         /\ Head(list) = list[1] /\ Tail(list) \in Seq(Statements)
         /\ DOMAIN Tail(list) = 1 .. Len(list) - 1
         /\ \A i \in 1 .. Len(list) - 1 : Tail(list)[i] = list[i + 1]
OBVIOUS

\* A statement that succeeds brings what is promised a step nearer.
LEMMA StatementFulfils ==
  ASSUME NEW m, NEW list, Fits(m, list), list # <<>>, NEW facts,
         Head(list).excludes \cap facts = {}
  PROVE  LET s    == Head(list)
             next == (facts \ s.loses) \cup s.gains
         IN  /\ Fits(m, Tail(list)) /\ Harmless(m, s)
             /\ \A f : WillHold(f, facts, list) => WillHold(f, next, Tail(list))
             /\ \A f : WillEnd(f, facts, list) => WillEnd(f, next, Tail(list))
<1> DEFINE s    == list[1]
           rest == Tail(list)
           next == (facts \ s.loses) \cup s.gains
<1>1. list \in Seq(Statements) /\ \A i \in DOMAIN list : Harmless(m, list[i])
  BY DEF Fits
<1>2. /\ Len(list) \in Nat \ {0} /\ DOMAIN list = 1 .. Len(list)
      /\ Head(list) = s /\ rest \in Seq(Statements) /\ DOMAIN rest = 1 .. Len(list) - 1
      /\ \A i \in 1 .. Len(list) - 1 : rest[i] = list[i + 1]
  BY <1>1, HeadAndTail
<1> HIDE DEF rest
<1>3. Fits(m, rest) /\ Harmless(m, s)
  BY <1>1, <1>2 DEF Fits
<1>4. \A i \in DOMAIN rest : i + 1 \in DOMAIN list /\ rest[i] = list[i + 1]
  BY <1>2
<1>5. \A j \in DOMAIN list : j # 1 => j - 1 \in DOMAIN rest /\ rest[j - 1] = list[j]
  BY <1>2
<1>6. ASSUME NEW f, WillHold(f, facts, list)
      PROVE  WillHold(f, next, rest)
  <2>1. CASE f \in facts /\ Kept(f, list)
    <3>1. Kept(f, rest) /\ f \notin s.loses
      BY <1>2, <1>4, <2>1 DEF Kept
    <3>2. QED
      BY <2>1, <3>1 DEF WillHold
  <2>2. CASE Gained(f, list)
    <3>1. PICK i \in DOMAIN list : /\ f \in list[i].gains
                                   /\ \A j \in DOMAIN list : j > i => f \notin list[j].loses
      BY <2>2 DEF Gained
    <3>2. CASE i = 1
      <4>1. f \in next /\ Kept(f, rest)
        BY <1>2, <1>4, <3>1, <3>2 DEF Kept
      <4>2. QED
        BY <4>1 DEF WillHold
    <3>3. CASE i # 1
      <4>1. i - 1 \in DOMAIN rest /\ f \in rest[i - 1].gains
        BY <1>5, <3>1, <3>3
      <4>2. \A j \in DOMAIN rest : j > i - 1 => f \notin rest[j].loses
        BY <1>2, <1>4, <3>1
      <4>3. QED
        BY <4>1, <4>2 DEF WillHold, Gained
    <3>4. QED
      BY <3>2, <3>3
  <2>3. QED
    BY <1>6, <2>1, <2>2 DEF WillHold
<1>7. ASSUME NEW f, WillEnd(f, facts, list)
      PROVE  WillEnd(f, next, rest)
  <2>1. CASE f \notin facts /\ Absent(f, list)
    <3>1. Absent(f, rest) /\ f \notin s.gains
      BY <1>2, <1>4, <2>1 DEF Absent
    <3>2. QED
      BY <2>1, <3>1 DEF WillEnd
  <2>2. CASE Lost(f, list)
    <3>1. PICK i \in DOMAIN list : /\ f \in list[i].loses \cup list[i].excludes
                                   /\ \A j \in DOMAIN list : j >= i => f \notin list[j].gains
      BY <2>2 DEF Lost
    <3>2. CASE i = 1
      <4>1. f \notin s.gains /\ Absent(f, rest)
        BY <1>2, <1>4, <3>1, <3>2 DEF Absent
      <4>2. f \notin next
        BY <1>2, <3>1, <3>2, <4>1
      <4>3. QED
        BY <4>1, <4>2 DEF WillEnd
    <3>3. CASE i # 1
      <4>1. i - 1 \in DOMAIN rest /\ f \in rest[i - 1].loses \cup rest[i - 1].excludes
        BY <1>5, <3>1, <3>3
      <4>2. \A j \in DOMAIN rest : j >= i - 1 => f \notin rest[j].gains
        BY <1>2, <1>4, <3>1
      <4>3. QED
        BY <4>1, <4>2 DEF WillEnd, Lost
    <3>4. QED
      BY <3>2, <3>3
  <2>3. QED
    BY <1>7, <2>1, <2>2 DEF WillEnd
<1>8. QED
  BY <1>2, <1>3, <1>6, <1>7 DEF rest

\* With nothing left to send, what was promised is so.
LEMMA NothingLeft ==
  ASSUME NEW f, NEW facts
  PROVE  /\ WillHold(f, facts, <<>>) => f \in facts
         /\ WillEnd(f, facts, <<>>) => f \notin facts
BY DEF WillHold, WillEnd, Gained, Lost

\* The more is broken, the less is asked.
LEMMA IntactGrows ==
  ASSUME NEW facts, NEW done, NEW broken, NEW more,
         Intact(facts, done, broken), broken \subseteq more
  PROVE  Intact(facts, done, more)
BY DEF Intact

LEMMA IntactWithoutNone ==
  ASSUME NEW facts, NEW done, NEW broken, Intact(facts, done, broken \cup {None})
  PROVE  Intact(facts, done, broken)
<1>1. /\ "schema" # None /\ "accountStatus" # None /\ "paymentUser" # None
      /\ "realCategoryIds" # None
  BY NoneAssumption, AllMigrations
<1>2. (broken \cup {None}) \cap Fragile = broken \cap Fragile
  BY <1>1 DEF Fragile
<1>3. QED
  BY <1>1, <1>2 DEF Intact

\* A statement of the migration m leaves the database as whole as it was.
LEMMA StatementLeavesIntact ==
  ASSUME NEW m \in All \ recorded, m # "schema" => "schema" \in recorded,
         NEW s, Harmless(m, s), s.excludes \cap schema = {},
         Intact(schema, recorded, interrupted \cup {m})
  PROVE  Intact((schema \ s.loses) \cup s.gains, recorded, interrupted \cup {m})
<1> DEFINE next == (schema \ s.loses) \cup s.gains
           broken == interrupted \cup {m}
<1>1. recorded \subseteq All /\ (recorded = {} \/ "schema" \in recorded)
  BY DEF Intact
<1>2. ASSUME NEW k \in recorded \ (broken \cap Fragile)
      PROVE  Leaves(k) \subseteq next /\ Ends(k) \cap next = {}
  <2>1. k \in All \ {m} /\ m # "schema"
    BY <1>1, <1>2
  <2>2. s.loses \cap Leaves(k) = {} /\ s.gains \cap Ends(k) = {}
    BY <2>1 DEF Harmless
  <2>3. Leaves(k) \subseteq schema /\ Ends(k) \cap schema = {}
    BY <1>2 DEF Intact
  <2>4. QED
    BY <2>2, <2>3
<1>3. ASSUME "schema" \notin broken, "users" \in next PROVE BootstrapTables \subseteq next
  <2>1. "users" \in schema
    BY <1>3 DEF Harmless
  <2>2. QED
    BY <1>3, <2>1 DEF Intact, Harmless
<1>4. ASSUME "accountStatus" \notin broken, "users" \notin next \/ "users.accountStatus" \in next
      PROVE  "inactive not disabled" \notin next
  <2>1. s.loses \cap BootstrapTables = {} /\ "users" \in BootstrapTables
    BY DEF Harmless, BootstrapTables
  <2>2. "users" \notin schema \/ "users.accountStatus" \in schema
    BY <1>4, <2>1 DEF Harmless
  <2>3. QED
    BY <1>4, <2>2 DEF Intact, Harmless
<1>5. ASSUME "paymentUser" \notin broken, "payment_transactions" \in next
      PROVE  "payments.user required" \in next \/ "payments => users" \in next
  BY <1>5 DEF Intact, Harmless
<1>6. ASSUME "realCategoryIds" \notin broken
      PROVE  /\ "courses => categories" \in next => "dangling courses" \notin next
             /\ "categories" \in recorded => "courses => categories" \in next
  BY <1>6 DEF Intact, Harmless
<1>7. QED
  BY <1>1, <1>2, <1>3, <1>4, <1>5, <1>6 DEF Intact

\* A migration that has nothing left to send can be recorded.
LEMMA RecordingLeavesIntact ==
  ASSUME NEW m \in All \ recorded, m # "schema" => "schema" \in recorded,
         "schema" \notin interrupted, m \notin Spoiled => Fulfils(m, schema, <<>>),
         Intact(schema, recorded, interrupted \cup {m})
  PROVE  Intact(schema, recorded \cup {m}, interrupted)
<1>1. m \notin Spoiled => Results(m) \subseteq schema /\ Ends(m) \cap schema = {}
  BY NothingLeft DEF Fulfils
<1>2. Leaves(m) \subseteq Results(m)
  BY DEF Results
<1>3. /\ recorded \cup {m} \subseteq All
      /\ recorded \cup {m} = {} \/ "schema" \in recorded \cup {m}
  BY DEF Intact
<1>4. ASSUME NEW k \in (recorded \cup {m}) \ (interrupted \cap Fragile)
      PROVE  Leaves(k) \subseteq schema /\ Ends(k) \cap schema = {}
  <2>1. CASE k = m
    BY <1>1, <1>2, <1>4, <2>1 DEF Spoiled
  <2>2. CASE k # m
    BY <1>4, <2>2 DEF Intact
  <2>3. QED
    BY <2>1, <2>2
<1>5. m = "schema" => BootstrapTables \subseteq schema
  BY <1>1, <1>2 DEF Leaves, Spoiled
<1>6. m = "accountStatus" /\ m \notin interrupted => "inactive not disabled" \notin schema
  BY <1>1 DEF Ends, Spoiled
<1>7. m = "paymentUser" /\ m \notin interrupted => "payments => users" \in schema
  BY <1>1, <1>2 DEF Leaves, Spoiled
<1>8. m = "realCategoryIds" /\ m \notin interrupted =>
        "courses => categories" \in schema /\ "dangling courses" \notin schema
  BY <1>1, <1>2 DEF Leaves, Ends, Spoiled
<1>9. m = "categories" => "courses => categories" \in schema
  BY <1>1 DEF Results, Spoiled, Fragile
<1>10. QED
  BY <1>3, <1>4, <1>5, <1>6, <1>7, <1>8, <1>9 DEF Intact

-----------------------------------------------------------------------------
(* The steps.                                                              *)

USE DEF migrationVars

\* The connection closes, here or at the last commit.
LEMMA RollingBackMigrates ==
  ASSUME Migrated, NEW open \in {None, undo}, RollBack(open)
  PROVE  Migrated'
<1>1. /\ undo' = None /\ running' = None /\ todo' = <<>>
      /\ interrupted' = interrupted \cup ({running} \ {None})
      /\ open = None => schema' = schema /\ recorded' = recorded
      /\ open # None => schema' = open.schema /\ recorded' = open.recorded
  BY DEF RollBack
<1>2. ASSUME "schema" \notin interrupted'
      PROVE  Intact(schema', recorded', interrupted' \cup {running'})
  <2>1. "schema" \notin interrupted
    BY <1>1, <1>2
  <2>2. CASE open = None
    <3>1. Intact(schema, recorded, interrupted \cup {running})
      BY <2>1 DEF Migrated, Whole
    <3>2. interrupted \cup {running} \subseteq interrupted' \cup {running'}
      BY <1>1
    <3>3. QED
      BY <1>1, <2>2, <3>1, <3>2, IntactGrows
  <2>3. CASE open # None
    <3>1. Intact(open.schema, open.recorded, interrupted)
      BY <2>1, <2>3 DEF Migrated, WholeBefore
    <3>2. interrupted \subseteq interrupted' \cup {running'}
      BY <1>1
    <3>3. QED
      BY <1>1, <2>3, <3>1, <3>2, IntactGrows
  <2>4. QED
    BY <2>2, <2>3
<1>3. Whole'
  BY <1>2 DEF Whole
<1>4. WholeBefore' /\ Completes'
  BY <1>1 DEF WholeBefore, Completes
<1>5. QED
  BY <1>1, <1>3, <1>4 DEF Migrated

LEMMA BeginningMigrates ==
  ASSUME Migrated, BeginMigrations
  PROVE  Migrated'
<1>1. running = None /\ running' = None /\ UNCHANGED <<schema, recorded, interrupted, todo>>
  BY DEF BeginMigrations, Migrated
<1>2. undo' = [schema |-> schema, recorded |-> recorded]
  BY DEF BeginMigrations
<1>3. Whole'
  BY <1>1 DEF Migrated, Whole
<1>4. ASSUME "schema" \notin interrupted PROVE Intact(schema, recorded, interrupted)
  BY <1>1, <1>4, IntactWithoutNone DEF Migrated, Whole
<1>5. undo'.schema = schema /\ undo'.recorded = recorded
  BY <1>2
<1>6. WholeBefore'
  BY <1>1, <1>4, <1>5 DEF WholeBefore
<1>7. QED
  BY <1>1, <1>3, <1>6 DEF Migrated, Completes

LEMMA NextMigrationMigrates ==
  ASSUME Migrated, BeginMigration
  PROVE  Migrated'
<1>1. PICK i \in DOMAIN Order : NextPending(i) /\ running' = Order[i] /\ todo' = Up(Order[i])
  BY DEF BeginMigration
<1>2. /\ running = None /\ None # running' /\ phase' = "migrating"
      /\ UNCHANGED <<schema, recorded, undo, interrupted>>
  <2>1. DOMAIN Order = 1 .. Len(Order)
    BY DEF Order
  <2>2. Order[i] \in All
    BY <2>1 DEF All
  <2>3. QED
    BY <1>1, <2>2, NoneAssumption DEF BeginMigration
<1> DEFINE m == Order[i]
<1>3. m \in All /\ m \notin recorded
  <2>1. DOMAIN Order = 1 .. Len(Order)
    BY DEF Order
  <2>2. QED
    BY <1>1, <2>1 DEF All, NextPending
<1>4. m # "schema" => "schema" \in recorded
  <2>1. Order[1] = "schema" /\ i \in 1 .. 13
    BY AllMigrations DEF Order
  <2>2. QED
    BY <1>1, <2>1 DEF NextPending
<1>5. Fits(m, todo')
  BY <1>1, <1>3, EveryUpFits
<1>6. ASSUME "schema" \notin interrupted PROVE Intact(schema, recorded, interrupted)
  BY <1>2, <1>6, IntactWithoutNone DEF Migrated, Whole
<1>7. ASSUME "schema" \notin interrupted, m \notin Spoiled
      PROVE  Fulfils(m, schema, todo')
  BY <1>1, <1>6, <1>7, NextFits
<1> HIDE DEF m
<1>8. running' = m
  BY <1>1 DEF m
<1>9. Whole'
  BY <1>2, <1>6, <1>8, IntactGrows DEF Whole
<1>10. Completes'
  BY <1>2, <1>3, <1>4, <1>5, <1>7, <1>8 DEF Completes, Spoiled
<1>11. WholeBefore'
  BY <1>2 DEF Migrated, WholeBefore
<1>12. QED
  BY <1>2, <1>9, <1>10, <1>11 DEF Migrated

\* Statements run only while a migration does: otherwise there are none.
LEMMA StatementMigrates ==
  ASSUME Migrated, RunStatement
  PROVE  Migrated'
<1>0. running # None /\ phase = "migrating"
  BY DEF RunStatement, Migrated
<1> DEFINE s    == Head(todo)
           open == IF s.ddl THEN None ELSE undo
           next == (schema \ s.loses) \cup s.gains
<1>1. todo # <<>>
  BY DEF RunStatement
<1>2. CASE s.needs \subseteq schema /\ s.excludes \cap schema = {}
  <2>1. /\ schema' = next /\ todo' = Tail(todo) /\ undo' = open
        /\ UNCHANGED <<recorded, running, interrupted, phase>>
    BY <1>2 DEF RunStatement
  <2>2. /\ running \in All \ recorded
        /\ running # "schema" => "schema" \in recorded
        /\ Fits(running, todo)
    BY <1>0 DEF Migrated, Completes
  <2>3. /\ Fits(running, Tail(todo)) /\ Harmless(running, s)
        /\ \A f : WillHold(f, schema, todo) => WillHold(f, next, Tail(todo))
        /\ \A f : WillEnd(f, schema, todo) => WillEnd(f, next, Tail(todo))
    BY <1>1, <1>2, <2>2, StatementFulfils
  <2>4. ASSUME "schema" \notin interrupted
        PROVE  Intact(next, recorded, interrupted \cup {running})
    BY <1>2, <2>2, <2>3, <2>4, StatementLeavesIntact DEF Migrated, Whole
  <2> HIDE DEF next, s
  <2>5. Whole'
    BY <2>1, <2>4 DEF Whole
  <2>6. WholeBefore'
    BY <2>1 DEF Migrated, WholeBefore
  <2>7. ASSUME "schema" \notin interrupted, running \notin Spoiled
        PROVE  Fulfils(running, next, Tail(todo))
    BY <1>0, <2>3, <2>7 DEF Migrated, Completes, Fulfils
  <2>8. Completes'
    BY <2>1, <2>2, <2>3, <2>7 DEF Completes, Spoiled
  <2>9. QED
    BY <1>0, <2>1, <2>5, <2>6, <2>8 DEF Migrated
<1>3. CASE ~(s.needs \subseteq schema /\ s.excludes \cap schema = {})
  <2>1. RollBack(open)
    BY <1>3 DEF RunStatement
  <2>2. open \in {None, undo}
    OBVIOUS
  <2>3. QED
    BY <2>1, <2>2, RollingBackMigrates
<1>4. QED
  BY <1>2, <1>3

LEMMA RecordingMigrates ==
  ASSUME Migrated, RecordMigration
  PROVE  Migrated'
<1>1. /\ running # None /\ todo = <<>>
      /\ recorded' = recorded \cup {running} /\ running' = None
      /\ UNCHANGED <<schema, undo, todo, interrupted, phase>>
  BY DEF RecordMigration
<1>2. ASSUME "schema" \notin interrupted
      PROVE  Intact(schema, recorded \cup {running}, interrupted)
  <2>1. /\ running \in All \ recorded
        /\ running # "schema" => "schema" \in recorded
        /\ running \notin Spoiled => Fulfils(running, schema, <<>>)
        /\ Intact(schema, recorded, interrupted \cup {running})
    BY <1>1, <1>2 DEF Migrated, Completes, Whole
  <2>2. QED
    BY <1>2, <2>1, RecordingLeavesIntact
<1>3. Whole'
  BY <1>1, <1>2, IntactGrows DEF Whole
<1>4. WholeBefore' /\ Completes'
  BY <1>1 DEF Migrated, WholeBefore, Completes
<1>5. QED
  BY <1>1, <1>3, <1>4 DEF Migrated

\* A boot adds rows that no migration is against.
LEMMA SeedingMigrates ==
  ASSUME Migrated, phase = "booting", UNCHANGED <<phase, RunnerVars>>,
         NEW facts \in SUBSET Seeded, schema' = schema \cup facts
  PROVE  Migrated'
<1>1. running = None /\ UNCHANGED <<recorded, running, todo, undo, interrupted>>
  BY DEF Migrated, RunnerVars
<1>2. \A k \in All : facts \cap Ends(k) = {}
  BY OwnersOfEnds DEF Seeded
<1>3. facts \cap {"users", "users.accountStatus", "inactive not disabled", "payment_transactions",
                  "courses => categories", "dangling courses"} = {}
  BY DEF Seeded
<1>4. ASSUME "schema" \notin interrupted
      PROVE  Intact(schema \cup facts, recorded, interrupted \cup {running})
  BY <1>2, <1>3, <1>4 DEF Migrated, Whole, Intact
<1>5. Whole'
  BY <1>1, <1>4 DEF Whole
<1>6. QED
  BY <1>1, <1>5 DEF Migrated, WholeBefore, Completes

\* A step that leaves the database and its runner alone.
LEMMA OthersMigrate ==
  ASSUME Migrated, UNCHANGED migrationVars, phase = "migrating" => phase' = "migrating"
  PROVE  Migrated'
BY DEF Migrated, Whole, WholeBefore, Completes, Spoiled

LEMMA NextMigrates ==
  ASSUME Migrated, [Next]_vars
  PROVE  Migrated'
<1>1. CASE Migrating
  <2>1. CASE BeginMigrations
    BY <2>1, BeginningMigrates
  <2>2. CASE BeginMigration
    BY <2>2, NextMigrationMigrates
  <2>3. CASE RunStatement
    BY <2>3, StatementMigrates
  <2>4. CASE RecordMigration
    BY <2>4, RecordingMigrates
  <2>5. CASE CommitMigrations
    <3>1. running = None /\ undo' = None /\ UNCHANGED <<schema, recorded, todo, interrupted>>
          /\ running' = running
      BY <2>5 DEF CommitMigrations
    <3>2. QED
      BY <3>1 DEF Migrated, Whole, WholeBefore, Completes
  <2>6. QED
    BY <1>1, <2>1, <2>2, <2>3, <2>4, <2>5 DEF Migrating, Migrate
<1>2. ASSUME NEW table, NEW facts, facts \in SUBSET Seeded, SeedFacts(table, facts)
      PROVE  Migrated'
  BY <1>2, SeedingMigrates DEF SeedFacts, Booting
<1>3. CASE SeedSettings \/ SeedSuperadmin \/ SeedCourseCategories
  <2>1. /\ {"fee and flags"} \in SUBSET Seeded /\ {"superadmin"} \in SUBSET Seeded
        /\ {"general category", "other categories"} \in SUBSET Seeded
    BY DEF Seeded
  <2>2. QED
    BY <1>2, <1>3, <2>1 DEF SeedSettings, SeedSuperadmin, SeedCourseCategories
<1>4. CASE BootRoles \/ Listen
  BY <1>4, OthersMigrate DEF BootRoles, Listen, Booting
<1>5. CASE BootFails
  BY <1>5, OthersMigrate DEF BootFails, Booting
<1>6. CASE EditRoles /\ UNCHANGED <<migrationVars, messageVars, mediaVars>>
  <2>1. UNCHANGED containerVars
    BY <1>6 DEF EditRoles, AskEdit, CheckNewRole, ReadRole, SaveRole, CheckRemoval, RemoveRole,
                FailEdit, OnlyEdit
  <2>2. QED
    BY <1>6, <2>1, OthersMigrate
<1>7. CASE DeliverMessages /\ UNCHANGED <<migrationVars, roleVars, mediaVars>>
  <2>1. UNCHANGED containerVars
    BY <1>7 DEF DeliverMessages, AskMessage, SendMail, FailToSend, SendWhatsAppOtp, SendSms,
                LogSent, LogFailed, Conclude, OnlyMessage
  <2>2. QED
    BY <1>7, <2>1, OthersMigrate
<1>8. CASE StoreMedia /\ UNCHANGED <<migrationVars, roleVars, messageVars>>
  <2>1. UNCHANGED containerVars
    BY <1>8 DEF StoreMedia, AskUpload, EnsureBucket, PutObject, PutFails, RetryUpload, HeadBucket,
                CreateBucket, BucketEnsured, EnsureFails, RemoveBucket, OnlyUpload
  <2>2. QED
    BY <1>8, <2>1, OthersMigrate
<1>9. CASE Crash
  BY <1>9, RollingBackMigrates DEF Crash
<1>10. CASE UNCHANGED vars
  BY <1>10, OthersMigrate DEF vars
<1>11. QED
  BY <1>1, <1>3, <1>4, <1>5, <1>6, <1>7, <1>8, <1>9, <1>10 DEF Next, Boot, Serve

LEMMA InitMigrates ==
  ASSUME Init
  PROVE  Migrated
<1>1. PICK s \in Scenarios : schema = s.schema /\ recorded = s.recorded
  BY DEF Init
<1>2. running = None /\ todo = <<>> /\ undo = None /\ interrupted = {}
  BY DEF Init
<1>3. Intact(schema, recorded, {})
  BY <1>1, DatabaseAssumption
<1>4. Whole
  BY <1>2, <1>3, IntactGrows DEF Whole
<1>5. QED
  BY <1>2, <1>4 DEF Migrated, WholeBefore, Completes

\* docker-entrypoint.sh and the migrations: from any database that is whole, however
\* often the container is killed or a statement fails, a migration with a row has done
\* its work - unless it is one of the four that do not survive being interrupted.
THEOREM RecordedMigrationsAreApplied == Spec => []RecordedIsApplied
<1>1. Spec => []Migrated
  BY InitMigrates, NextMigrates, PTL DEF Spec
<1>2. ASSUME Migrated PROVE RecordedIsApplied
  <2>1. ASSUME NEW m \in recorded \ Spoiled, "schema" \notin Spoiled
        PROVE  Leaves(m) \subseteq schema /\ Ends(m) \cap schema = {}
    <3>1. "schema" \notin interrupted
      BY <2>1 DEF Spoiled, Fragile
    <3>2. Intact(schema, recorded, interrupted \cup {running})
      BY <1>2, <3>1 DEF Migrated, Whole
    <3>3. running \notin recorded \/ running = None
      BY <1>2 DEF Migrated, Completes
    <3>4. m # running
      BY <2>1, <3>2, <3>3, NoneAssumption DEF Intact
    <3>5. QED
      BY <2>1, <3>2, <3>4 DEF Intact, Spoiled
  <2>2. QED
    BY <2>1 DEF RecordedIsApplied
<1>3. QED
  BY <1>1, <1>2, PTL

-----------------------------------------------------------------------------
(* Roles: what the permissions made from a list of keys grant.             *)

Names       == Resources \cup {"*"}
Actions     == Everything \cup {"*"}
Scopes      == {"all", "own", "linked"}
Keys        == [resource : Names, action : Actions, scope : Scopes]
Permissions == [resource : Names, actions : SUBSET Actions, scope : Scopes]

PermittedKeys(permissions) ==
  UNION {{Key(p.resource, a, p.scope) : a \in p.actions} : p \in Range(permissions)}

\* The lists of groups that the first keys of a list make, one after the other.
Builds(added, keys, n) ==
  added = [m \in 0 .. n |-> IF m = 0 THEN <<>> ELSE AddKey(added[m - 1], keys[m])]

LEMMA OfferedKeys ==
  ASSUME NEW resource, NEW all, NEW own, NEW linked,
         NEW k \in Offered(resource, all, own, linked)
  PROVE  \E a \in all \cup own \cup linked, s \in Scopes : k = Key(resource, a, s)
BY DEF Offered, Scopes

LEMMA CatalogKeys ==
  \A k \in Catalog : /\ k \in Keys
                     /\ k # Wildcard => k.resource \in Resources /\ k.action \in Everything
<1> SUFFICES ASSUME NEW k \in Catalog
             PROVE  /\ k \in Keys
                    /\ k # Wildcard => k.resource \in Resources /\ k.action \in Everything
  OBVIOUS
<1>1. CASE k = Wildcard
  BY <1>1 DEF Wildcard, Key, Keys, Names, Actions, Scopes
<1>2. CASE k # Wildcard
  <2>1. \E resource \in Resources, a \in Everything, s \in Scopes : k = Key(resource, a, s)
    <3>1. CASE k \in UserKeys
      BY <3>1, OfferedKeys DEF UserKeys, Everything, Resources
    <3>2. CASE k \in RoleKeys
      BY <3>2, OfferedKeys DEF RoleKeys, Everything, Resources
    <3>3. CASE k \in PartnerKeys
      BY <3>3, OfferedKeys DEF PartnerKeys, Everything, Resources
    <3>4. CASE k \in AccessCodeKeys
      BY <3>4, OfferedKeys DEF AccessCodeKeys, Everything, Resources
    <3>5. CASE k \in FinanceKeys
      BY <3>5, OfferedKeys DEF FinanceKeys, Everything, Resources
    <3>6. QED
      BY <1>2, <3>1, <3>2, <3>3, <3>4, <3>5 DEF Catalog
  <2>2. PICK resource \in Resources, a \in Everything, s \in Scopes : k = Key(resource, a, s)
    BY <2>1
  <2>3. k \in Keys /\ k.resource = resource /\ k.action = a
    BY <2>2 DEF Key, Keys, Names, Actions
  <2>4. QED
    BY <2>3
<1>3. QED
  BY <1>1, <1>2

\* A key more: the permissions grant it and what they granted before, no more.
LEMMA KeyIsAdded ==
  ASSUME NEW permissions \in Seq(Permissions), NEW k \in Keys
  PROVE  /\ AddKey(permissions, k) \in Seq(Permissions)
         /\ PermittedKeys(AddKey(permissions, k)) = PermittedKeys(permissions) \cup {k}
<1> DEFINE after == AddKey(permissions, k)
<1>1. k = Key(k.resource, k.action, k.scope)
  BY DEF Key, Keys
<1>2. CASE \E i \in DOMAIN permissions : SameGroup(permissions[i], k)
  <2>1. PICK i \in DOMAIN permissions : SameGroup(permissions[i], k)
    BY <1>2
  <2>2. /\ DOMAIN after = DOMAIN permissions
        /\ \A j \in DOMAIN permissions :
             after[j] = IF SameGroup(permissions[j], k)
                        THEN [permissions[j] EXCEPT !.actions = @ \cup {k.action}]
                        ELSE permissions[j]
    BY <1>2 DEF AddKey
  <2> HIDE DEF after
  <2>3. \A j \in DOMAIN permissions :
          /\ after[j] \in Permissions
          /\ after[j].resource = permissions[j].resource
          /\ after[j].scope = permissions[j].scope
          /\ after[j].actions = IF SameGroup(permissions[j], k)
                                THEN permissions[j].actions \cup {k.action}
                                ELSE permissions[j].actions
    <3> SUFFICES ASSUME NEW j \in DOMAIN permissions
                 PROVE  /\ after[j] \in Permissions
                        /\ after[j].resource = permissions[j].resource
                        /\ after[j].scope = permissions[j].scope
                        /\ after[j].actions = IF SameGroup(permissions[j], k)
                                              THEN permissions[j].actions \cup {k.action}
                                              ELSE permissions[j].actions
      OBVIOUS
    <3>1. permissions[j] \in Permissions
      OBVIOUS
    <3>2. CASE SameGroup(permissions[j], k)
      BY <2>2, <3>1, <3>2 DEF Permissions, Keys
    <3>3. CASE ~SameGroup(permissions[j], k)
      BY <2>2, <3>1, <3>3 DEF Permissions
    <3>4. QED
      BY <3>2, <3>3
  <2>4. after \in Seq(Permissions)
    <3>1. Len(permissions) \in Nat /\ DOMAIN permissions = 1 .. Len(permissions)
      OBVIOUS
    <3>2. after \in [1 .. Len(permissions) -> Permissions]
      <4>1. after = [j \in DOMAIN permissions |-> after[j]]
        BY <1>2 DEF after, AddKey
      <4>2. QED
        BY <2>3, <3>1, <4>1
    <3>3. QED
      BY <3>1, <3>2, SeqDef
  <2>5. ASSUME NEW key \in PermittedKeys(after)
        PROVE  key \in PermittedKeys(permissions) \cup {k}
    <3>1. PICK j \in DOMAIN permissions :
            \E a \in after[j].actions : key = Key(after[j].resource, a, after[j].scope)
      BY <2>2 DEF PermittedKeys, Range
    <3> PICK a \in after[j].actions : key = Key(after[j].resource, a, after[j].scope)
      BY <3>1
    <3>2. CASE a \in permissions[j].actions
      <4>1. key = Key(permissions[j].resource, a, permissions[j].scope)
        BY <2>3
      <4>2. QED
        BY <3>2, <4>1 DEF PermittedKeys, Range
    <3>3. CASE a \notin permissions[j].actions
      BY <1>1, <2>3, <3>1, <3>3 DEF SameGroup
    <3>4. QED
      BY <3>2, <3>3
  <2>6. ASSUME NEW key \in PermittedKeys(permissions)
        PROVE  key \in PermittedKeys(after)
    <3>1. PICK j \in DOMAIN permissions :
            \E a \in permissions[j].actions :
              key = Key(permissions[j].resource, a, permissions[j].scope)
      BY DEF PermittedKeys, Range
    <3> PICK a \in permissions[j].actions :
          key = Key(permissions[j].resource, a, permissions[j].scope)
      BY <3>1
    <3>2. a \in after[j].actions /\ key = Key(after[j].resource, a, after[j].scope)
      BY <2>3, <3>1
    <3>3. QED
      BY <2>2, <3>2 DEF PermittedKeys, Range
  <2>7. k \in PermittedKeys(after)
    <3>1. k = Key(after[i].resource, k.action, after[i].scope) /\ k.action \in after[i].actions
      BY <1>1, <2>1, <2>3 DEF SameGroup
    <3>2. QED
      BY <2>2, <3>1 DEF PermittedKeys, Range
  <2>8. QED
    BY <2>4, <2>5, <2>6, <2>7 DEF after
<1>3. CASE ~\E i \in DOMAIN permissions : SameGroup(permissions[i], k)
  <2> DEFINE new == Permission(k.resource, {k.action}, k.scope)
  <2>1. after = Append(permissions, new)
    BY <1>3 DEF AddKey
  <2>2. /\ new \in Permissions /\ new.resource = k.resource /\ new.scope = k.scope
        /\ new.actions = {k.action}
    BY DEF Permission, Permissions, Keys
  <2> HIDE DEF new, after
  <2>3. after \in Seq(Permissions) /\ Range(after) = Range(permissions) \cup {new}
    BY <2>1, <2>2 DEF Range
  <2>4. PermittedKeys(after) = PermittedKeys(permissions)
                                 \cup {Key(new.resource, a, new.scope) : a \in new.actions}
    BY <2>3 DEF PermittedKeys
  <2>5. QED
    BY <1>1, <2>2, <2>3, <2>4 DEF after
<1>4. QED
  BY <1>2, <1>3

\* A set of numbers that is not empty has a first element.
LEMMA HasFirst ==
  ASSUME NEW T \in SUBSET Nat, T # {}
  PROVE  \E u \in T : \A v \in T : u <= v
<1> DEFINE Below == {ss \in Nat \X Nat : ss[1] < ss[2]}
<1>1. IsWellFoundedOn(Below, Nat)
  BY NatLessThanWellFounded DEF OpToRel
<1>2. PICK u \in T : \A v \in T : ~(<<v, u>> \in Below)
  BY <1>1, WFMin
<1>3. ASSUME NEW v \in T PROVE u <= v
  <2>1. v \in Nat /\ u \in Nat
    OBVIOUS
  <2>2. PICK ss : ss = <<v, u>>
    OBVIOUS
  <2>3. ss \in Nat \X Nat /\ ss[1] = v /\ ss[2] = u
    BY <2>1, <2>2
  <2>4. ss \notin Below
    BY <1>2, <2>2
  <2>5. QED
    BY <2>1, <2>3, <2>4
<1>4. QED
  BY <1>3

\* The recursive function of ResolvePermissionKeys is one: it can be continued.
LEMMA KeysCanBeAdded ==
  ASSUME NEW keys, Len(keys) \in Nat
  PROVE  \E added : Builds(added, keys, Len(keys))
<1> DEFINE Bad == {n \in 0 .. Len(keys) : ~\E added : Builds(added, keys, n)}
<1>1. Bad = {}
  <2> SUFFICES ASSUME Bad # {} PROVE FALSE
    OBVIOUS
  <2>1. Bad \in SUBSET Nat
    OBVIOUS
  <2>2. PICK n \in Bad : \A v \in Bad : n <= v
    BY <2>1, HasFirst
  <2>3. n \in 0 .. Len(keys) /\ ~\E added : Builds(added, keys, n)
    OBVIOUS
  <2>4. CASE n = 0
    <3>1. Builds([m \in 0 .. 0 |-> <<>>], keys, 0)
      BY DEF Builds
    <3>2. QED
      BY <2>3, <2>4, <3>1
  <2>5. CASE n # 0
    <3>1. n - 1 \in 0 .. Len(keys) /\ ~(n <= n - 1)
      BY <2>3, <2>5
    <3>2. n - 1 \notin Bad
      BY <2>2, <3>1
    <3>3. PICK before : Builds(before, keys, n - 1)
      BY <3>1, <3>2
    <3>4. \A m \in 0 .. n - 1 :
            before[m] = IF m = 0 THEN <<>> ELSE AddKey(before[m - 1], keys[m])
      BY <3>3 DEF Builds
    <3> DEFINE after ==
          [m \in 0 .. n |-> IF m = n THEN AddKey(before[n - 1], keys[n]) ELSE before[m]]
    <3>5. /\ \A m \in 0 .. n - 1 : after[m] = before[m]
          /\ after[n] = AddKey(before[n - 1], keys[n])
      BY <2>3, <3>1
    <3>6. ASSUME NEW m \in 0 .. n
          PROVE  after[m] = IF m = 0 THEN <<>> ELSE AddKey(after[m - 1], keys[m])
      <4> HIDE DEF after
      <4>1. CASE m = n
        <5>1. after[m - 1] = before[n - 1]
          BY <2>3, <3>1, <3>5, <4>1
        <5>2. QED
          BY <2>5, <3>5, <4>1, <5>1
      <4>2. CASE m = 0
        <5>1. m \in 0 .. n - 1
          BY <2>3, <2>5, <4>2
        <5>2. QED
          BY <3>4, <3>5, <4>2, <5>1
      <4>3. CASE m # n /\ m # 0
        <5>1. m \in 0 .. n - 1 /\ m - 1 \in 0 .. n - 1
          BY <2>3, <4>3
        <5>2. QED
          BY <3>4, <3>5, <4>3, <5>1
      <4>4. QED
        BY <4>1, <4>2, <4>3
    <3>7. Builds(after, keys, n)
      BY <3>6 DEF Builds
    <3>8. QED
      BY <2>3, <3>7
  <2>6. QED
    BY <2>4, <2>5
<1>2. Len(keys) \notin Bad
  BY <1>1
<1>3. QED
  BY <1>2

\* The first n keys, added one after the other, are what the n-th list grants.
LEMMA AddedKeysAreGranted ==
  ASSUME NEW keys \in Seq(Keys), NEW added, Builds(added, keys, Len(keys))
  PROVE  \A n \in 0 .. Len(keys) :
           /\ added[n] \in Seq(Permissions)
           /\ PermittedKeys(added[n]) = {keys[i] : i \in 1 .. n}
<1> DEFINE Good(n) == /\ added[n] \in Seq(Permissions)
                      /\ PermittedKeys(added[n]) = {keys[i] : i \in 1 .. n}
           Bad == {n \in 0 .. Len(keys) : ~Good(n)}
<1>1. Len(keys) \in Nat /\ \A i \in 1 .. Len(keys) : keys[i] \in Keys
  OBVIOUS
<1>2. \A n \in 0 .. Len(keys) :
        added[n] = IF n = 0 THEN <<>> ELSE AddKey(added[n - 1], keys[n])
  BY DEF Builds
<1>3. Bad = {}
  <2> SUFFICES ASSUME Bad # {} PROVE FALSE
    OBVIOUS
  <2>1. Bad \in SUBSET Nat
    BY <1>1
  <2>2. PICK n \in Bad : \A v \in Bad : n <= v
    BY <2>1, HasFirst
  <2>3. n \in 0 .. Len(keys) /\ ~Good(n)
    OBVIOUS
  <2>4. CASE n = 0
    <3>1. added[0] = <<>>
      BY <1>1, <1>2
    <3>2. <<>> \in Seq(Permissions) /\ PermittedKeys(<<>>) = {}
      BY DEF PermittedKeys, Range
    <3>3. {keys[i] : i \in 1 .. 0} = {}
      OBVIOUS
    <3>4. Good(0)
      BY <3>1, <3>2, <3>3
    <3>5. QED
      BY <2>3, <2>4, <3>4
  <2>5. CASE n # 0
    <3>1. n - 1 \in 0 .. Len(keys) /\ ~(n <= n - 1) /\ n \in 1 .. Len(keys)
      BY <1>1, <2>3, <2>5
    <3>2. Good(n - 1)
      BY <2>2, <3>1
    <3>3. added[n] = AddKey(added[n - 1], keys[n])
      BY <1>2, <2>3, <2>5
    <3>4. /\ added[n] \in Seq(Permissions)
          /\ PermittedKeys(added[n]) = PermittedKeys(added[n - 1]) \cup {keys[n]}
      <4>1. PICK before : before = added[n - 1]
        OBVIOUS
      <4>2. PICK k : k = keys[n]
        OBVIOUS
      <4>3. before \in Seq(Permissions) /\ k \in Keys
        BY <1>1, <3>1, <3>2, <4>1, <4>2
      <4>4. /\ AddKey(before, k) \in Seq(Permissions)
            /\ PermittedKeys(AddKey(before, k)) = PermittedKeys(before) \cup {k}
        BY <4>3, KeyIsAdded
      <4>5. QED
        BY <3>3, <4>1, <4>2, <4>4
    <3>5. {keys[i] : i \in 1 .. n} = {keys[i] : i \in 1 .. n - 1} \cup {keys[n]}
      BY <3>1
    <3>6. Good(n)
      BY <3>2, <3>4, <3>5
    <3>7. QED
      BY <2>3, <3>6
  <2>6. QED
    BY <2>4, <2>5
<1>4. QED
  BY <1>3

LEMMA ResolvedKeysAreGranted ==
  ASSUME NEW keys, keys \in Seq(Range(keys)), ~Refused(keys), Wildcard \notin Range(keys)
  PROVE  /\ ResolvePermissionKeys(keys) \in Seq(Permissions)
         /\ PermittedKeys(ResolvePermissionKeys(keys)) = Range(keys)
<1>1. Range(keys) \subseteq Keys
  BY CatalogKeys DEF Refused
<1>2. keys \in Seq(Keys) /\ Len(keys) \in Nat
  BY <1>1
<1> DEFINE made == CHOOSE added : Builds(added, keys, Len(keys))
<1>3. Builds(made, keys, Len(keys))
  BY <1>2, KeysCanBeAdded
<1>4. ResolvePermissionKeys(keys) = made[Len(keys)]
  BY DEF ResolvePermissionKeys, Builds
<1> HIDE DEF made
<1>5. /\ made[Len(keys)] \in Seq(Permissions)
      /\ PermittedKeys(made[Len(keys)]) = {keys[i] : i \in 1 .. Len(keys)}
  <2>1. PICK added : added = made
    OBVIOUS
  <2>2. \A n \in 0 .. Len(keys) :
          /\ added[n] \in Seq(Permissions)
          /\ PermittedKeys(added[n]) = {keys[i] : i \in 1 .. n}
    BY <1>2, <1>3, <2>1, AddedKeysAreGranted
  <2>3. Len(keys) \in 0 .. Len(keys)
    BY <1>2
  <2>4. QED
    BY <2>1, <2>2, <2>3
<1>6. Range(keys) = {keys[i] : i \in 1 .. Len(keys)}
  BY <1>2 DEF Range
<1>7. QED
  BY <1>4, <1>5, <1>6

-----------------------------------------------------------------------------
(* Roles: a row that grants the keys that were ticked does as ticked.      *)

AllOfIt == << Permission("*", {"*"}, "all") >>

\* The permissions of a row are those of its ticked keys, or all there are.
Grants(row) ==
  /\ row.permissions \in Seq(Permissions)
  /\ PermittedKeys(row.permissions) \subseteq row.ticked
  /\ \/ row.permissions = AllOfIt /\ Wildcard \in row.ticked
     \/ /\ row.ticked = PermittedKeys(row.permissions)
        /\ row.ticked \subseteq Catalog \ {Wildcard}

LEMMA AllOfItIs ==
  /\ AllOfIt \in Seq(Permissions) /\ PermittedKeys(AllOfIt) = {Wildcard}
  /\ DOMAIN AllOfIt = {1} /\ AllOfIt[1].resource = "*" /\ AllOfIt[1].actions = {"*"}
  /\ AllOfIt[1].scope = "all" /\ Range(AllOfIt) = {AllOfIt[1]}
<1>1. PICK p : p = Permission("*", {"*"}, "all")
  OBVIOUS
<1>2. /\ p \in Permissions /\ p.resource = "*" /\ p.actions = {"*"} /\ p.scope = "all"
  BY <1>1 DEF Permission, Permissions, Names, Actions, Scopes
<1>3. AllOfIt = <<p>>
  BY <1>1 DEF AllOfIt
<1>4. AllOfIt \in Seq(Permissions) /\ DOMAIN AllOfIt = {1} /\ AllOfIt[1] = p
  BY <1>2, <1>3
<1>5. Range(AllOfIt) = {p}
  BY <1>4 DEF Range
<1>6. PermittedKeys(AllOfIt) = {Key("*", "*", "all")}
  BY <1>2, <1>5 DEF PermittedKeys
<1>7. QED
  BY <1>2, <1>4, <1>5, <1>6 DEF Wildcard

\* A permission and its keys.
LEMMA KeyOfPermission ==
  ASSUME NEW permissions, NEW i \in DOMAIN permissions, NEW a \in permissions[i].actions
  PROVE  LET k == Key(permissions[i].resource, a, permissions[i].scope)
         IN  /\ k \in PermittedKeys(permissions)
             /\ k.resource = permissions[i].resource /\ k.action = a
             /\ k.scope = permissions[i].scope
BY DEF PermittedKeys, Range, Key

LEMMA PermissionOfKey ==
  ASSUME NEW permissions, NEW k \in PermittedKeys(permissions)
  PROVE  \E i \in DOMAIN permissions :
           /\ k.resource = permissions[i].resource /\ k.action \in permissions[i].actions
           /\ k.scope = permissions[i].scope
BY DEF PermittedKeys, Range, Key

LEMMA PageShowsTicked ==
  ASSUME NEW row, Grants(row)
  PROVE  PermissionsToKeys(row.permissions) =
           (IF Wildcard \in row.ticked THEN {Wildcard} ELSE row.ticked)
<1>1. CASE row.permissions = AllOfIt /\ Wildcard \in row.ticked
  BY <1>1, AllOfItIs DEF PermissionsToKeys
<1>2. CASE /\ row.ticked = PermittedKeys(row.permissions)
           /\ row.ticked \subseteq Catalog \ {Wildcard}
  <2>1. ~\E p \in Range(row.permissions) : p.resource = "*" /\ "*" \in p.actions
    <3> SUFFICES ASSUME NEW i \in DOMAIN row.permissions,
                        row.permissions[i].resource = "*", "*" \in row.permissions[i].actions
                 PROVE  FALSE
      BY DEF Range
    <3>1. \E k \in PermittedKeys(row.permissions) : k.resource = "*"
      BY KeyOfPermission
    <3>2. "*" \in Resources
      BY <1>2, <3>1, CatalogKeys
    <3>3. QED
      BY <3>2 DEF Resources
  <2>2. Wildcard \notin row.ticked
    BY <1>2
  <2>3. PermissionsToKeys(row.permissions) = Catalog \cap PermittedKeys(row.permissions)
    <3>1. PICK permissions : permissions = row.permissions
      OBVIOUS
    <3>2. ~\E p \in Range(permissions) : p.resource = "*" /\ "*" \in p.actions
      BY <2>1, <3>1
    <3>3. PermissionsToKeys(permissions) = Catalog \cap PermittedKeys(permissions)
      BY <3>2, Zenon DEF PermissionsToKeys, PermittedKeys
    <3>4. QED
      BY <3>1, <3>3
  <2>4. QED
    BY <1>2, <2>2, <2>3
<1>3. QED
  BY <1>1, <1>2 DEF Grants

LEMMA ScopeIsTicked ==
  ASSUME NEW row, Grants(row), NEW resource \in Resources, NEW action \in Everything
  PROVE  LET scope == ScopeOf(row.permissions, resource, action)
         IN  IF scope = None THEN TickedFor(row, resource, action) = {}
             ELSE scope \in Scopes \cap TickedFor(row, resource, action)
<1> DEFINE permissions == row.permissions
           matching == {i \in DOMAIN permissions :
                          /\ permissions[i].resource \in {"*", resource}
                          /\ permissions[i].actions \cap {"*", action} # {}}
           first == CHOOSE i \in matching : \A j \in matching : i <= j
           scope == ScopeOf(permissions, resource, action)
<1>1. scope = IF matching = {} THEN None ELSE permissions[first].scope
  BY DEF ScopeOf
<1>2. CASE matching = {}
  <2>1. TickedFor(row, resource, action) = {}
    <3> SUFFICES ASSUME NEW k \in row.ticked, k.resource \in {"*", resource},
                        k.action \in {"*", action}
                 PROVE  FALSE
      BY DEF TickedFor
    <3>1. CASE permissions = AllOfIt /\ Wildcard \in row.ticked
      <4>1. 1 \in matching
        BY <3>1, AllOfItIs
      <4>2. QED
        BY <1>2, <4>1
    <3>2. CASE row.ticked = PermittedKeys(permissions)
      <4>1. PICK i \in DOMAIN permissions :
               k.resource = permissions[i].resource /\ k.action \in permissions[i].actions
        BY <3>2, PermissionOfKey
      <4>2. i \in matching
        BY <4>1
      <4>3. QED
        BY <1>2, <4>2
    <3>3. QED
      BY <3>1, <3>2 DEF Grants
  <2>2. QED
    BY <1>1, <1>2, <2>1
<1>3. CASE matching # {}
  <2>1. matching \in SUBSET Nat
    BY DEF Grants
  <2>2. first \in matching
    <3> HIDE DEF matching
    <3>1. \E u \in matching : \A v \in matching : u <= v
      BY <1>3, <2>1, HasFirst
    <3>2. QED
      BY <3>1
  <2>3. PICK i \in matching : i = first
    BY <2>2
  <2>4. PICK a \in permissions[i].actions : a \in {"*", action}
    OBVIOUS
  <2>5. PICK k : k = Key(permissions[i].resource, a, permissions[i].scope)
    OBVIOUS
  <2>6. /\ k \in row.ticked /\ k.resource \in {"*", resource} /\ k.action \in {"*", action}
        /\ k.scope = permissions[i].scope
    BY <2>4, <2>5, KeyOfPermission DEF Grants
  <2>7. permissions[i].scope \in TickedFor(row, resource, action)
    BY <2>6 DEF TickedFor
  <2>8. permissions[i].scope \in Scopes
    <3>1. permissions \in Seq(Permissions) /\ i \in DOMAIN permissions
      BY DEF Grants
    <3>2. permissions[i] \in Permissions
      BY <3>1
    <3>3. QED
      BY <3>2 DEF Permissions
  <2>9. scope = permissions[i].scope /\ scope # None
    BY <1>1, <1>3, <2>3, <2>8, RolesAssumption DEF Scopes
  <2>10. QED
    BY <2>7, <2>8, <2>9
<1>4. QED
  BY <1>2, <1>3

LEMMA GrantedDoesAsTicked ==
  ASSUME NEW row, Grants(row)
  PROVE  DoesAsTicked(row)
<1>1. \A resource \in Resources, action \in Everything :
        LET scope == ScopeOf(row.permissions, resource, action)
        IN  IF scope = None THEN TickedFor(row, resource, action) = {}
            ELSE scope \in Scopes \cap TickedFor(row, resource, action)
  BY ScopeIsTicked
<1>2. ASSUME NEW person \in People, NEW target \in People,
             MayOpen(person, row.permissions, target, "read")
      PROVE  /\ \E scope \in TickedFor(row, "users", "read") : Reaches(scope, person, target)
             /\ target \in Listed(person, row.permissions)
  <2>1. PICK scope : scope = ScopeOf(row.permissions, "users", "read")
    OBVIOUS
  <2>2. scope # None /\ Reaches(scope, person, target)
    BY <1>2, <2>1 DEF MayOpen
  <2>3. scope \in Scopes /\ scope \in TickedFor(row, "users", "read")
    BY <1>1, <2>1, <2>2 DEF Resources, Everything
  <2>4. SatisfiesContext(person, scope, "users")
    BY <2>2, <2>3 DEF SatisfiesContext, Reaches, Scopes
  <2>5. CanActivate(person, row.permissions, "users", "read")
    BY <2>1, <2>2, <2>4 DEF CanActivate
  <2>6. target \in Listed(person, row.permissions)
    BY <2>1, <2>2, <2>5 DEF Listed
  <2>7. QED
    BY <2>2, <2>3, <2>6
<1>3. QED
  BY <1>1, <1>2, PageShowsTicked DEF DoesAsTicked

\* The keys of a list that is not refused.
LEMMA ResolvedRowGrants ==
  ASSUME NEW keys \in KeyLists, ~Refused(keys), NEW row,
         row.permissions = ResolvePermissionKeys(keys), row.ticked = Range(keys)
  PROVE  Grants(row)
<1>1. keys \in Seq(Range(keys))
  BY RolesAssumption
<1>2. CASE Wildcard \in Range(keys)
  <2>1. row.permissions = AllOfIt
    BY <1>2 DEF ResolvePermissionKeys, AllOfIt
  <2>2. QED
    BY <1>2, <2>1, AllOfItIs DEF Grants
<1>3. CASE Wildcard \notin Range(keys)
  <2>1. /\ row.permissions \in Seq(Permissions)
        /\ PermittedKeys(row.permissions) = Range(keys)
    BY <1>1, <1>3, ResolvedKeysAreGranted
  <2>2. Range(keys) \subseteq Catalog
    BY DEF Refused
  <2>3. QED
    BY <1>3, <2>1, <2>2 DEF Grants
<1>4. QED
  BY <1>2, <1>3

LEMMA PermissionIs ==
  ASSUME NEW resource \in Resources, NEW actions \in SUBSET Everything, NEW scope \in Scopes
  PROVE  LET p == Permission(resource, actions, scope)
         IN  /\ p \in Permissions /\ p.resource = resource
             /\ p.actions = actions /\ p.scope = scope
BY DEF Permission, Permissions, Names, Actions

\* The keys of a permission of a default role are in the catalog.
Listable(p) == /\ p \in Permissions /\ p.resource \in Resources
               /\ \A a \in p.actions : Key(p.resource, a, p.scope) \in Catalog

LEMMA ListableGrants ==
  ASSUME NEW permissions \in Seq(Permissions),
         \A i \in DOMAIN permissions : Listable(permissions[i]), NEW id
  PROVE  Grants(Row(id, permissions, PermissionsToKeys(permissions)))
<1>1. ~\E p \in Range(permissions) : p.resource = "*" /\ "*" \in p.actions
  BY DEF Range, Listable, Resources
<1>2. PermissionsToKeys(permissions) = Catalog \cap PermittedKeys(permissions)
  BY <1>1, Zenon DEF PermissionsToKeys, PermittedKeys
<1>3. PermittedKeys(permissions) \subseteq Catalog \ {Wildcard}
  <2> SUFFICES ASSUME NEW i \in DOMAIN permissions, NEW a \in permissions[i].actions
               PROVE  Key(permissions[i].resource, a, permissions[i].scope)
                        \in Catalog \ {Wildcard}
    BY DEF PermittedKeys, Range
  <2>1. Key(permissions[i].resource, a, permissions[i].scope) # Wildcard
    BY DEF Listable, Resources, Key, Wildcard
  <2>2. QED
    BY <2>1 DEF Listable
<1>4. PICK row : row = Row(id, permissions, PermissionsToKeys(permissions))
  OBVIOUS
<1>5. row.permissions = permissions /\ row.ticked = PermittedKeys(permissions)
  BY <1>2, <1>3, <1>4 DEF Row
<1>6. QED
  BY <1>3, <1>4, <1>5 DEF Grants

LEMMA DefaultGrants ==
  ASSUME NEW name \in SystemRoles
  PROVE  Grants(DefaultRow(name))
<1>1. CASE name \in {"superadmin", "admin"}
  <2>1. DefaultPermissions[name] = AllOfIt
    BY <1>1 DEF DefaultPermissions, AllOfIt
  <2>2. PermissionsToKeys(AllOfIt) = {Wildcard}
    BY AllOfItIs DEF PermissionsToKeys
  <2>3. PICK row : row = DefaultRow(name)
    OBVIOUS
  <2>4. row.permissions = AllOfIt /\ row.ticked = {Wildcard}
    BY <2>1, <2>2, <2>3 DEF DefaultRow, Row
  <2>5. QED
    BY <2>3, <2>4, AllOfItIs DEF Grants
<1>2. ASSUME DefaultPermissions[name] \in Seq(Permissions),
             \A i \in DOMAIN DefaultPermissions[name] : Listable(DefaultPermissions[name][i])
      PROVE  Grants(DefaultRow(name))
  BY <1>2, ListableGrants DEF DefaultRow
<1>3. CASE name = "manager"
  <2>1. PICK p1 : p1 = Permission("users", {"create", "read", "update"}, "all")
    OBVIOUS
  <2>2. PICK p2 : p2 = Permission("roles", {"create", "read", "update"}, "all")
    OBVIOUS
  <2>3. PICK p3 : p3 = Permission("partners", {"read"}, "all")
    OBVIOUS
  <2>4. DefaultPermissions[name] = <<p1, p2, p3>>
    BY <1>3, <2>1, <2>2, <2>3 DEF DefaultPermissions
  <2>5. Listable(p1) /\ Listable(p2) /\ Listable(p3)
    BY <2>1, <2>2, <2>3, PermissionIs
       DEF Listable, Resources, Everything, Scopes, Catalog, UserKeys, RoleKeys,
           PartnerKeys, Offered
  <2>6. QED
    BY <1>2, <2>4, <2>5 DEF Listable
<1>4. CASE name = "partner"
  <2>1. PICK p1 : p1 = Permission("users", {"read"}, "linked")
    OBVIOUS
  <2>2. PICK p2 : p2 = Permission("partners", {"read", "update"}, "own")
    OBVIOUS
  <2>3. PICK p3 : p3 = Permission("access_codes", {"read"}, "linked")
    OBVIOUS
  <2>4. PICK p4 : p4 = Permission("finance", {"read"}, "linked")
    OBVIOUS
  <2>5. DefaultPermissions[name] = <<p1, p2, p3, p4>>
    BY <1>4, <2>1, <2>2, <2>3, <2>4 DEF DefaultPermissions
  <2>6. Listable(p1) /\ Listable(p2) /\ Listable(p3) /\ Listable(p4)
    BY <2>1, <2>2, <2>3, <2>4, PermissionIs
       DEF Listable, Resources, Everything, Scopes, Catalog, UserKeys, PartnerKeys,
           AccessCodeKeys, FinanceKeys, Offered
  <2>7. QED
    BY <1>2, <2>5, <2>6 DEF Listable
<1>5. CASE name = "student"
  <2>1. PICK p1 : p1 = Permission("users", {"read", "update"}, "own")
    OBVIOUS
  <2>2. DefaultPermissions[name] = <<p1>>
    BY <1>5, <2>1 DEF DefaultPermissions
  <2>3. Listable(p1)
    BY <2>1, PermissionIs DEF Listable, Resources, Everything, Scopes, Catalog, UserKeys, Offered
  <2>4. QED
    BY <1>2, <2>2, <2>3 DEF Listable
<1>6. QED
  BY <1>1, <1>3, <1>4, <1>5 DEF SystemRoles, DefaultPermissions

-----------------------------------------------------------------------------
(* Roles: what the edits and the boots between them keep.                  *)

Rows        == [id : Nat, permissions : Seq(Permissions), ticked : SUBSET Keys]
GrantedRows == {row \in Rows : Grants(row)}
Edits       ==
  [op : {"none", "create", "update", "remove"}, step : {"none", "read", "save", "delete"},
   name : RoleNames \cup {None}, id : Nat, keys : KeyLists \cup {None},
   row : GrantedRows \cup {None}]

Prepared(e) ==
  /\ e.step # "none" => e.name \in RoleNames
  /\ e.op = "create" => e.keys \in KeyLists
  /\ e.step = "save" => e.row \in GrantedRows

\* The rows in the table, and those an edit is about to save, grant what was ticked.
RolesGrant ==
  /\ role \in [RoleNames -> GrantedRows \cup {None}]
  /\ edit \in [Editors -> Edits] /\ edits \in Nat
  /\ \A e \in Editors : Prepared(edit[e])

USE DEF roleVars

LEMMA NoEditIs == NoEdit \in Edits /\ Prepared(NoEdit)
BY DEF NoEdit, Edits, Prepared

LEMMA ResolvedRow ==
  ASSUME NEW keys \in KeyLists, ~Refused(keys), NEW id \in Nat
  PROVE  Row(id, ResolvePermissionKeys(keys), Range(keys)) \in GrantedRows
<1>1. PICK row : row = Row(id, ResolvePermissionKeys(keys), Range(keys))
  OBVIOUS
<1>2. row.permissions = ResolvePermissionKeys(keys) /\ row.ticked = Range(keys)
  BY <1>1 DEF Row
<1>3. Grants(row)
  BY <1>2, ResolvedRowGrants
<1>4. row.permissions \in Seq(Permissions) /\ Range(keys) \subseteq Keys
  BY <1>3, CatalogKeys DEF Grants, Refused
<1>5. row \in Rows
  BY <1>1, <1>2, <1>4 DEF Row, Rows
<1>6. QED
  BY <1>1, <1>3, <1>5 DEF GrantedRows

LEMMA DefaultRowIs ==
  ASSUME NEW name \in SystemRoles
  PROVE  DefaultRow(name) \in GrantedRows
<1>1. PICK row : row = DefaultRow(name)
  OBVIOUS
<1>2. row = [id |-> 0, permissions |-> row.permissions, ticked |-> row.ticked]
  BY <1>1 DEF DefaultRow, Row
<1>3. Grants(row)
  BY <1>1, DefaultGrants
<1>4. row.permissions \in Seq(Permissions)
  BY <1>3 DEF Grants
<1>5. row.ticked \subseteq Keys
  <2>1. row.ticked = PermissionsToKeys(DefaultPermissions[name])
    BY <1>1 DEF DefaultRow, Row
  <2>2. row.ticked \subseteq Catalog
    BY <2>1 DEF PermissionsToKeys, Catalog
  <2>3. QED
    BY <2>2, CatalogKeys
<1>6. row \in Rows
  BY <1>2, <1>4, <1>5 DEF Rows
<1>7. QED
  BY <1>1, <1>3, <1>6 DEF GrantedRows

\* An edit that goes on, or ends, and leaves the table alone.
LEMMA EditGoesOn ==
  ASSUME RolesGrant, NEW e \in Editors, NEW next \in Edits, Prepared(next), Become(e, next),
         edits' \in Nat, role' \in [RoleNames -> GrantedRows \cup {None}]
  PROVE  RolesGrant'
<1>1. /\ edit' \in [Editors -> Edits]
      /\ \A f \in Editors : edit'[f] = IF f = e THEN next ELSE edit[f]
  BY DEF RolesGrant, Become
<1>2. \A f \in Editors : Prepared(edit'[f])
  BY <1>1 DEF RolesGrant
<1>3. QED
  BY <1>1, <1>2 DEF RolesGrant, Prepared

LEMMA FinishedEditGoesOn ==
  ASSUME RolesGrant, NEW e \in Editors, Finish(e), edits' \in Nat,
         role' \in [RoleNames -> GrantedRows \cup {None}]
  PROVE  RolesGrant'
BY NoEditIs, EditGoesOn DEF Finish

LEMMA AskGoesOn ==
  ASSUME RolesGrant, NEW e \in Editors, AskEdit(e)
  PROVE  RolesGrant'
<1>1. edits' \in Nat /\ role' \in [RoleNames -> GrantedRows \cup {None}]
  <2>1. edits' = edits + 1 /\ role' = role
    BY DEF AskEdit
  <2>2. QED
    BY <2>1 DEF RolesGrant
<1>2. PICK name \in EditedRoles :
        \/ \E keys \in KeyLists :
             Become(e, [NoEdit EXCEPT !.op = "create", !.step = "read", !.name = name,
                                      !.id = edits + 1, !.keys = keys])
        \/ /\ role[name] # None
           /\ \/ \E keys \in KeyLists \cup {None} :
                   Become(e, [NoEdit EXCEPT !.op = "update", !.step = "read", !.name = name,
                                            !.id = role[name].id, !.keys = keys])
              \/ Become(e, [NoEdit EXCEPT !.op = "remove", !.step = "read", !.name = name,
                                          !.id = role[name].id])
  BY DEF AskEdit
<1>3. name \in RoleNames /\ edits + 1 \in Nat
  BY RolesAssumption DEF RolesGrant
<1>4. role[name] # None => role[name].id \in Nat
  BY <1>3 DEF RolesGrant, GrantedRows, Rows
<1>5. \E next : Become(e, next) /\ next \in Edits /\ Prepared(next)
  <2>1. ASSUME NEW keys \in KeyLists,
               Become(e, [NoEdit EXCEPT !.op = "create", !.step = "read", !.name = name,
                                        !.id = edits + 1, !.keys = keys])
        PROVE  \E next : Become(e, next) /\ next \in Edits /\ Prepared(next)
    <3>1. PICK next : next = [NoEdit EXCEPT !.op = "create", !.step = "read", !.name = name,
                                            !.id = edits + 1, !.keys = keys]
      OBVIOUS
    <3>2. next \in Edits /\ Prepared(next)
      BY <1>3, <3>1 DEF NoEdit, Edits, Prepared
    <3>3. QED
      BY <2>1, <3>1, <3>2
  <2>2. ASSUME role[name] # None, NEW keys \in KeyLists \cup {None},
               Become(e, [NoEdit EXCEPT !.op = "update", !.step = "read", !.name = name,
                                        !.id = role[name].id, !.keys = keys])
        PROVE  \E next : Become(e, next) /\ next \in Edits /\ Prepared(next)
    <3>1. PICK next : next = [NoEdit EXCEPT !.op = "update", !.step = "read", !.name = name,
                                            !.id = role[name].id, !.keys = keys]
      OBVIOUS
    <3>2. next \in Edits /\ Prepared(next)
      BY <1>3, <1>4, <2>2, <3>1 DEF NoEdit, Edits, Prepared
    <3>3. QED
      BY <2>2, <3>1, <3>2
  <2>3. ASSUME role[name] # None,
               Become(e, [NoEdit EXCEPT !.op = "remove", !.step = "read", !.name = name,
                                        !.id = role[name].id])
        PROVE  \E next : Become(e, next) /\ next \in Edits /\ Prepared(next)
    <3>1. PICK next : next = [NoEdit EXCEPT !.op = "remove", !.step = "read", !.name = name,
                                            !.id = role[name].id]
      OBVIOUS
    <3>2. next \in Edits /\ Prepared(next)
      BY <1>3, <1>4, <2>3, <3>1 DEF NoEdit, Edits, Prepared
    <3>3. QED
      BY <2>3, <3>1, <3>2
  <2>4. QED
    BY <1>2, <2>1, <2>2, <2>3
<1>6. QED
  BY <1>1, <1>5, EditGoesOn

\* An edit whose row was made is ready to save it.
LEMMA ReadyToSave ==
  ASSUME NEW before \in Edits, Prepared(before), before.step # "none", NEW row \in GrantedRows
  PROVE  LET next == [before EXCEPT !.step = "save", !.row = row]
         IN  next \in Edits /\ Prepared(next)
<1>1. PICK next : next = [before EXCEPT !.step = "save", !.row = row]
  OBVIOUS
<1>2. /\ next \in Edits /\ next.op = before.op /\ next.step = "save"
      /\ next.name = before.name /\ next.keys = before.keys /\ next.row = row
  BY <1>1 DEF Edits
<1>3. Prepared(next)
  BY <1>2 DEF Prepared
<1>4. QED
  BY <1>1, <1>2, <1>3

LEMMA NewRoleGoesOn ==
  ASSUME RolesGrant, NEW e \in Editors, CheckNewRole(e)
  PROVE  RolesGrant'
<1>1. edits' \in Nat /\ role' \in [RoleNames -> GrantedRows \cup {None}]
  BY DEF CheckNewRole, OnlyEdit, RolesGrant
<1>2. CASE Finish(e)
  BY <1>1, <1>2, FinishedEditGoesOn
<1>3. CASE ~Finish(e)
  <2>1. PICK keys : keys = edit[e].keys
    OBVIOUS
  <2>2. /\ edit[e] \in Edits /\ Prepared(edit[e]) /\ edit[e].step # "none"
        /\ keys \in KeyLists /\ edit[e].id \in Nat
    BY <2>1 DEF CheckNewRole, At, RolesGrant, Prepared, Edits
  <2>3. PICK row : row = Row(edit[e].id, ResolvePermissionKeys(keys), Range(keys))
    OBVIOUS
  <2>4. ~Refused(keys) /\ Become(e, [edit[e] EXCEPT !.step = "save", !.row = row])
    BY <1>3, <2>1, <2>3 DEF CheckNewRole
  <2>5. row \in GrantedRows
    BY <2>2, <2>3, <2>4, ResolvedRow
  <2>6. QED
    BY <1>1, <2>2, <2>4, <2>5, ReadyToSave, EditGoesOn
<1>4. QED
  BY <1>2, <1>3

LEMMA ReadRoleGoesOn ==
  ASSUME RolesGrant, NEW e \in Editors, ReadRole(e)
  PROVE  RolesGrant'
<1>1. edits' \in Nat /\ role' \in [RoleNames -> GrantedRows \cup {None}]
  BY DEF ReadRole, OnlyEdit, RolesGrant
<1>2. CASE Finish(e)
  BY <1>1, <1>2, FinishedEditGoesOn
<1>3. CASE ~Finish(e)
  <2>1. PICK keys : keys = edit[e].keys
    OBVIOUS
  <2>2. PICK row : row = role[edit[e].name]
    OBVIOUS
  <2>3. /\ edit[e] \in Edits /\ Prepared(edit[e]) /\ edit[e].step # "none"
        /\ keys \in KeyLists \cup {None} /\ edit[e].name \in RoleNames
    BY <2>1 DEF ReadRole, At, RolesGrant, Prepared, Edits
  <2>4. row \in GrantedRows
    <3>1. row # None
      BY <1>3, <2>2 DEF ReadRole, Current
    <3>2. QED
      BY <2>2, <2>3, <3>1 DEF RolesGrant
  <2>5. CASE keys = None
    <3>1. Become(e, [edit[e] EXCEPT !.step = "save", !.row = row])
      BY <1>3, <2>1, <2>2, <2>5 DEF ReadRole
    <3>2. QED
      BY <1>1, <2>3, <2>4, <3>1, ReadyToSave, EditGoesOn
  <2>6. CASE keys # None
    <3>1. PICK made : made = [row EXCEPT !.permissions = ResolvePermissionKeys(keys),
                                         !.ticked = Range(keys)]
      OBVIOUS
    <3>2. ~Refused(keys) /\ Become(e, [edit[e] EXCEPT !.step = "save", !.row = made])
      BY <1>3, <2>1, <2>2, <2>6, <3>1 DEF ReadRole
    <3>3. made = Row(row.id, ResolvePermissionKeys(keys), Range(keys)) /\ row.id \in Nat
      BY <2>4, <3>1 DEF GrantedRows, Rows, Row
    <3>4. made \in GrantedRows
      BY <2>3, <2>6, <3>2, <3>3, ResolvedRow
    <3>5. QED
      BY <1>1, <2>3, <3>2, <3>4, ReadyToSave, EditGoesOn
  <2>7. QED
    BY <2>5, <2>6
<1>4. QED
  BY <1>2, <1>3

LEMMA SaveGoesOn ==
  ASSUME RolesGrant, NEW e \in Editors, SaveRole(e)
  PROVE  RolesGrant'
<1>1. /\ edits' \in Nat /\ Finish(e)
      /\ role' = IF role[edit[e].name] = None \/ Current(e)
                 THEN [role EXCEPT ![edit[e].name] = edit[e].row] ELSE role
  BY DEF SaveRole, RolesGrant
<1>2. edit[e].row \in GrantedRows /\ edit[e].name \in RoleNames
  BY DEF SaveRole, At, RolesGrant, Prepared
<1>3. role' \in [RoleNames -> GrantedRows \cup {None}]
  BY <1>1, <1>2 DEF RolesGrant
<1>4. QED
  BY <1>1, <1>3, FinishedEditGoesOn

LEMMA RemovalGoesOn ==
  ASSUME RolesGrant, NEW e \in Editors, CheckRemoval(e) \/ RemoveRole(e)
  PROVE  RolesGrant'
<1>1. edits' \in Nat /\ role' \in [RoleNames -> GrantedRows \cup {None}]
  BY DEF CheckRemoval, RemoveRole, OnlyEdit, RolesGrant
<1>2. CASE Finish(e)
  BY <1>1, <1>2, FinishedEditGoesOn
<1>3. CASE ~Finish(e)
  <2>1. PICK next : next = [edit[e] EXCEPT !.step = "delete"]
    OBVIOUS
  <2>2. Become(e, next) /\ edit[e].step = "read"
    BY <1>3, <2>1 DEF CheckRemoval, RemoveRole, At
  <2>3. edit[e] \in Edits /\ Prepared(edit[e])
    BY DEF RolesGrant
  <2>4. next \in Edits /\ Prepared(next)
    BY <2>1, <2>2, <2>3 DEF Edits, Prepared
  <2>5. QED
    BY <1>1, <2>2, <2>4, EditGoesOn
<1>4. QED
  BY <1>2, <1>3

LEMMA SyncGoesOn ==
  ASSUME RolesGrant, SyncRoles, UNCHANGED <<edit, edits>>
  PROVE  RolesGrant'
<1>1. "user" \in RoleNames /\ "student" \in RoleNames /\ SystemRoles \subseteq RoleNames
  BY DEF RoleNames, SystemRoles, DefaultPermissions
<1>2. CASE role' = [role EXCEPT !["user"] = None, !["student"] = role["user"]]
  BY <1>1, <1>2 DEF RolesGrant, Prepared
<1>3. CASE \E name \in MissingRoles : role' = [role EXCEPT ![name] = DefaultRow(name)]
  <2>1. PICK name \in MissingRoles : role' = [role EXCEPT ![name] = DefaultRow(name)]
    BY <1>3
  <2>2. name \in SystemRoles
    BY DEF MissingRoles
  <2>3. PICK row : row = DefaultRow(name)
    OBVIOUS
  <2>4. row \in GrantedRows
    BY <2>2, <2>3, DefaultRowIs
  <2>5. role' \in [RoleNames -> GrantedRows \cup {None}]
    BY <1>1, <2>1, <2>2, <2>3, <2>4 DEF RolesGrant
  <2>6. QED
    BY <2>5 DEF RolesGrant, Prepared
<1>4. QED
  BY <1>2, <1>3 DEF SyncRoles

LEMMA NextGrants ==
  ASSUME RolesGrant, [Next]_vars
  PROVE  RolesGrant'
<1>1. ASSUME EditRoles PROVE RolesGrant'
  <2>1. PICK e \in Editors :
          \/ AskEdit(e) \/ CheckNewRole(e) \/ ReadRole(e) \/ SaveRole(e)
          \/ CheckRemoval(e) \/ RemoveRole(e) \/ FailEdit(e)
    BY <1>1 DEF EditRoles
  <2>2. CASE FailEdit(e)
    BY <2>2, FinishedEditGoesOn DEF FailEdit, OnlyEdit, RolesGrant
  <2>3. QED
    BY <2>1, <2>2, AskGoesOn, NewRoleGoesOn, ReadRoleGoesOn, SaveGoesOn, RemovalGoesOn
<1>2. ASSUME BootRoles PROVE RolesGrant'
  BY <1>2, SyncGoesOn DEF BootRoles
<1>3. ASSUME Crash PROVE RolesGrant'
  <2>1. role' = role /\ edits' = edits /\ edit' = [e \in Editors |-> NoEdit]
    BY <1>3 DEF Crash
  <2>2. edit' \in [Editors -> Edits] /\ \A e \in Editors : Prepared(edit'[e])
    BY <2>1, NoEditIs
  <2>3. QED
    BY <2>1, <2>2 DEF RolesGrant, Prepared
<1>4. ASSUME UNCHANGED roleVars PROVE RolesGrant'
  BY <1>4 DEF RolesGrant, Prepared
<1>5. \/ UNCHANGED roleVars \/ EditRoles \/ BootRoles \/ Crash
  BY DEF Next, vars, Migrating, ServiceVars, Boot, SeedSettings, SeedSuperadmin,
         SeedCourseCategories, SeedFacts, BootFails, Listen, Serve
<1>6. QED
  BY <1>1, <1>2, <1>3, <1>4, <1>5

LEMMA InitGrants == Init => RolesGrant
<1> SUFFICES ASSUME Init PROVE RolesGrant
  OBVIOUS
<1>1. \A name \in SystemRoles : DefaultRow(name) \in GrantedRows
  BY DefaultRowIs
<1>2. role \in [RoleNames -> GrantedRows \cup {None}]
  BY <1>1 DEF Init
<1>3. edits = 0 /\ edit = [e \in Editors |-> NoEdit]
  BY DEF Init
<1>4. edit \in [Editors -> Edits] /\ \A e \in Editors : Prepared(edit[e])
  BY <1>3, NoEditIs
<1>5. QED
  BY <1>2, <1>3, <1>4 DEF RolesGrant

\* For every list of keys, number of edits and boot in between, a role does what was
\* ticked for it: the edits in flight hold whole rows, and each of them grants its keys.
THEOREM RolesDoAsTicked == Spec => []ScopeWasTicked
<1>1. RolesGrant => ScopeWasTicked
  <2> SUFFICES ASSUME RolesGrant, NEW name \in RoleNames, role[name] # None
               PROVE  DoesAsTicked(role[name])
    BY DEF ScopeWasTicked
  <2>1. Grants(role[name])
    BY DEF RolesGrant, GrantedRows
  <2>2. QED
    BY <2>1, GrantedDoesAsTicked
<1>2. QED
  BY <1>1, InitGrants, NextGrants, PTL DEF Spec
=============================================================================
