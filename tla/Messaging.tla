----------------------------- MODULE Messaging ------------------------------
(***************************************************************************)
(* What becomes of a message: the mail server, WhatsApp or SMS takes it or *)
(* not, a notification row says SENT or FAILED, and the caller is told.    *)
(*                                                                         *)
(* A channel whose credentials are missing skips the message and says so   *)
(* in the log alone.  A provider may take a message and its answer be lost.*)
(***************************************************************************)
EXTENDS Container

VARIABLES
  env,       \* the environment the process was started with, or None
  message,   \* the message being sent
  outcome    \* what became of the last one

messageVars == <<env, message, outcome>>

\* The environments validateEnvironment accepts: SMS is only enabled with a
\* sender, and every other credential may be empty.
Environments ==
  [provider: {"twilio", "meta"}, \* WHATSAPP_DEFAULT_PROVIDER
   account:  BOOLEAN,            \* TWILIO_ACCOUNT_SID and TWILIO_AUTH_TOKEN are set
   from:     BOOLEAN,            \* TWILIO_WHATSAPP_FROM is
   meta:     BOOLEAN,            \* META_WHATSAPP_ACCESS_TOKEN and PHONE_NUMBER_ID are
   sms:      BOOLEAN,            \* SMS_ENABLED, with a TWILIO_SMS_FROM
   smtp:     BOOLEAN]            \* SMTP_HOST, SMTP_USER and SMTP_PASS are

TwilioWhatsAppConfigured == env.account /\ env.from
MetaConfigured           == env.meta
SmsConfigured            == env.account


NoMessage == [step |-> "none", kind |-> None, channel |-> None, accepted |-> {},
              whatsapp |-> FALSE]
NoOutcome == [kind |-> None, channel |-> None, accepted |-> {}, status |-> None,
              told |-> None]

OnlyMessage == UNCHANGED <<env, outcome, containerVars>>
Sending(step) == message.step = step

\* dispatchOtp, sendWelcomeEmail and sendOnboardingReceipt begin.
AskMessage ==
  /\ Serves("messages")
  /\ message = NoMessage
  /\ \E kind \in {"otp", "welcome", "receipt"}, channel \in {"email", "phone"} :
       /\ channel = "phone" => kind = "otp"
       /\ message' = [NoMessage EXCEPT !.kind = kind, !.channel = channel,
                        !.step = IF channel = "email" THEN "mail" ELSE "whatsapp"]
  /\ outcome' = NoOutcome
  /\ UNCHANGED <<env, containerVars>>

\* The provider is called: it takes the message and says so, or the call fails,
\* whether it took the message or not.
Call(provider, delivered) ==
  \/ message' = [delivered EXCEPT !.accepted = @ \cup {provider}]
  \/ \E accepted \in {message.accepted, message.accepted \cup {provider}} :
       message' = [message EXCEPT !.step = "failed", !.accepted = accepted]

\* sendMail: without a transporter the mail is skipped.
SendMail ==
  /\ Sending("mail")
  /\ LET next == [message EXCEPT !.step = "log"]
     IN  IF env.smtp THEN Call("smtp", next) ELSE message' = next
  /\ OnlyMessage

\* The template cannot be rendered, or the account has no phone.
FailToSend ==
  /\ Sending("mail") \/ Sending("whatsapp")
  /\ message' = [message EXCEPT !.step = "failed"]
  /\ OnlyMessage

\* sendWhatsAppOtp: false if unconfigured, an error that ends it if it fails.
SendWhatsAppOtp ==
  /\ Sending("whatsapp")
  /\ LET next == [message EXCEPT !.step = "sms"]
     IN  IF IF env.provider = "twilio" THEN TwilioWhatsAppConfigured ELSE MetaConfigured
         THEN Call("whatsapp", [next EXCEPT !.whatsapp = TRUE])
         ELSE message' = next
  /\ OnlyMessage

\* Mutant: smsSent is set whether SMS is enabled or not.
AlwaysReady(next) == next

\* Neither WhatsApp nor SMS was tried: an error.
Deliverable(next) ==
  IF next.whatsapp \/ env.sms THEN next ELSE [next EXCEPT !.step = "failed"]

\* sendTextMessage skips an SMS it has no account for; smsSent is set anyway.
SendSms ==
  /\ Sending("sms")
  /\ LET next == [message EXCEPT !.step = "log"]
     IN  IF env.sms /\ SmsConfigured THEN Call("sms", next)
         ELSE message' = Deliverable(next)
  /\ OnlyMessage

\* An OTP is refused unless its row says SENT; the other mails tell nobody.
Answer(status) ==
  IF message.kind # "otp" THEN None ELSE IF status = "sent" THEN "sent" ELSE "refused"

Conclude(status) ==
  /\ outcome' = [kind |-> message.kind, channel |-> message.channel,
                 accepted |-> message.accepted, status |-> status, told |-> Answer(status)]
  /\ message' = NoMessage
  /\ UNCHANGED <<env, containerVars>>

\* The SENT row is inserted inside the try: its failure is a failure to send.
LogSent ==
  \/ Sending("log") /\ Conclude("sent")
  \/ /\ Sending("log")
     /\ message' = [message EXCEPT !.step = "failed"]
     /\ OnlyMessage

\* The FAILED row, unless the database fails again.
LogFailed == Sending("failed") /\ \E status \in {"failed", None} : Conclude(status)

DeliverMessages ==
  AskMessage \/ SendMail \/ FailToSend \/ SendWhatsAppOtp \/ SendSms \/ LogSent \/ LogFailed

-----------------------------------------------------------------------------
(* Properties.                                                             *)

\* A channel that skips what it is given, and is not found out.
SkipsSilently(channel) ==
  \/ channel = "email" /\ ~env.smtp
  \/ channel = "phone" /\ env.sms /\ ~SmsConfigured

\* A row says SENT, and the user is told so, only when a provider took the
\* message - or the channel skips silently: no mail server is configured, or SMS is
\* enabled without an account.
SentIsAccepted ==
  outcome # NoOutcome =>
    /\ outcome.status = "sent" => outcome.accepted # {} \/ SkipsSilently(outcome.channel)
    /\ outcome.told = "sent" => outcome.status = "sent"
=============================================================================
