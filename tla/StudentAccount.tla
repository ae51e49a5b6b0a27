--------------------------- MODULE StudentAccount ---------------------------
(***************************************************************************)
(* One student's row in the users table and the one-time codes sent to     *)
(* them.                                                                   *)
(*                                                                         *)
(* Every handler reads the row, awaits something, and saves the entity it  *)
(* read.  TypeORM's save compares the entity with the row of that moment   *)
(* and updates every column that differs, so a save puts back whatever     *)
(* another handler changed since the read: it writes the whole entity.     *)
(* PaymentFulfillment models the payment doors one by one; here they are   *)
(* one operation among those that write the row.                           *)
(***************************************************************************)
EXTENDS Naturals, FiniteSets

CONSTANTS
  Requests,     \* requests the server handles concurrently
  MaxSends,     \* bound on the codes sent to one channel for one purpose
  MaxRequests   \* bound on the requests accepted

ASSUME BoundAssumption ==
  /\ MaxSends \in Nat \ {0} /\ MaxRequests \in Nat
  /\ IsFiniteSet(Requests)

Channels == {"email", "phone"}
Slots    == Channels \X {"verify", "reset"}
Codes    == 1..MaxSends     \* in the order of their createdAt
Accounts == {"active", "suspended", "disabled"}
Statuses == {"pending", "email_verified", "phone_verified", "verified", "onboarded"}

\* "pending" is also the NULL of an account that the staff created.  Names,
\* addresses and passwords are left out.
Row == [verified : SUBSET Channels, skipped : BOOLEAN, status : Statuses,
        account : Accounts, isActive : BOOLEAN]

VARIABLES
  row,      \* the users row
  paid,     \* is there a successful onboarding payment of the student?
  otps,     \* the otps rows of each channel and purpose
  sent,     \* codes inserted so far
  req,      \* the request each handler is in the middle of
  accepted

vars == <<row, paid, otps, sent, req, accepted>>

-----------------------------------------------------------------------------

Steps == {"idle", "invalidate", "insert", "consume", "mark", "save", "skip", "pay"}

Request == [pc : Steps, slot : Slots, code : Codes, user : Row]

At(r, step) == req[r].pc = step
Entity(r) == req[r].user

AnySlot == <<"email", "verify">>

NewAccount == [verified |-> {}, skipped |-> FALSE, status |-> "pending",
               account |-> "active", isActive |-> TRUE]

NoRequest == [pc |-> "idle", slot |-> AnySlot, code |-> 1, user |-> NewAccount]

Finish(r) == req' = [req EXCEPT ![r] = NoRequest]

\* A request arrives and reads the row; the entity may be changed at once.  The
\* guard's check that the account is active is not repeated here: it is made
\* on an earlier read, so the row may be suspended by now.
Accept(r, step, slot, code, user) ==
  /\ At(r, "idle")
  /\ accepted < MaxRequests
  /\ accepted' = accepted + 1
  /\ req' = [req EXCEPT ![r] = [pc |-> step, slot |-> slot, code |-> code, user |-> user]]
  /\ UNCHANGED <<row, paid, otps, sent>>

\* Mutant: the entity's column is written, the others are left to the database.
SaveStatusOnly(r) ==
  row' = [row EXCEPT !.verified = @ \cup Entity(r).verified, !.status = Entity(r).status]

SaveEntity(r) == row' = Entity(r)

-----------------------------------------------------------------------------
(* Sending a code.                                                         *)

\* A verification code is refused for a channel that is verified already.
SendOtp(r, slot) ==
  /\ slot[2] = "verify" => slot[1] \notin row.verified
  /\ Accept(r, "invalidate", slot, 1, row)

Unverified(slot) == {i \in Codes : otps[slot][i] \in {"active", "expired"}}

\* Mutant: the codes sent before stay valid.
InvalidatesNothing(slot) == {}

Invalidated(slot) == Unverified(slot)

InvalidateActiveOtps(r) ==
  /\ At(r, "invalidate")
  /\ otps' = [otps EXCEPT ![req[r].slot] =
       [i \in Codes |-> IF i \in Invalidated(req[r].slot) THEN "absent" ELSE @[i]]]
  /\ req' = [req EXCEPT ![r].pc = "insert"]
  /\ UNCHANGED <<row, paid, sent, accepted>>

\* The code is stored, then sent; a message that cannot be sent changes nothing.
InsertOtp(r) ==
  /\ At(r, "insert")
  /\ LET slot == req[r].slot
     IN  /\ sent[slot] < MaxSends
         /\ sent' = [sent EXCEPT ![slot] = @ + 1]
         /\ otps' = [otps EXCEPT ![slot][sent[slot] + 1] = "active"]
  /\ Finish(r)
  /\ UNCHANGED <<row, paid, accepted>>

ExpireOtp(slot, i) ==
  /\ otps[slot][i] = "active"
  /\ otps' = [otps EXCEPT ![slot][i] = "expired"]
  /\ UNCHANGED <<row, paid, sent, req, accepted>>

-----------------------------------------------------------------------------
(* Entering a code.                                                        *)

EnterCode(r, slot, code) == Accept(r, "consume", slot, code, row)

Active(slot) == {i \in Codes : otps[slot][i] = "active"}

\* Only the newest code that is neither used nor expired is compared.
Matches(r) ==
  /\ req[r].code \in Active(req[r].slot)
  /\ \A i \in Active(req[r].slot) : i <= req[r].code

ConsumeOtp(r) ==
  /\ At(r, "consume")
  /\ IF Matches(r) THEN req' = [req EXCEPT ![r].pc = "mark"] ELSE Finish(r)
  /\ UNCHANGED <<row, paid, otps, sent, accepted>>

StatusFor(verified) ==
  CASE verified = Channels   -> "verified"
    [] verified = {"phone"}  -> "phone_verified"
    [] verified = {"email"}  -> "email_verified"
    [] OTHER                 -> "pending"

\* Mutant: the name of a channel is stored for the status.
ResolveName(user) ==
  IF user.status = "onboarded" THEN "onboarded" ELSE CHOOSE channel \in user.verified : TRUE

ResolveOnboardingStatus(user) ==
  IF user.status = "onboarded" THEN "onboarded" ELSE StatusFor(user.verified)

WithChannel(user, channel) == [user EXCEPT !.verified = @ \cup {channel}]

Verified(user, channel) ==
  [WithChannel(user, channel) EXCEPT
     !.status = ResolveOnboardingStatus(WithChannel(user, channel))]

\* Mutant: the code is not saved as used.
KeepsCode(slot, code) == otps

\* A code deleted since it was read is inserted again, as used.
UsesCode(slot, code) == [otps EXCEPT ![slot][code] = "verified"]

\* The code is saved as used, and the entity is changed in memory: a channel
\* is verified, or the password is replaced.
MarkOtp(r) ==
  /\ At(r, "mark")
  /\ otps' = UsesCode(req[r].slot, req[r].code)
  /\ req' = [req EXCEPT ![r].pc = "save",
                        ![r].user = IF req[r].slot[2] = "verify"
                                    THEN Verified(@, req[r].slot[1])
                                    ELSE @]
  /\ UNCHANGED <<row, paid, sent, accepted>>

-----------------------------------------------------------------------------
(* Other handlers that save the row.                                       *)

\* The student's or the staff's change of names, address or password.
UpdateProfile(r) == Accept(r, "save", AnySlot, 1, row)

SyncAccountActiveFlag(account) == account = "active"

PatchAccount(r, account) ==
  Accept(r, "save", AnySlot, 1,
         [row EXCEPT !.account = account, !.isActive = SyncAccountActiveFlag(account)])

Save(r) ==
  /\ At(r, "save")
  /\ SaveEntity(r)
  /\ Finish(r)
  /\ UNCHANGED <<paid, otps, sent, accepted>>

\* skipPhoneVerification, for an unverified phone and a paid onboarding.
SkipPhone(r) ==
  /\ "phone" \notin row.verified
  /\ Accept(r, "skip", AnySlot, 1, row)

\* Mutant: the payment is not looked for.
SkipsUnpaid == TRUE

SkipsPaid == paid

CheckPaid(r) ==
  /\ At(r, "skip")
  /\ IF SkipsPaid
     THEN req' = [req EXCEPT ![r].pc = "save",
                             ![r].user = [@ EXCEPT !.skipped = TRUE, !.status = "onboarded"]]
     ELSE Finish(r)
  /\ UNCHANGED <<row, paid, otps, sent, accepted>>

\* A payment door reads the student before its transaction and, unless the
\* student was onboarded when it read, saves them with the payment row.
PayOnboarding(r) == Accept(r, "pay", AnySlot, 1, row)

CommitPayment(r) ==
  /\ At(r, "pay")
  /\ paid' = TRUE
  /\ row' = IF Entity(r).status = "onboarded"
            THEN row
            ELSE [Entity(r) EXCEPT !.status = "onboarded"]
  /\ Finish(r)
  /\ UNCHANGED <<otps, sent, accepted>>

\* An await throws or the process dies: the request stops where it stands.
Fail(r) ==
  /\ ~At(r, "idle")
  /\ Finish(r)
  /\ UNCHANGED <<row, paid, otps, sent, accepted>>

-----------------------------------------------------------------------------

Init ==
  /\ row = NewAccount
  /\ paid = FALSE
  /\ otps = [slot \in Slots |-> [i \in Codes |-> "absent"]]
  /\ sent = [slot \in Slots |-> 0]
  /\ req = [r \in Requests |-> NoRequest]
  /\ accepted = 0

Arrive(r) ==
  \/ \E slot \in Slots : SendOtp(r, slot)
  \/ \E slot \in Slots, code \in Codes : EnterCode(r, slot, code)
  \/ \E account \in Accounts : PatchAccount(r, account)
  \/ UpdateProfile(r) \/ SkipPhone(r) \/ PayOnboarding(r)

Proceed(r) ==
  \/ InvalidateActiveOtps(r) \/ InsertOtp(r)
  \/ ConsumeOtp(r) \/ MarkOtp(r)
  \/ Save(r) \/ CheckPaid(r) \/ CommitPayment(r)

Next ==
  \/ \E r \in Requests : Arrive(r) \/ Proceed(r) \/ Fail(r)
  \/ \E slot \in Slots, i \in Codes : ExpireOtp(slot, i)

Spec == Init /\ [][Next]_vars

-----------------------------------------------------------------------------
(* Properties.                                                             *)

\* The variables hold what the tables and the handlers can hold.
TypeOK ==
  /\ row \in Row
  /\ paid \in BOOLEAN
  /\ otps \in [Slots -> [Codes -> {"absent", "active", "expired", "verified"}]]
  /\ sent \in [Slots -> 0..MaxSends]
  /\ req \in [Requests -> Request]
  /\ accepted \in 0..MaxRequests

\* The status tells the verified channels, and isActive the account status.
Coherent(user) ==
  /\ user.status # "onboarded" => user.status = StatusFor(user.verified)
  /\ user.isActive <=> user.account = "active"

\* However the saves of concurrent handlers overwrite each other, the row
\* agrees with itself, because a save writes what one handler saw and made.
RowIsCoherent == Coherent(row)

\* No handler, however stale what it saves, onboards a student who has not paid.
OnboardedPaid == row.status = "onboarded" \/ row.skipped => paid

\* A channel is verified only by a code that was sent to it and is used up,
\* even when the code was deleted between the check and the save.  (The address
\* it was sent to is not kept: an address changed since stays verified.)
VerifiedByCode ==
  \A channel \in row.verified :
    \E i \in Codes : otps[<<channel, "verify">>][i] = "verified"

\* Unused codes do not pile up: concurrent sends can leave one each, because
\* each deletes the unused codes before it inserts its own.
UnusedCodesBounded ==
  \A slot \in Slots : Cardinality(Unverified(slot)) <= Cardinality(Requests)

\* "A student who has already paid is fully onboarded."
PaidIsOnboarded == paid => row.status = "onboarded"

=============================================================================
