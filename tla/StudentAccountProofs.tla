------------------------ MODULE StudentAccountProofs ------------------------
(***************************************************************************)
(* What StudentAccount keeps true of the users row, for every number of    *)
(* concurrent requests, codes and arrivals.                                *)
(*                                                                         *)
(* A save writes the whole entity that a handler read several steps        *)
(* before, so no property of the row is inductive by itself: every entity  *)
(* in flight must have it too.  Sound says so, and what the entities rest  *)
(* on (the payment, the codes used) never goes away.                       *)
(***************************************************************************)
EXTENDS StudentAccount, FiniteSetTheorems, TLAPS

USE DEF Channels, Accounts, Statuses

LEMMA BoundType == MaxSends \in Nat /\ MaxSends >= 1 /\ MaxRequests \in Nat
  BY BoundAssumption

LEMMA NoRequestType == NewAccount \in Row /\ NoRequest \in Request
<1>1. NewAccount \in Row
  BY DEF NewAccount, Row
<1>2. AnySlot \in Slots /\ 1 \in Codes
  BY BoundType DEF AnySlot, Slots, Codes
<1>3. QED
  BY <1>1, <1>2 DEF NoRequest, Request, Steps

LEMMA FinishType ==
  ASSUME req \in [Requests -> Request], NEW r \in Requests, Finish(r)
  PROVE  req' \in [Requests -> Request]
  BY NoRequestType DEF Finish

LEMMA VerifiedType ==
  ASSUME NEW user \in Row, NEW channel \in Channels
  PROVE  Verified(user, channel) \in Row
<1>1. WithChannel(user, channel) \in Row
  BY DEF WithChannel, Row
<1>2. ResolveOnboardingStatus(WithChannel(user, channel)) \in Statuses
  BY DEF ResolveOnboardingStatus, StatusFor
<1>3. QED
  BY <1>1, <1>2 DEF Verified, Row

LEMMA AcceptType ==
  ASSUME TypeOK, NEW r \in Requests, NEW step \in Steps, NEW slot \in Slots,
         NEW code \in Codes, NEW user \in Row, Accept(r, step, slot, code, user)
  PROVE  TypeOK'
<1>1. [pc |-> step, slot |-> slot, code |-> code, user |-> user] \in Request
  BY DEF Request
<1>2. req' \in [Requests -> Request]
  BY <1>1 DEF Accept, TypeOK
<1>3. accepted' \in 0..MaxRequests
  BY BoundType DEF Accept, TypeOK
<1>4. QED
  BY <1>2, <1>3 DEF Accept, TypeOK

\* Every request arrives with a well-typed entity, made from the row it read.
Arrives(r, user) ==
  \E step \in Steps \ {"idle", "mark", "insert"}, slot \in Slots, code \in Codes :
    Accept(r, step, slot, code, user)

LEMMA ArriveCases ==
  ASSUME TypeOK, NEW r \in Requests, Arrive(r)
  PROVE  \E user \in Row :
           /\ Arrives(r, user)
           /\ \/ user = row
              \/ \E account \in Accounts :
                   user = [row EXCEPT !.account = account,
                                      !.isActive = SyncAccountActiveFlag(account)]
<1>1. row \in Row /\ AnySlot \in Slots /\ 1 \in Codes
  BY BoundType DEF AnySlot, TypeOK, Slots, Codes
<1>2. CASE \E slot \in Slots : SendOtp(r, slot)
  BY <1>1, <1>2 DEF SendOtp, Arrives, Steps
<1>3. CASE \E slot \in Slots, code \in Codes : EnterCode(r, slot, code)
  BY <1>1, <1>3 DEF EnterCode, Arrives, Steps
<1>4. CASE UpdateProfile(r) \/ SkipPhone(r) \/ PayOnboarding(r)
  BY <1>1, <1>4 DEF UpdateProfile, SkipPhone, PayOnboarding, Arrives, Steps
<1>5. ASSUME NEW account \in Accounts, PatchAccount(r, account)
      PROVE  \E user \in Row :
               /\ Arrives(r, user)
               /\ user = [row EXCEPT !.account = account,
                                     !.isActive = SyncAccountActiveFlag(account)]
  <2>1. [row EXCEPT !.account = account,
                    !.isActive = SyncAccountActiveFlag(account)] \in Row
    BY <1>1 DEF Row, SyncAccountActiveFlag
  <2>2. QED
    BY <1>1, <1>5, <2>1 DEF PatchAccount, Arrives, Steps
<1>6. QED
  BY <1>2, <1>3, <1>4, <1>5 DEF Arrive

-----------------------------------------------------------------------------
(* Type correctness.                                                       *)

LEMMA RequestType ==
  ASSUME TypeOK, NEW r \in Requests
  PROVE  /\ req[r] \in Request /\ Entity(r) \in Row
         /\ req[r].slot \in Slots /\ req[r].code \in Codes
  BY DEF TypeOK, Request, Entity

\* What a request does to itself as it goes on.
Continues(r) ==
  \/ Finish(r)
  \/ \E step \in Steps, user \in Row : req' = [req EXCEPT ![r].pc = step, ![r].user = user]

LEMMA ContinuesType ==
  ASSUME TypeOK, NEW r \in Requests, Continues(r)
  PROVE  req' \in [Requests -> Request]
<1>1. CASE Finish(r)
  BY <1>1, FinishType DEF TypeOK
<1>2. ASSUME NEW step \in Steps, NEW user \in Row,
             req' = [req EXCEPT ![r].pc = step, ![r].user = user]
      PROVE  req' \in [Requests -> Request]
  <2> DEFINE new == [req[r] EXCEPT !.pc = step, !.user = user]
  <2>1. new \in Request
    BY RequestType DEF Request
  <2>2. req' = [req EXCEPT ![r] = new]
    BY <1>2 DEF TypeOK
  <2> HIDE DEF new
  <2>3. QED
    BY <2>1, <2>2 DEF TypeOK
<1>3. QED
  BY <1>1, <1>2 DEF Continues

LEMMA StepType ==
  ASSUME TypeOK, NEW r \in Requests, NEW step \in Steps,
         req' = [req EXCEPT ![r].pc = step]
  PROVE  Continues(r)
<1>1. req[r] = [req[r] EXCEPT !.user = Entity(r)]
  BY RequestType DEF Request, Entity
<1>2. req' = [req EXCEPT ![r].pc = step, ![r].user = Entity(r)]
  BY <1>1 DEF TypeOK
<1>3. QED
  BY <1>2, RequestType DEF Continues

LEMMA TypeInit == Init => TypeOK
<1> SUFFICES ASSUME Init PROVE TypeOK
  OBVIOUS
<1>1. sent \in [Slots -> 0..MaxSends] /\ accepted \in 0..MaxRequests
  BY BoundType DEF Init
<1>2. row \in Row /\ req \in [Requests -> Request]
  BY NoRequestType DEF Init
<1>3. QED
  BY <1>1, <1>2 DEF Init, TypeOK

LEMMA TypeStep == TypeOK /\ [Next]_vars => TypeOK'
<1> SUFFICES ASSUME TypeOK, [Next]_vars PROVE TypeOK'
  OBVIOUS
<1>1. ASSUME NEW r \in Requests, Arrive(r) PROVE TypeOK'
  BY <1>1, ArriveCases, AcceptType DEF Arrives
<1>2. ASSUME NEW r \in Requests, InvalidateActiveOtps(r) PROVE TypeOK'
  <2>1. req' \in [Requests -> Request]
    BY <1>2, StepType, ContinuesType DEF InvalidateActiveOtps, Steps
  <2>2. otps' \in [Slots -> [Codes -> {"absent", "active", "expired", "verified"}]]
    BY <1>2, RequestType DEF InvalidateActiveOtps, TypeOK
  <2>3. QED
    BY <1>2, <2>1, <2>2 DEF InvalidateActiveOtps, TypeOK
<1>3. ASSUME NEW r \in Requests, InsertOtp(r) PROVE TypeOK'
  <2>1. req' \in [Requests -> Request]
    BY <1>3, FinishType DEF InsertOtp, TypeOK
  <2>2. sent' \in [Slots -> 0..MaxSends]
    BY <1>3, RequestType, BoundType DEF InsertOtp, TypeOK, Codes
  <2>3. otps' \in [Slots -> [Codes -> {"absent", "active", "expired", "verified"}]]
    BY <1>3, RequestType, BoundType DEF InsertOtp, TypeOK, Codes
  <2>4. QED
    BY <1>3, <2>1, <2>2, <2>3 DEF InsertOtp, TypeOK
<1>4. ASSUME NEW r \in Requests, ConsumeOtp(r) PROVE TypeOK'
  <2>1. req' \in [Requests -> Request]
    BY <1>4, StepType, ContinuesType DEF ConsumeOtp, Continues, Steps
  <2>2. QED
    BY <1>4, <2>1 DEF ConsumeOtp, TypeOK
<1>5. ASSUME NEW r \in Requests, MarkOtp(r) PROVE TypeOK'
  <2>1. Verified(Entity(r), req[r].slot[1]) \in Row
    BY RequestType, VerifiedType DEF Slots
  <2>2. Continues(r)
    BY <1>5, <2>1, RequestType DEF MarkOtp, Continues, Entity, Steps
  <2>3. otps' \in [Slots -> [Codes -> {"absent", "active", "expired", "verified"}]]
    BY <1>5, RequestType DEF MarkOtp, UsesCode, TypeOK
  <2>4. QED
    BY <1>5, <2>2, <2>3, ContinuesType DEF MarkOtp, TypeOK
<1>6. ASSUME NEW r \in Requests, Save(r) PROVE TypeOK'
  BY <1>6, RequestType, FinishType DEF Save, SaveEntity, TypeOK
<1>7. ASSUME NEW r \in Requests, CheckPaid(r) PROVE TypeOK'
  <2>1. [Entity(r) EXCEPT !.skipped = TRUE, !.status = "onboarded"] \in Row
    BY RequestType DEF Row
  <2>2. Continues(r)
    BY <1>7, <2>1 DEF CheckPaid, Continues, Entity, Steps
  <2>3. QED
    BY <1>7, <2>2, ContinuesType DEF CheckPaid, TypeOK
<1>8. ASSUME NEW r \in Requests, CommitPayment(r) PROVE TypeOK'
  <2>1. row' \in Row
    BY <1>8, RequestType DEF CommitPayment, TypeOK, Row
  <2>2. QED
    BY <1>8, <2>1, FinishType DEF CommitPayment, TypeOK
<1>9. ASSUME NEW r \in Requests, Fail(r) PROVE TypeOK'
  BY <1>9, FinishType DEF Fail, TypeOK
<1>10. ASSUME NEW slot \in Slots, NEW i \in Codes, ExpireOtp(slot, i) PROVE TypeOK'
  BY <1>10 DEF ExpireOtp, TypeOK
<1>11. CASE UNCHANGED vars
  BY <1>11 DEF vars, TypeOK
<1>12. QED
  BY <1>1, <1>2, <1>3, <1>4, <1>5, <1>6, <1>7, <1>8, <1>9, <1>10, <1>11
  DEF Next, Proceed

\* The users row, the codes and the handlers keep their types.
THEOREM AccountTypes == Spec => []TypeOK
  BY TypeInit, TypeStep, PTL DEF Spec

-----------------------------------------------------------------------------
(* The inductive invariant.                                                *)

UsedUp(channel) == \E i \in Codes : otps[<<channel, "verify">>][i] = "verified"

SoundUser(user) ==
  /\ Coherent(user)
  /\ user.status = "onboarded" \/ user.skipped => paid
  /\ \A channel \in user.verified : UsedUp(channel)

\* A code exists once it was sent, and one that was checked was sent.
OnlySentCodes ==
  /\ \A slot \in Slots, i \in Codes : i > sent[slot] => otps[slot][i] = "absent"
  /\ \A r \in Requests : req[r].pc = "mark" => req[r].code <= sent[req[r].slot]

Sound ==
  /\ TypeOK
  /\ SoundUser(row)
  /\ \A r \in Requests : SoundUser(Entity(r))
  /\ OnlySentCodes

\* The payment and the used codes stay.
Keeps ==
  /\ paid => paid'
  /\ \A channel \in Channels : UsedUp(channel) => UsedUp(channel)'

LEMMA StaysSound ==
  ASSUME Keeps, NEW user \in Row, SoundUser(user)
  PROVE  SoundUser(user)'
  BY DEF Keeps, SoundUser, Coherent, Row

LEMMA NewAccountSound == SoundUser(NewAccount)
  BY DEF SoundUser, NewAccount, Coherent, StatusFor

\* What verifying a channel does to an entity.
LEMMA VerifiedFacts ==
  ASSUME NEW user \in Row, Coherent(user), NEW channel \in Channels
  PROVE  /\ Coherent(Verified(user, channel))
         /\ Verified(user, channel).status = "onboarded" => user.status = "onboarded"
         /\ Verified(user, channel).skipped = user.skipped
         /\ Verified(user, channel).verified = user.verified \cup {channel}
<1> DEFINE with == WithChannel(user, channel)
<1>1. /\ with \in Row /\ with.status = user.status /\ with.skipped = user.skipped
      /\ with.account = user.account /\ with.isActive = user.isActive
      /\ with.verified = user.verified \cup {channel}
  BY DEF WithChannel, Row
<1> HIDE DEF with
<1>2. /\ Verified(user, channel).status = ResolveOnboardingStatus(with)
      /\ Verified(user, channel).verified = with.verified
      /\ Verified(user, channel).skipped = with.skipped
      /\ Verified(user, channel).account = with.account
      /\ Verified(user, channel).isActive = with.isActive
  BY <1>1 DEF Verified, with, Row
<1>3. Coherent(Verified(user, channel))
  BY <1>1, <1>2 DEF Coherent, ResolveOnboardingStatus
<1>4. Verified(user, channel).status = "onboarded" => user.status = "onboarded"
  BY <1>1, <1>2 DEF ResolveOnboardingStatus, StatusFor
<1>5. QED
  BY <1>1, <1>2, <1>3, <1>4

\* The requests that arrive made a sound entity of the row.
LEMMA ArriveSound ==
  ASSUME Sound, NEW r \in Requests, Arrive(r)
  PROVE  /\ UNCHANGED <<row, paid, otps, sent>>
         /\ \E user \in Row : SoundUser(user) /\ req'[r].user = user
         /\ req'[r].pc \notin {"mark", "insert"}
         /\ \A q \in Requests \ {r} : req'[q] = req[q]
<1>1. PICK user \in Row :
        /\ Arrives(r, user)
        /\ \/ user = row
           \/ \E account \in Accounts :
                user = [row EXCEPT !.account = account,
                                   !.isActive = SyncAccountActiveFlag(account)]
  BY ArriveCases DEF Sound
<1>2. PICK step \in Steps \ {"idle", "mark", "insert"}, slot \in Slots, code \in Codes :
        Accept(r, step, slot, code, user)
  BY <1>1 DEF Arrives
<1>3. /\ UNCHANGED <<row, paid, otps, sent>>
      /\ req'[r] = [pc |-> step, slot |-> slot, code |-> code, user |-> user]
      /\ \A q \in Requests \ {r} : req'[q] = req[q]
  BY <1>2 DEF Accept, Sound, TypeOK
<1>4. SoundUser(user)
  BY <1>1 DEF Sound, SoundUser, Coherent, TypeOK, Row, SyncAccountActiveFlag
<1>5. QED
  BY <1>2, <1>3, <1>4

LEMMA InitSound == Init => Sound
<1> SUFFICES ASSUME Init PROVE Sound
  OBVIOUS
<1>1. \A r \in Requests : Entity(r) = NewAccount /\ req[r].pc = "idle"
  BY DEF Init, Entity, NoRequest
<1>2. SoundUser(row) /\ \A r \in Requests : SoundUser(Entity(r))
  BY <1>1, NewAccountSound DEF Init
<1>3. OnlySentCodes
  BY <1>1 DEF OnlySentCodes, Init
<1>4. QED
  BY <1>2, <1>3, TypeInit DEF Sound

\* The steps that write the tables or go on with a request.
LEMMA NextCases ==
  ASSUME [Next]_vars
  PROVE  \/ \E r \in Requests : Arrive(r) \/ Proceed(r) \/ Fail(r)
         \/ \E slot \in Slots, i \in Codes : ExpireOtp(slot, i)
         \/ UNCHANGED vars
  BY DEF Next

\* A used code stays used.
StaysUsed ==
  \A slot \in Slots, i \in Codes :
    otps[slot][i] = "verified" => otps'[slot][i] = "verified"

LEMMA StaysUsedKeeps ==
  ASSUME StaysUsed, paid => paid'
  PROVE  Keeps
<1>1. \A channel \in Channels : <<channel, "verify">> \in Slots
  BY DEF Slots
<1>2. QED
  BY <1>1 DEF Keeps, UsedUp, StaysUsed

LEMMA KeepsStep ==
  ASSUME Sound, [Next]_vars
  PROVE  Keeps
<1> USE DEF StaysUsed
<1>1. CASE UNCHANGED otps /\ (paid => paid')
  BY <1>1, StaysUsedKeeps
<1>2. ASSUME NEW r \in Requests, InvalidateActiveOtps(r) PROVE Keeps
  <2>1. StaysUsed
    BY <1>2, RequestType
    DEF InvalidateActiveOtps, Invalidated, Unverified, Sound, TypeOK
  <2>2. QED
    BY <1>2, <2>1, StaysUsedKeeps DEF InvalidateActiveOtps
<1>3. ASSUME NEW r \in Requests, InsertOtp(r) PROVE Keeps
  <2>1. /\ sent[req[r].slot] + 1 \in Codes
        /\ otps[req[r].slot][sent[req[r].slot] + 1] = "absent"
    BY <1>3, RequestType, BoundType DEF InsertOtp, Sound, OnlySentCodes, TypeOK, Codes
  <2>2. StaysUsed
    BY <1>3, <2>1, RequestType DEF InsertOtp, Sound, TypeOK
  <2>3. QED
    BY <1>3, <2>2, StaysUsedKeeps DEF InsertOtp
<1>4. ASSUME NEW r \in Requests, MarkOtp(r) PROVE Keeps
  <2>1. StaysUsed
    BY <1>4, RequestType DEF MarkOtp, UsesCode, Sound, TypeOK
  <2>2. QED
    BY <1>4, <2>1, StaysUsedKeeps DEF MarkOtp
<1>5. ASSUME NEW slot \in Slots, NEW i \in Codes, ExpireOtp(slot, i) PROVE Keeps
  <2>1. StaysUsed
    BY <1>5 DEF ExpireOtp, Sound, TypeOK
  <2>2. QED
    BY <1>5, <2>1, StaysUsedKeeps DEF ExpireOtp
<1>6. ASSUME NEW r \in Requests,
             \/ Arrive(r) \/ ConsumeOtp(r) \/ Save(r) \/ CheckPaid(r)
             \/ CommitPayment(r) \/ Fail(r)
      PROVE  Keeps
  <2>1. UNCHANGED otps /\ (paid => paid')
    BY <1>6, ArriveSound DEF ConsumeOtp, Save, CheckPaid, CommitPayment, Fail
  <2>2. QED
    BY <1>1, <2>1
<1>7. CASE UNCHANGED vars
  BY <1>1, <1>7 DEF vars
<1>8. QED
  BY <1>2, <1>3, <1>4, <1>5, <1>6, <1>7, NextCases DEF Proceed

LEMMA SentStep ==
  ASSUME Sound, [Next]_vars
  PROVE  OnlySentCodes'
<1> USE DEF OnlySentCodes
<1>1. ASSUME NEW r \in Requests, Arrive(r) PROVE OnlySentCodes'
  BY <1>1, ArriveSound DEF Sound
<1>2. ASSUME NEW r \in Requests, UNCHANGED <<otps, sent>>,
             Finish(r) \/ \E step \in Steps, user \in Row :
                            /\ step # "mark"
                            /\ req' = [req EXCEPT ![r].pc = step, ![r].user = user]
      PROVE  OnlySentCodes'
  <2>1. req'[r].pc # "mark" /\ \A q \in Requests \ {r} : req'[q] = req[q]
    <3>1. CASE Finish(r)
      BY <3>1 DEF Sound, TypeOK, Finish, NoRequest
    <3>2. ASSUME NEW step \in Steps, NEW user \in Row, step # "mark",
                 req' = [req EXCEPT ![r].pc = step, ![r].user = user]
          PROVE  req'[r].pc # "mark" /\ \A q \in Requests \ {r} : req'[q] = req[q]
      <4>1. req[r] \in Request
        BY RequestType DEF Sound
      <4>2. QED
        BY <3>2, <4>1 DEF Sound, TypeOK, Request
    <3>3. QED
      BY <1>2, <3>1, <3>2
  <2>2. QED
    BY <1>2, <2>1 DEF Sound
<1>3. ASSUME NEW r \in Requests, InvalidateActiveOtps(r) PROVE OnlySentCodes'
  <2>1. \A q \in Requests : req'[q].pc = "mark" => req'[q] = req[q]
    BY <1>3 DEF InvalidateActiveOtps, Sound, TypeOK
  <2>2. \A slot \in Slots, i \in Codes :
          otps[slot][i] = "absent" => otps'[slot][i] = "absent"
    BY <1>3, RequestType DEF InvalidateActiveOtps, Sound, TypeOK
  <2>3. QED
    BY <1>3, <2>1, <2>2 DEF InvalidateActiveOtps, Sound
<1>4. ASSUME NEW r \in Requests, InsertOtp(r) PROVE OnlySentCodes'
  <2>1. PICK slot \in Slots : slot = req[r].slot
    BY RequestType DEF Sound
  <2>2. /\ sent[slot] \in Nat /\ sent'[slot] = sent[slot] + 1
        /\ \A other \in Slots \ {slot} : sent'[other] = sent[other]
    BY <1>4, <2>1 DEF InsertOtp, Sound, TypeOK
  <2>3. /\ \A i \in Codes : i # sent[slot] + 1 => otps'[slot][i] = otps[slot][i]
        /\ \A other \in Slots \ {slot} : otps'[other] = otps[other]
    BY <1>4, <2>1 DEF InsertOtp, Sound, TypeOK
  <2>4. \A q \in Requests : req'[q].pc = "mark" => q # r /\ req'[q] = req[q]
    BY <1>4 DEF InsertOtp, Sound, TypeOK, Finish, NoRequest
  <2>5. ASSUME NEW other \in Slots, NEW i \in Codes, i > sent'[other]
        PROVE  otps'[other][i] = "absent"
    BY <2>2, <2>3, <2>5, BoundType DEF Sound, Codes
  <2>6. ASSUME NEW q \in Requests, req'[q].pc = "mark"
        PROVE  req'[q].code <= sent'[req'[q].slot]
    <3>1. req[q].slot \in Slots /\ req[q].code \in Nat /\ sent[req[q].slot] \in Nat
      BY RequestType, BoundType DEF Sound, TypeOK, Codes
    <3>2. QED
      BY <2>2, <2>4, <2>6, <3>1 DEF Sound
  <2>7. QED
    BY <2>5, <2>6
<1>5. ASSUME NEW r \in Requests, ConsumeOtp(r) PROVE OnlySentCodes'
  <2>1. CASE ~Matches(r)
    BY <1>2, <1>5, <2>1 DEF ConsumeOtp
  <2>2. CASE Matches(r)
    <3>1. req[r].code <= sent[req[r].slot]
      BY <2>2, RequestType, BoundType DEF Matches, Active, Sound, TypeOK, Codes
    <3>2. \A q \in Requests : /\ req'[q].code = req[q].code /\ req'[q].slot = req[q].slot
                              /\ req'[q].pc = "mark" => q = r \/ req[q].pc = "mark"
      BY <1>5, <2>2 DEF ConsumeOtp, Sound, TypeOK, Request
    <3>3. QED
      BY <1>5, <3>1, <3>2 DEF ConsumeOtp, Sound
  <2>3. QED
    BY <2>1, <2>2
<1>6. ASSUME NEW r \in Requests, MarkOtp(r) PROVE OnlySentCodes'
  <2>1. req[r].code <= sent[req[r].slot] /\ req[r].slot \in Slots
    BY <1>6, RequestType DEF MarkOtp, At, Sound
  <2>2. \A slot \in Slots, i \in Codes :
          i > sent[slot] => otps'[slot][i] = otps[slot][i]
    BY <1>6, <2>1, RequestType, BoundType DEF MarkOtp, UsesCode, Sound, TypeOK, Codes
  <2>3. \A q \in Requests : req'[q].pc = "mark" => q # r /\ req'[q] = req[q]
    BY <1>6 DEF MarkOtp, Sound, TypeOK, Request
  <2>4. QED
    BY <1>6, <2>2, <2>3 DEF MarkOtp, Sound
<1>7. ASSUME NEW r \in Requests, Save(r) \/ CommitPayment(r) \/ Fail(r)
      PROVE  OnlySentCodes'
  BY <1>2, <1>7 DEF Save, CommitPayment, Fail
<1>8. ASSUME NEW r \in Requests, CheckPaid(r) PROVE OnlySentCodes'
  <2>1. \A q \in Requests : req'[q].pc = "mark" => q # r /\ req'[q] = req[q]
    BY <1>8 DEF CheckPaid, Sound, TypeOK, Request, Finish, NoRequest
  <2>2. QED
    BY <1>8, <2>1 DEF CheckPaid, Sound
<1>9. ASSUME NEW slot \in Slots, NEW i \in Codes, ExpireOtp(slot, i) PROVE OnlySentCodes'
  BY <1>9 DEF ExpireOtp, Sound, TypeOK
<1>10. CASE UNCHANGED vars
  BY <1>10 DEF vars, Sound
<1>11. QED
  BY <1>1, <1>3, <1>4, <1>5, <1>6, <1>7, <1>8, <1>9, <1>10, NextCases DEF Proceed

-----------------------------------------------------------------------------
(* The row and the entities in flight.                                     *)

\* A step that changes the request r alone leaves the other entities sound.
LEMMA EntitiesSound ==
  ASSUME Sound, Keeps, NEW r \in Requests, NEW user \in Row, SoundUser(user)',
         req'[r].user = user, \A q \in Requests \ {r} : req'[q] = req[q]
  PROVE  \A q \in Requests : SoundUser(Entity(q))'
<1>1. ASSUME NEW q \in Requests, q # r PROVE SoundUser(Entity(q))'
  <2>1. SoundUser(req[q].user)'
    BY StaysSound, RequestType DEF Sound, Entity
  <2>2. QED
    BY <1>1, <2>1 DEF Entity
<1>2. SoundUser(Entity(r))'
  BY DEF Entity
<1>3. QED
  BY <1>1, <1>2

Undisturbed == \A r \in Requests : SoundUser(Entity(r))'

LEMMA FinishSound ==
  ASSUME Sound, Keeps, NEW r \in Requests, Finish(r)
  PROVE  Undisturbed
<1>1. req'[r].user = NewAccount /\ \A q \in Requests \ {r} : req'[q] = req[q]
  BY DEF Finish, NoRequest, Sound, TypeOK
<1>2. QED
  BY <1>1, EntitiesSound, NewAccountSound, StaysSound, NoRequestType DEF Undisturbed

\* A request goes on with the entity it has, or with a sound new one.
LEMMA ContinueSound ==
  ASSUME Sound, Keeps, NEW r \in Requests, NEW step \in Steps,
         NEW user \in Row, SoundUser(user),
         req' = [req EXCEPT ![r].pc = step, ![r].user = user]
  PROVE  Undisturbed
<1>1. req[r] \in Request
  BY RequestType DEF Sound
<1>2. req'[r].user = user /\ \A q \in Requests \ {r} : req'[q] = req[q]
  BY <1>1 DEF Sound, TypeOK, Request
<1>3. QED
  BY <1>2, EntitiesSound, StaysSound DEF Undisturbed

LEMMA SameEntity ==
  ASSUME Sound, Keeps, NEW r \in Requests, NEW step \in Steps,
         req' = [req EXCEPT ![r].pc = step]
  PROVE  Undisturbed
<1>1. req[r] = [req[r] EXCEPT !.user = Entity(r)]
  BY RequestType DEF Sound, Request, Entity
<1>2. req' = [req EXCEPT ![r].pc = step, ![r].user = Entity(r)]
  BY <1>1 DEF Sound, TypeOK
<1>3. QED
  BY <1>2, ContinueSound, RequestType DEF Sound

LEMMA EntityStep ==
  ASSUME Sound, [Next]_vars
  PROVE  SoundUser(row)' /\ Undisturbed
<1>1. Keeps
  BY KeepsStep
<1>2. ASSUME row' = row PROVE SoundUser(row)'
  BY <1>1, <1>2, StaysSound DEF Sound, TypeOK
<1>3. ASSUME NEW r \in Requests, Arrive(r) PROVE SoundUser(row)' /\ Undisturbed
  <2>1. PICK user \in Row : SoundUser(user) /\ req'[r].user = user
    BY <1>3, ArriveSound
  <2>2. row' = row /\ \A q \in Requests \ {r} : req'[q] = req[q]
    BY <1>3, ArriveSound
  <2>3. Undisturbed
    BY <1>1, <2>1, <2>2, EntitiesSound, StaysSound DEF Undisturbed
  <2>4. QED
    BY <1>2, <2>2, <2>3
<1>4. ASSUME NEW r \in Requests, InvalidateActiveOtps(r)
      PROVE  SoundUser(row)' /\ Undisturbed
  BY <1>1, <1>2, <1>4, SameEntity DEF InvalidateActiveOtps, Steps
<1>5. ASSUME NEW r \in Requests, InsertOtp(r) \/ Fail(r)
      PROVE  SoundUser(row)' /\ Undisturbed
  BY <1>1, <1>2, <1>5, FinishSound DEF InsertOtp, Fail
<1>6. ASSUME NEW r \in Requests, ConsumeOtp(r) PROVE SoundUser(row)' /\ Undisturbed
  BY <1>1, <1>2, <1>6, FinishSound, SameEntity DEF ConsumeOtp, Steps
<1>7. ASSUME NEW r \in Requests, MarkOtp(r) PROVE SoundUser(row)' /\ Undisturbed
  <2>1. PICK user \in Row : user = Entity(r) /\ SoundUser(user)
    BY RequestType DEF Sound
  <2>2. PICK channel \in Channels, purpose \in {"verify", "reset"} :
          req[r].slot = <<channel, purpose>>
    BY RequestType DEF Sound, Slots
  <2>3. /\ row' = row
        /\ req' = [req EXCEPT ![r].pc = "save",
                              ![r].user = IF purpose = "verify"
                                          THEN Verified(user, channel)
                                          ELSE user]
    BY <1>7, <2>1, <2>2 DEF MarkOtp, Entity
  <2>4. SoundUser(user)'
    BY <1>1, <2>1, StaysSound
  <2>5. ASSUME NEW new \in Row, SoundUser(new)',
               req' = [req EXCEPT ![r].pc = "save", ![r].user = new]
        PROVE  Undisturbed
    <3>1. req[r] \in Request
      BY RequestType DEF Sound
    <3>2. req'[r].user = new /\ \A q \in Requests \ {r} : req'[q] = req[q]
      BY <2>5, <3>1 DEF Sound, TypeOK, Request
    <3>3. QED
      BY <1>1, <2>5, <3>2, EntitiesSound DEF Undisturbed
  <2>6. CASE purpose = "verify"
    <3>1. UsedUp(channel)'
      BY <1>7, <2>2, <2>6, RequestType DEF MarkOtp, UsesCode, UsedUp, Sound, TypeOK
    <3>2. SoundUser(Verified(user, channel))'
      BY <2>1, <2>4, <3>1, VerifiedFacts DEF SoundUser
    <3>3. Verified(user, channel) \in Row
      BY <2>1, VerifiedType
    <3>4. QED
      BY <1>2, <2>3, <2>5, <2>6, <3>2, <3>3
  <2>7. CASE purpose # "verify"
    BY <1>2, <2>1, <2>3, <2>4, <2>5, <2>7
  <2>8. QED
    BY <2>6, <2>7
<1>8. ASSUME NEW r \in Requests, Save(r) PROVE SoundUser(row)' /\ Undisturbed
  <2>1. Undisturbed
    BY <1>1, <1>8, FinishSound DEF Save
  <2>2. PICK user \in Row : user = Entity(r) /\ SoundUser(user)
    BY RequestType DEF Sound
  <2>3. row' = user
    BY <1>8, <2>2 DEF Save, SaveEntity
  <2>4. SoundUser(user)'
    BY <1>1, <2>2, StaysSound
  <2>5. QED
    BY <2>1, <2>3, <2>4
<1>9. ASSUME NEW r \in Requests, CheckPaid(r) PROVE SoundUser(row)' /\ Undisturbed
  <2> DEFINE user == [Entity(r) EXCEPT !.skipped = TRUE, !.status = "onboarded"]
  <2>1. CASE paid
    <3>1. user \in Row /\ SoundUser(user)
      BY <2>1, RequestType DEF Sound, SoundUser, Coherent, Row
    <3>2. req' = [req EXCEPT ![r].pc = "save", ![r].user = user]
      BY <1>9, <2>1 DEF CheckPaid, SkipsPaid, Entity
    <3>3. Undisturbed
      BY <1>1, <3>1, <3>2, ContinueSound DEF Steps
    <3>4. QED
      BY <1>2, <1>9, <3>3 DEF CheckPaid
  <2>2. CASE ~paid
    BY <1>1, <1>2, <1>9, <2>2, FinishSound DEF CheckPaid, SkipsPaid
  <2>3. QED
    BY <2>1, <2>2
<1>10. ASSUME NEW r \in Requests, CommitPayment(r) PROVE SoundUser(row)' /\ Undisturbed
  <2>1. Undisturbed
    BY <1>1, <1>10, FinishSound DEF CommitPayment
  <2>2. PICK user \in Row : user = Entity(r) /\ SoundUser(user)
    BY RequestType DEF Sound
  <2>3. CASE user.status = "onboarded"
    BY <1>2, <1>10, <2>1, <2>2, <2>3 DEF CommitPayment
  <2>4. CASE user.status # "onboarded"
    <3>1. row' = [user EXCEPT !.status = "onboarded"] /\ paid'
      BY <1>10, <2>2, <2>4 DEF CommitPayment
    <3>2. SoundUser(user)'
      BY <1>1, <2>2, StaysSound
    <3>3. SoundUser([user EXCEPT !.status = "onboarded"])'
      BY <2>2, <3>1, <3>2 DEF SoundUser, Coherent, Row
    <3>4. QED
      BY <2>1, <3>1, <3>3
  <2>5. QED
    BY <2>3, <2>4
<1>11. ASSUME NEW slot \in Slots, NEW i \in Codes, ExpireOtp(slot, i)
       PROVE  SoundUser(row)' /\ Undisturbed
  <2>1. UNCHANGED <<row, req>>
    BY <1>11 DEF ExpireOtp
  <2>2. Undisturbed
    BY <1>1, <2>1, StaysSound, RequestType DEF Undisturbed, Sound, Entity
  <2>3. QED
    BY <1>2, <2>1, <2>2
<1>12. CASE UNCHANGED vars
  <2>1. UNCHANGED <<row, req>>
    BY <1>12 DEF vars
  <2>2. Undisturbed
    BY <1>1, <2>1, StaysSound, RequestType DEF Undisturbed, Sound, Entity
  <2>3. QED
    BY <1>2, <2>1, <2>2
<1>13. QED
  BY <1>3, <1>4, <1>5, <1>6, <1>7, <1>8, <1>9, <1>10, <1>11, <1>12, NextCases
  DEF Proceed

LEMMA SoundStep == Sound /\ [Next]_vars => Sound'
<1> SUFFICES ASSUME Sound, [Next]_vars PROVE Sound'
  OBVIOUS
<1>1. TypeOK'
  BY TypeStep DEF Sound
<1>2. SoundUser(row)' /\ \A r \in Requests : SoundUser(Entity(r))'
  BY EntityStep DEF Undisturbed
<1>3. OnlySentCodes'
  BY SentStep
<1>4. QED
  BY <1>1, <1>2, <1>3 DEF Sound

LEMMA SoundAlways == Spec => []Sound
  BY InitSound, SoundStep, PTL DEF Spec

-----------------------------------------------------------------------------
(* The properties.                                                         *)

\* However handlers overwrite each other, the row's status tells its verified
\* channels and isActive its account status: otps.service.ts, user.service.ts
\* and students.service.ts save entities that were coherent when read.
THEOREM RowStaysCoherent == Spec => []RowIsCoherent
<1>1. Sound => RowIsCoherent
  BY DEF Sound, SoundUser, RowIsCoherent
<1>2. QED
  BY <1>1, SoundAlways, PTL

\* Nobody is onboarded, or lets the phone go unverified, without a payment,
\* however stale the row that verifyVerificationOtp or
\* skipPhoneVerification saves.
THEOREM OnboardedStudentsPaid == Spec => []OnboardedPaid
<1>1. Sound => OnboardedPaid
  BY DEF Sound, SoundUser, OnboardedPaid
<1>2. QED
  BY <1>1, SoundAlways, PTL

\* A channel marked as verified has a code that was sent to it and is used up:
\* consumeOtp saves the code before the row.
THEOREM VerificationUsesCode == Spec => []VerifiedByCode
<1>1. Sound => VerifiedByCode
  BY DEF Sound, SoundUser, UsedUp, VerifiedByCode
<1>2. QED
  BY <1>1, SoundAlways, PTL

-----------------------------------------------------------------------------
(* Counting the codes nobody used.                                         *)

Inserting(slot) == {r \in Requests : At(r, "insert") /\ req[r].slot = slot}

\* Every code that was left unused, or is about to be, was inserted by a request
\* that deleted the others when no more requests than there are were sending.
Crowded(slot) == Cardinality(Unverified(slot)) + Cardinality(Inserting(slot))
FewCodes == \A slot \in Slots : Crowded(slot) <= Cardinality(Requests)

LEMMA FiniteCounts ==
  ASSUME NEW slot
  PROVE  /\ IsFiniteSet(Unverified(slot)) /\ IsFiniteSet(Inserting(slot))
         /\ Cardinality(Unverified(slot)) \in Nat /\ Cardinality(Inserting(slot)) \in Nat
         /\ Cardinality(Inserting(slot)) <= Cardinality(Requests)
         /\ Cardinality(Requests) \in Nat
<1>1. IsFiniteSet(Requests) /\ Inserting(slot) \in SUBSET Requests
  BY BoundAssumption DEF Inserting
<1>2. IsFiniteSet(Codes) /\ Unverified(slot) \in SUBSET Codes
  <2>1. IsFiniteSet(1 .. MaxSends)
    BY BoundType, FS_Interval
  <2>2. QED
    BY <2>1 DEF Codes, Unverified
<1>3. /\ IsFiniteSet(Inserting(slot)) /\ Cardinality(Inserting(slot)) <= Cardinality(Requests)
      /\ IsFiniteSet(Unverified(slot))
  BY <1>1, <1>2, FS_Subset
<1>4. QED
  BY <1>1, <1>3, FS_CardinalityType

\* A step that makes no code and lets no request on to its insertion.
LEMMA FewerCodes ==
  ASSUME TypeOK, FewCodes, NEW slot \in Slots,
         Unverified(slot)' \subseteq Unverified(slot),
         Inserting(slot)' \subseteq Inserting(slot)
  PROVE  Crowded(slot)' <= Cardinality(Requests)
<1>1. PICK codes : codes = Unverified(slot)'
  OBVIOUS
<1>2. PICK inserting : inserting = Inserting(slot)'
  OBVIOUS
<1>3. /\ Cardinality(codes) <= Cardinality(Unverified(slot)) /\ IsFiniteSet(codes)
      /\ Cardinality(inserting) <= Cardinality(Inserting(slot)) /\ IsFiniteSet(inserting)
  BY <1>1, <1>2, FiniteCounts, FS_Subset
<1>4. /\ Cardinality(codes) \in Nat /\ Cardinality(inserting) \in Nat
      /\ Cardinality(Unverified(slot)) \in Nat /\ Cardinality(Inserting(slot)) \in Nat
      /\ Cardinality(Requests) \in Nat
  BY <1>3, FiniteCounts, FS_CardinalityType
<1>5. Crowded(slot) <= Cardinality(Requests)
  BY DEF FewCodes
<1>6. Crowded(slot)' = Cardinality(codes) + Cardinality(inserting)
  BY <1>1, <1>2 DEF Crowded
<1>7. QED
  BY <1>3, <1>4, <1>5, <1>6 DEF Crowded

\* What a request other than those about to insert does to who is inserting.
LEMMA SameInserting ==
  ASSUME TypeOK, NEW r \in Requests, NEW slot,
         req'[r].pc # "insert" \/ req'[r].slot # slot,
         \A q \in Requests \ {r} : req'[q] = req[q]
  PROVE  Inserting(slot)' \subseteq Inserting(slot)
BY DEF Inserting, At

\* What a step makes of its request: finished, or at another step of the same code.
LEMMA GoesOn ==
  ASSUME TypeOK, NEW r \in Requests,
         \/ Finish(r)
         \/ \E step, user : req' = [req EXCEPT ![r].pc = step, ![r].user = user]
                              /\ step # "insert"
         \/ \E step : req' = [req EXCEPT ![r].pc = step] /\ step # "insert"
  PROVE  req'[r].pc # "insert" /\ \A q \in Requests \ {r} : req'[q] = req[q]
<1>1. req[r] = [pc |-> req[r].pc, slot |-> req[r].slot, code |-> req[r].code,
                user |-> req[r].user]
  BY DEF TypeOK, Request
<1>2. CASE Finish(r)
  BY <1>2 DEF Finish, NoRequest, TypeOK
<1>3. CASE \E step, user : req' = [req EXCEPT ![r].pc = step, ![r].user = user]
                             /\ step # "insert"
  <2>1. PICK step, user : req' = [req EXCEPT ![r].pc = step, ![r].user = user]
                            /\ step # "insert"
    BY <1>3
  <2>2. PICK new : new = [req[r] EXCEPT !.pc = step, !.user = user]
    OBVIOUS
  <2>3. req' = [req EXCEPT ![r] = new] /\ new.pc = step
    BY <1>1, <2>1, <2>2 DEF TypeOK
  <2>4. QED
    BY <2>1, <2>3 DEF TypeOK
<1>4. CASE \E step : req' = [req EXCEPT ![r].pc = step] /\ step # "insert"
  BY <1>1, <1>4 DEF TypeOK
<1>5. QED
  BY <1>2, <1>3, <1>4

LEMMA InvalidateCounts ==
  ASSUME TypeOK, FewCodes, NEW r \in Requests, InvalidateActiveOtps(r), TypeOK'
  PROVE  FewCodes'
<1> SUFFICES ASSUME NEW slot \in Slots PROVE Crowded(slot)' <= Cardinality(Requests)
  BY DEF FewCodes
<1>1. req[r].slot \in Slots
  BY RequestType
<1>2. /\ otps' = [otps EXCEPT ![req[r].slot] =
           [i \in Codes |-> IF i \in Invalidated(req[r].slot) THEN "absent" ELSE @[i]]]
      /\ req' = [req EXCEPT ![r].pc = "insert"]
  BY DEF InvalidateActiveOtps
<1>3. req'[r].slot = req[r].slot /\ \A q \in Requests \ {r} : req'[q] = req[q]
  BY <1>2 DEF TypeOK, Request
<1>4. CASE slot = req[r].slot
  <2>1. Unverified(slot)' = {}
    <3> SUFFICES ASSUME NEW i \in Codes, otps'[slot][i] \in {"active", "expired"} PROVE FALSE
      BY DEF Unverified
    <3>1. otps'[slot][i] = IF i \in Unverified(slot) THEN "absent" ELSE otps[slot][i]
      BY <1>1, <1>2, <1>4 DEF Invalidated, TypeOK
    <3>2. QED
      BY <3>1 DEF Unverified
  <2>2. PICK inserting : inserting = Inserting(slot)'
    OBVIOUS
  <2>3. Cardinality(inserting) <= Cardinality(Requests) /\ Cardinality(inserting) \in Nat
    <3>1. inserting \in SUBSET Requests /\ IsFiniteSet(Requests)
      BY <2>2, BoundAssumption DEF Inserting
    <3>2. QED
      BY <3>1, FS_Subset, FS_CardinalityType
  <2>4. Crowded(slot)' = 0 + Cardinality(inserting)
    BY <2>1, <2>2, FS_EmptySet DEF Crowded
  <2>5. QED
    BY <2>3, <2>4
<1>5. CASE slot # req[r].slot
  <2>1. Unverified(slot)' = Unverified(slot)
    BY <1>1, <1>2, <1>5 DEF Unverified, TypeOK
  <2>2. Inserting(slot)' \subseteq Inserting(slot)
    BY <1>3, <1>5, SameInserting
  <2>3. QED
    BY <2>1, <2>2, FewerCodes
<1>6. QED
  BY <1>4, <1>5

LEMMA InsertCounts ==
  ASSUME TypeOK, FewCodes, NEW r \in Requests, InsertOtp(r)
  PROVE  FewCodes'
<1> SUFFICES ASSUME NEW slot \in Slots PROVE Crowded(slot)' <= Cardinality(Requests)
  BY DEF FewCodes
<1>1. PICK new : new = sent[req[r].slot] + 1
  OBVIOUS
<1>2. /\ req[r].slot \in Slots /\ At(r, "insert") /\ Finish(r)
      /\ otps' = [otps EXCEPT ![req[r].slot][new] = "active"]
  BY <1>1, RequestType DEF InsertOtp
<1>3. req'[r].pc # "insert" /\ \A q \in Requests \ {r} : req'[q] = req[q]
  BY <1>2, GoesOn
<1>4. Inserting(slot)' \subseteq Inserting(slot)
  BY <1>3, SameInserting
<1>5. CASE slot = req[r].slot
  <2>1. PICK codes : codes = Unverified(slot)'
    OBVIOUS
  <2>2. PICK inserting : inserting = Inserting(slot)'
    OBVIOUS
  <2>3. codes \subseteq Unverified(slot) \cup {new}
    BY <1>2, <1>5, <2>1 DEF Unverified, TypeOK
  <2>4. r \in Inserting(slot) /\ inserting \subseteq Inserting(slot) \ {r}
    BY <1>2, <1>3, <1>4, <1>5, <2>2 DEF Inserting, At
  <2>5. /\ Cardinality(codes) <= Cardinality(Unverified(slot)) + 1
        /\ Cardinality(codes) \in Nat
    <3>1. PICK more : more = Unverified(slot) \cup {new}
      OBVIOUS
    <3>2. IsFiniteSet(more) /\ Cardinality(more) <= Cardinality(Unverified(slot)) + 1
      <4>1. PICK before : before = Unverified(slot)
        OBVIOUS
      <4>2. IsFiniteSet(before) /\ Cardinality(before) \in Nat
        BY <4>1, FiniteCounts
      <4>3. /\ IsFiniteSet(before \cup {new})
            /\ Cardinality(before \cup {new}) =
                 IF new \in before THEN Cardinality(before) ELSE Cardinality(before) + 1
        BY <4>2, FS_AddElement
      <4>4. QED
        BY <3>1, <4>1, <4>2, <4>3
    <3>3. codes \in SUBSET more
      BY <2>3, <3>1
    <3>4. IsFiniteSet(codes) /\ Cardinality(codes) <= Cardinality(more)
      BY <3>2, <3>3, FS_Subset
    <3>5. Cardinality(codes) \in Nat /\ Cardinality(more) \in Nat
      BY <3>2, <3>4, FS_CardinalityType
    <3>6. QED
      BY <3>2, <3>4, <3>5, FiniteCounts
  <2>6. /\ Cardinality(inserting) <= Cardinality(Inserting(slot)) - 1
        /\ Cardinality(inserting) \in Nat
    <3>1. PICK others : others = Inserting(slot) \ {r}
      OBVIOUS
    <3>2. IsFiniteSet(others) /\ Cardinality(others) = Cardinality(Inserting(slot)) - 1
      BY <2>4, <3>1, FiniteCounts, FS_RemoveElement
    <3>3. inserting \in SUBSET others
      BY <2>4, <3>1
    <3>4. IsFiniteSet(inserting) /\ Cardinality(inserting) <= Cardinality(others)
      BY <3>2, <3>3, FS_Subset
    <3>5. Cardinality(inserting) \in Nat /\ Cardinality(others) \in Nat
      BY <3>2, <3>4, FS_CardinalityType
    <3>6. QED
      BY <3>2, <3>4, <3>5
  <2>7. Crowded(slot)' = Cardinality(codes) + Cardinality(inserting)
    BY <2>1, <2>2 DEF Crowded
  <2>8. Cardinality(Unverified(slot)) + Cardinality(Inserting(slot)) <= Cardinality(Requests)
    BY DEF FewCodes, Crowded
  <2>9. QED
    BY <2>5, <2>6, <2>7, <2>8, FiniteCounts
<1>6. CASE slot # req[r].slot
  <2>1. Unverified(slot)' = Unverified(slot)
    BY <1>2, <1>6 DEF Unverified, TypeOK
  <2>2. QED
    BY <1>4, <2>1, FewerCodes
<1>7. QED
  BY <1>5, <1>6

LEMMA NextCounts ==
  ASSUME Sound, FewCodes, [Next]_vars
  PROVE  FewCodes'
<1>1. TypeOK /\ TypeOK'
  BY TypeStep DEF Sound
<1>2. ASSUME \A slot \in Slots : /\ Unverified(slot)' \subseteq Unverified(slot)
                                 /\ Inserting(slot)' \subseteq Inserting(slot)
      PROVE  FewCodes'
  <2> SUFFICES ASSUME NEW slot \in Slots PROVE Crowded(slot)' <= Cardinality(Requests)
    BY DEF FewCodes
  <2>1. QED
    BY <1>1, <1>2, FewerCodes
<1>3. ASSUME NEW r \in Requests, InvalidateActiveOtps(r) \/ InsertOtp(r) PROVE FewCodes'
  BY <1>1, <1>3, InvalidateCounts, InsertCounts
<1>4. ASSUME NEW r \in Requests, Arrive(r) PROVE FewCodes'
  <2>1. /\ otps' = otps /\ req'[r].pc # "insert"
        /\ \A q \in Requests \ {r} : req'[q] = req[q]
    BY <1>4, ArriveSound
  <2>2. \A slot \in Slots : Inserting(slot)' \subseteq Inserting(slot)
    BY <1>1, <2>1, SameInserting
  <2>3. \A slot \in Slots : Unverified(slot)' = Unverified(slot)
    BY <2>1 DEF Unverified
  <2>4. QED
    BY <1>2, <2>2, <2>3
<1>5. ASSUME NEW r \in Requests,
             ConsumeOtp(r) \/ MarkOtp(r) \/ Save(r) \/ CheckPaid(r) \/ CommitPayment(r) \/ Fail(r)
      PROVE  FewCodes'
  <2>1. req'[r].pc # "insert" /\ \A q \in Requests \ {r} : req'[q] = req[q]
    BY <1>1, <1>5, GoesOn DEF ConsumeOtp, MarkOtp, Save, CheckPaid, CommitPayment, Fail
  <2>2. \A slot \in Slots : Inserting(slot)' \subseteq Inserting(slot)
    BY <1>1, <2>1, SameInserting
  <2>3. \A slot \in Slots : Unverified(slot)' \subseteq Unverified(slot)
    <3>1. CASE otps' = otps
      BY <3>1 DEF Unverified
    <3>2. CASE MarkOtp(r)
      <4>1. otps' = [otps EXCEPT ![req[r].slot][req[r].code] = "verified"]
        BY <3>2 DEF MarkOtp, UsesCode
      <4>2. QED
        BY <1>1, <4>1, RequestType DEF Unverified, TypeOK
    <3>3. QED
      BY <1>5, <3>1, <3>2 DEF ConsumeOtp, Save, CheckPaid, CommitPayment, Fail
  <2>4. QED
    BY <1>2, <2>2, <2>3
<1>6. ASSUME NEW slot \in Slots, NEW i \in Codes, ExpireOtp(slot, i) PROVE FewCodes'
  <2>1. /\ otps[slot][i] = "active" /\ otps' = [otps EXCEPT ![slot][i] = "expired"]
        /\ req' = req
    BY <1>6 DEF ExpireOtp
  <2>2. \A other \in Slots : Unverified(other)' \subseteq Unverified(other)
    BY <1>1, <2>1 DEF Unverified, TypeOK
  <2>3. \A other \in Slots : Inserting(other)' = Inserting(other)
    BY <2>1 DEF Inserting, At
  <2>4. QED
    BY <1>2, <2>2, <2>3
<1>7. CASE UNCHANGED vars
  <2>1. \A slot \in Slots : /\ Unverified(slot)' = Unverified(slot)
                            /\ Inserting(slot)' = Inserting(slot)
    BY <1>7 DEF vars, Unverified, Inserting, At
  <2>2. QED
    BY <1>2, <2>1
<1>8. QED
  BY <1>3, <1>4, <1>5, <1>6, <1>7, NextCases DEF Proceed

\* There are never more unused codes of a channel and purpose than requests at the
\* same time: a send deletes those it finds, and inserts one.
THEOREM UnusedCodesAreFew == Spec => []UnusedCodesBounded
<1>1. Init => FewCodes
  <2> SUFFICES ASSUME Init, NEW slot \in Slots PROVE Crowded(slot) <= Cardinality(Requests)
    BY DEF FewCodes
  <2>1. Unverified(slot) = {} /\ Inserting(slot) = {}
    BY DEF Init, Unverified, Inserting, At, NoRequest
  <2>2. QED
    BY <2>1, FS_EmptySet, FiniteCounts DEF Crowded
<1>2. FewCodes => UnusedCodesBounded
  <2> SUFFICES ASSUME FewCodes, NEW slot \in Slots
               PROVE  Cardinality(Unverified(slot)) <= Cardinality(Requests)
    BY DEF UnusedCodesBounded
  <2>1. Crowded(slot) <= Cardinality(Requests)
    BY DEF FewCodes
  <2>2. QED
    BY <2>1, FiniteCounts DEF Crowded
<1>3. QED
  BY <1>1, <1>2, SoundAlways, NextCounts, PTL DEF Spec
=============================================================================
