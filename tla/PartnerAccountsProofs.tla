----------------------- MODULE PartnerAccountsProofs ------------------------
(***************************************************************************)
(* What PartnerAccounts keeps true for every number of partners, accounts  *)
(* and requests handled at the same time.                                  *)
(*                                                                         *)
(* A request holds rows it read steps ago and saves them whole.  Fits says *)
(* what such a row and the request are; Counts, how many accounts a team   *)
(* may still get; Agrees, what an update of a partner nobody disturbs may  *)
(* rely on.                                                                *)
(***************************************************************************)
EXTENDS PartnerAccounts, FiniteSetTheorems, TLAPS

Waits(x, step) == x.steps # <<>> /\ Head(x.steps) = step

Welcomes == {"changePassword", "welcomeStaff"}
Patches  == {"patchStaff", "patchUser", "removeUser"}
Edits    == {"updateMember", "removeMember"}
Creates  == {"createPartner", "createWithUser", "createStaff", "createUser"}

OfPartners == {"updatePartner", "updateFees", "disablePartner", "welcomePartner", "invite"}
OfAccounts == Welcomes \cup Patches \cup Edits \cup {"updateProfile"}

\* What an update of a partner has left before its last save.
Updating == {<<"readPartner", "readLogin", "readHolder", "partnerEmail", "userEmail",
               "saveLogin", "savePartner">>,
             <<"readLogin", "readHolder", "partnerEmail", "userEmail", "saveLogin",
               "savePartner">>,
             <<"readHolder", "partnerEmail", "userEmail", "saveLogin", "savePartner">>,
             <<"partnerEmail", "userEmail", "saveLogin", "savePartner">>,
             <<"userEmail", "saveLogin", "savePartner">>, <<"saveLogin", "savePartner">>}

\* The statements an operation may have left.
Planned(op, steps) ==
  \/ op = "none" /\ steps = <<>>
  \/ op = "createPartner" /\ steps \in {<<"partnerEmail", "userEmail", "insertPartner">>,
                                        <<"userEmail", "insertPartner">>, <<"insertPartner">>}
  \/ op = "createWithUser" /\ steps \in {<<"partnerEmail", "userEmail", "insertBoth">>,
                                         <<"userEmail", "insertBoth">>, <<"insertBoth">>}
  \/ op = "updatePartner" /\ steps \in Updating \cup {<<"savePartner">>}
  \/ op \in {"updateFees", "disablePartner"} /\
       steps \in {<<"readPartner", "savePartner">>, <<"savePartner">>}
  \/ op = "welcomePartner" /\
       steps \in {<<"readPartner", "readLogin", "readUser", "saveUser">>,
                  <<"readLogin", "readUser", "saveUser">>, <<"readUser", "saveUser">>,
                  <<"saveUser">>}
  \/ op \in Welcomes /\
       steps \in {<<"checkUser", "readUser", "saveUser">>, <<"readUser", "saveUser">>,
                  <<"saveUser">>}
  \/ op = "updateProfile" /\ steps \in {<<"readUser", "saveUser">>, <<"saveUser">>}
  \/ op = "invite" /\ steps \in {<<"countTeam", "userEmail", "insertUser">>,
                                 <<"userEmail", "insertUser">>, <<"insertUser">>}
  \/ op \in {"createStaff", "createUser"} /\
       steps \in {<<"userEmail", "insertUser">>, <<"insertUser">>}
  \/ op \in Edits /\ steps \in {<<"readMember", "saveUser">>, <<"saveUser">>}
  \/ op \in Patches /\ steps \in {<<"readUser", "saveUser">>, <<"saveUser">>,
                                  <<"readUser", "userEmail", "saveUser">>,
                                  <<"userEmail", "saveUser">>}

LEMMA Tails ==
  ASSUME NEW steps
  PROVE  /\ steps = <<"partnerEmail", "userEmail", "insertPartner">> =>
                Tail(steps) = <<"userEmail", "insertPartner">>
         /\ steps = <<"userEmail", "insertPartner">> => Tail(steps) = <<"insertPartner">>
         /\ steps = <<"partnerEmail", "userEmail", "insertBoth">> =>
                Tail(steps) = <<"userEmail", "insertBoth">>
         /\ steps = <<"userEmail", "insertBoth">> => Tail(steps) = <<"insertBoth">>
         /\ steps = <<"readPartner", "readLogin", "readHolder", "partnerEmail", "userEmail",
                      "saveLogin", "savePartner">> =>
                Tail(steps) = <<"readLogin", "readHolder", "partnerEmail",
                                "userEmail", "saveLogin", "savePartner">>
         /\ steps = <<"readLogin", "readHolder", "partnerEmail", "userEmail",
                      "saveLogin", "savePartner">> =>
                Tail(steps) = <<"readHolder", "partnerEmail", "userEmail",
                                "saveLogin", "savePartner">>
         /\ steps = <<"readHolder", "partnerEmail", "userEmail", "saveLogin", "savePartner">> =>
                Tail(steps) = <<"partnerEmail", "userEmail", "saveLogin", "savePartner">>
         /\ steps = <<"partnerEmail", "userEmail", "saveLogin", "savePartner">> =>
                Tail(steps) = <<"userEmail", "saveLogin", "savePartner">>
         /\ steps = <<"userEmail", "saveLogin", "savePartner">> =>
                Tail(steps) = <<"saveLogin", "savePartner">>
         /\ steps = <<"saveLogin", "savePartner">> => Tail(steps) = <<"savePartner">>
         /\ steps = <<"readPartner", "savePartner">> => Tail(steps) = <<"savePartner">>
         /\ steps = <<"readPartner", "readLogin", "readUser", "saveUser">> =>
                Tail(steps) = <<"readLogin", "readUser", "saveUser">>
         /\ steps = <<"readLogin", "readUser", "saveUser">> =>
                Tail(steps) = <<"readUser", "saveUser">>
         /\ steps = <<"readUser", "saveUser">> => Tail(steps) = <<"saveUser">>
         /\ steps = <<"checkUser", "readUser", "saveUser">> =>
                Tail(steps) = <<"readUser", "saveUser">>
         /\ steps = <<"countTeam", "userEmail", "insertUser">> =>
                Tail(steps) = <<"userEmail", "insertUser">>
         /\ steps = <<"userEmail", "insertUser">> => Tail(steps) = <<"insertUser">>
         /\ steps = <<"readMember", "saveUser">> => Tail(steps) = <<"saveUser">>
         /\ steps = <<"readUser", "userEmail", "saveUser">> =>
                Tail(steps) = <<"userEmail", "saveUser">>
         /\ steps = <<"userEmail", "saveUser">> => Tail(steps) = <<"saveUser">>
<1>1. steps = <<"partnerEmail", "userEmail", "insertPartner">> =>
         Tail(steps) = <<"userEmail", "insertPartner">>
  OBVIOUS
<1>2. steps = <<"userEmail", "insertPartner">> => Tail(steps) = <<"insertPartner">>
  OBVIOUS
<1>3. steps = <<"partnerEmail", "userEmail", "insertBoth">> =>
         Tail(steps) = <<"userEmail", "insertBoth">>
  OBVIOUS
<1>4. steps = <<"userEmail", "insertBoth">> => Tail(steps) = <<"insertBoth">>
  OBVIOUS
<1>5. steps = <<"readPartner", "readLogin", "readHolder", "partnerEmail", "userEmail",
                "saveLogin", "savePartner">> =>
         Tail(steps) = <<"readLogin", "readHolder", "partnerEmail",
                         "userEmail", "saveLogin", "savePartner">>
  OBVIOUS
<1>6. steps = <<"readLogin", "readHolder", "partnerEmail", "userEmail",
                "saveLogin", "savePartner">> =>
         Tail(steps) = <<"readHolder", "partnerEmail", "userEmail", "saveLogin", "savePartner">>
  OBVIOUS
<1>7. steps = <<"readHolder", "partnerEmail", "userEmail", "saveLogin", "savePartner">> =>
         Tail(steps) = <<"partnerEmail", "userEmail", "saveLogin", "savePartner">>
  OBVIOUS
<1>8. steps = <<"partnerEmail", "userEmail", "saveLogin", "savePartner">> =>
         Tail(steps) = <<"userEmail", "saveLogin", "savePartner">>
  OBVIOUS
<1>9. steps = <<"userEmail", "saveLogin", "savePartner">> =>
         Tail(steps) = <<"saveLogin", "savePartner">>
  OBVIOUS
<1>10. steps = <<"saveLogin", "savePartner">> => Tail(steps) = <<"savePartner">>
  OBVIOUS
<1>11. steps = <<"readPartner", "savePartner">> => Tail(steps) = <<"savePartner">>
  OBVIOUS
<1>12. steps = <<"readPartner", "readLogin", "readUser", "saveUser">> =>
         Tail(steps) = <<"readLogin", "readUser", "saveUser">>
  OBVIOUS
<1>13. steps = <<"readLogin", "readUser", "saveUser">> =>
         Tail(steps) = <<"readUser", "saveUser">>
  OBVIOUS
<1>14. steps = <<"readUser", "saveUser">> => Tail(steps) = <<"saveUser">>
  OBVIOUS
<1>15. steps = <<"checkUser", "readUser", "saveUser">> =>
         Tail(steps) = <<"readUser", "saveUser">>
  OBVIOUS
<1>16. steps = <<"countTeam", "userEmail", "insertUser">> =>
         Tail(steps) = <<"userEmail", "insertUser">>
  OBVIOUS
<1>17. steps = <<"userEmail", "insertUser">> => Tail(steps) = <<"insertUser">>
  OBVIOUS
<1>18. steps = <<"readMember", "saveUser">> => Tail(steps) = <<"saveUser">>
  OBVIOUS
<1>19. steps = <<"readUser", "userEmail", "saveUser">> =>
         Tail(steps) = <<"userEmail", "saveUser">>
  OBVIOUS
<1>20. steps = <<"userEmail", "saveUser">> => Tail(steps) = <<"saveUser">>
  OBVIOUS
<1>21. QED
  BY <1>1, <1>2, <1>3, <1>4, <1>5, <1>6, <1>7, <1>8, <1>9, <1>10, <1>11, <1>12, <1>13,
     <1>14, <1>15, <1>16, <1>17, <1>18, <1>19, <1>20

LastSteps == {"insertPartner", "insertBoth", "insertUser", "savePartner", "saveUser"}

\* What is left after a statement that is not the last is a plan as well.
LEMMA Onward ==
  ASSUME NEW op, NEW steps, Planned(op, steps), steps # <<>>, Head(steps) \notin LastSteps
  PROVE  Planned(op, Tail(steps)) /\ Tail(steps) # <<>>
<1>1. CASE op = "createPartner"
  <2>1. steps \in {<<"partnerEmail", "userEmail", "insertPartner">>,
                  <<"userEmail", "insertPartner">>}
    BY <1>1 DEF Planned, LastSteps, Welcomes, Edits, Patches
  <2>2. Tail(steps) \in {<<"userEmail", "insertPartner">>, <<"insertPartner">>}
    BY <2>1, Tails, SMTT(30)
  <2>3. QED
    BY <1>1, <2>2 DEF Planned, Welcomes, Edits, Patches
<1>2. CASE op = "createWithUser"
  <2>1. steps \in {<<"partnerEmail", "userEmail", "insertBoth">>, <<"userEmail", "insertBoth">>}
    BY <1>2 DEF Planned, LastSteps, Welcomes, Edits, Patches
  <2>2. Tail(steps) \in {<<"userEmail", "insertBoth">>, <<"insertBoth">>}
    BY <2>1, Tails, SMTT(30)
  <2>3. QED
    BY <1>2, <2>2 DEF Planned, Welcomes, Edits, Patches
<1>3. CASE op = "updatePartner"
  <2>1. steps \in Updating
    BY <1>3 DEF Planned, LastSteps, Welcomes, Edits, Patches
  <2>2. Tail(steps) \in Updating \cup {<<"savePartner">>}
    BY <2>1, Tails, SMTT(30) DEF Updating
  <2>3. QED
    BY <1>3, <2>2 DEF Planned, Updating
<1>4. CASE op \in {"updateFees", "disablePartner"}
  BY <1>4, Tails DEF Planned, LastSteps, Welcomes, Edits, Patches
<1>5. CASE op = "welcomePartner"
  <2>1. steps \in {<<"readPartner", "readLogin", "readUser", "saveUser">>,
                  <<"readLogin", "readUser", "saveUser">>, <<"readUser", "saveUser">>}
    BY <1>5 DEF Planned, LastSteps, Welcomes, Edits, Patches
  <2>2. Tail(steps) \in {<<"readLogin", "readUser", "saveUser">>,
                        <<"readUser", "saveUser">>, <<"saveUser">>}
    BY <2>1, Tails, SMTT(30)
  <2>3. QED
    BY <1>5, <2>2 DEF Planned, Welcomes, Edits, Patches
<1>6. CASE op \in Welcomes
  <2>1. steps \in {<<"checkUser", "readUser", "saveUser">>, <<"readUser", "saveUser">>}
    BY <1>6 DEF Planned, LastSteps, Welcomes, Edits, Patches
  <2>2. Tail(steps) \in {<<"readUser", "saveUser">>, <<"saveUser">>}
    BY <2>1, Tails, SMTT(30)
  <2>3. QED
    BY <1>6, <2>2 DEF Planned, Welcomes, Edits, Patches
<1>7. CASE op = "updateProfile"
  <2>1. steps = <<"readUser", "saveUser">>
    BY <1>7 DEF Planned, LastSteps, Welcomes, Edits, Patches
  <2>2. Tail(steps) = <<"saveUser">>
    BY <2>1, Tails, SMTT(30)
  <2>3. QED
    BY <1>7, <2>2 DEF Planned, Welcomes, Edits, Patches
<1>8. CASE op \in Edits
  <2>1. steps = <<"readMember", "saveUser">>
    BY <1>8 DEF Planned, LastSteps, Welcomes, Edits, Patches
  <2>2. Tail(steps) = <<"saveUser">>
    BY <2>1, Tails, SMTT(30)
  <2>3. QED
    BY <1>8, <2>2 DEF Planned, Welcomes, Edits, Patches
<1>9. CASE op \in Patches
  <2>1. steps \in {<<"readUser", "saveUser">>, <<"readUser", "userEmail", "saveUser">>,
                  <<"userEmail", "saveUser">>}
    BY <1>9 DEF Planned, LastSteps, Welcomes, Edits, Patches
  <2>2. Tail(steps) \in {<<"saveUser">>, <<"userEmail", "saveUser">>}
    BY <2>1, Tails, SMTT(30)
  <2>3. QED
    BY <1>9, <2>2 DEF Planned, Welcomes, Edits, Patches
<1>10. CASE op \in {"invite", "createStaff", "createUser"}
  <2>1. steps \in {<<"countTeam", "userEmail", "insertUser">>, <<"userEmail", "insertUser">>}
    BY <1>10 DEF Planned, LastSteps, Welcomes, Edits, Patches
  <2>2. \/ op = "invite" /\ steps = <<"countTeam", "userEmail", "insertUser">>
        \/ steps = <<"userEmail", "insertUser">>
    BY <1>10, <2>1 DEF Planned, LastSteps, Welcomes, Edits, Patches
  <2>3. \/ op = "invite" /\ Tail(steps) = <<"userEmail", "insertUser">>
        \/ Tail(steps) = <<"insertUser">>
    BY <2>2, Tails, SMTT(30)
  <2>4. CASE op = "invite"
    BY <2>3, <2>4 DEF Planned, Welcomes, Edits, Patches
  <2>5. CASE op \in {"createStaff", "createUser"}
    BY <2>3, <2>5 DEF Planned, Welcomes, Edits, Patches
  <2>6. QED
    BY <1>10, <2>4, <2>5
<1>11. QED
  BY <1>1, <1>2, <1>3, <1>4, <1>5, <1>6, <1>7, <1>8, <1>9, <1>10 DEF Planned

\* Which operations run a statement, and what comes next.
LEMMA Places ==
  ASSUME NEW op, NEW steps, Planned(op, steps), steps # <<>>
  PROVE  /\ Head(steps) = "readPartner" =>
              /\ op \in {"updatePartner", "updateFees", "disablePartner", "welcomePartner"}
              /\ op \in {"updatePartner", "welcomePartner"} => Head(Tail(steps)) = "readLogin"
              /\ op \in {"updateFees", "disablePartner"} => Head(Tail(steps)) = "savePartner"
         /\ Head(steps) = "readLogin" =>
              /\ op \in {"updatePartner", "welcomePartner"}
              /\ Head(Tail(steps)) = (IF op = "updatePartner" THEN "readHolder" ELSE "readUser")
         /\ Head(steps) = "readHolder" => op = "updatePartner" /\ Head(Tail(steps)) = "partnerEmail"
         /\ Head(steps) = "partnerEmail" =>
              /\ op \in {"createPartner", "createWithUser", "updatePartner"}
              /\ Head(Tail(steps)) = "userEmail"
         /\ Head(steps) = "userEmail" =>
              /\ op \in Creates \cup Patches \cup {"invite", "updatePartner"}
              /\ op = "updatePartner" => Head(Tail(steps)) = "saveLogin"
              /\ op \in Patches => Head(Tail(steps)) = "saveUser"
              /\ op \in Creates \cup {"invite"} =>
                   Head(Tail(steps)) \in {"insertPartner", "insertBoth", "insertUser"}
         /\ Head(steps) = "saveLogin" => op = "updatePartner" /\ Head(Tail(steps)) = "savePartner"
         /\ Head(steps) = "savePartner" => op \in {"updatePartner", "updateFees", "disablePartner"}
         /\ Head(steps) = "insertPartner" => op = "createPartner"
         /\ Head(steps) = "insertBoth" => op = "createWithUser"
         /\ Head(steps) = "insertUser" => op \in {"invite", "createStaff", "createUser"}
         /\ Head(steps) = "countTeam" => op = "invite" /\ Head(Tail(steps)) = "userEmail"
         /\ Head(steps) = "checkUser" => op \in Welcomes /\ Head(Tail(steps)) = "readUser"
         /\ Head(steps) = "readUser" =>
              /\ op \in {"welcomePartner"} \cup OfAccounts
              /\ Head(Tail(steps)) \in {"saveUser", "userEmail"}
              /\ op \notin Patches => Head(Tail(steps)) = "saveUser"
         /\ Head(steps) = "readMember" => op \in Edits /\ Head(Tail(steps)) = "saveUser"
         /\ Head(steps) = "saveUser" => op \in {"welcomePartner"} \cup OfAccounts
<1>1. CASE op = "createPartner" \/ op = "createWithUser"
  <2>1. \/ steps = <<"partnerEmail", "userEmail", "insertPartner">>
        \/ steps = <<"userEmail", "insertPartner">>
        \/ steps = <<"partnerEmail", "userEmail", "insertBoth">>
        \/ steps = <<"userEmail", "insertBoth">>
        \/ op = "createPartner" /\ steps = <<"insertPartner">>
        \/ op = "createWithUser" /\ steps = <<"insertBoth">>
    BY <1>1 DEF Planned, Welcomes, Edits, Patches
  <2>2. \/ Head(steps) = "partnerEmail" /\ Head(Tail(steps)) = "userEmail"
        \/ Head(steps) = "userEmail" /\ Head(Tail(steps)) \in {"insertPartner", "insertBoth"}
        \/ op = "createPartner" /\ Head(steps) = "insertPartner"
        \/ op = "createWithUser" /\ Head(steps) = "insertBoth"
    BY <2>1, Tails, SMTT(30)
  <2>3. QED
    BY <1>1, <2>2 DEF Creates, Patches
<1>2. CASE op = "updatePartner"
  <2>1. steps \in Updating \cup {<<"savePartner">>}
    BY <1>2 DEF Planned, Welcomes, Edits, Patches
  <2>2. \/ Head(steps) = "readPartner" /\ Head(Tail(steps)) = "readLogin"
        \/ Head(steps) = "readLogin" /\ Head(Tail(steps)) = "readHolder"
        \/ Head(steps) = "readHolder" /\ Head(Tail(steps)) = "partnerEmail"
        \/ Head(steps) = "partnerEmail" /\ Head(Tail(steps)) = "userEmail"
        \/ Head(steps) = "userEmail" /\ Head(Tail(steps)) = "saveLogin"
        \/ Head(steps) = "saveLogin" /\ Head(Tail(steps)) = "savePartner"
        \/ Head(steps) = "savePartner"
    BY <2>1, Tails, SMTT(30) DEF Updating
  <2>3. QED
    BY <1>2, <2>2 DEF Creates, Patches
<1>3. CASE op \in {"updateFees", "disablePartner"}
  <2>1. steps \in {<<"readPartner", "savePartner">>, <<"savePartner">>}
    BY <1>3 DEF Planned, Welcomes, Edits, Patches
  <2>2. \/ Head(steps) = "readPartner" /\ Head(Tail(steps)) = "savePartner"
        \/ Head(steps) = "savePartner"
    BY <2>1, Tails, SMTT(30)
  <2>3. QED
    BY <1>3, <2>2
<1>4. CASE op = "welcomePartner"
  <2>1. steps \in {<<"readPartner", "readLogin", "readUser", "saveUser">>,
                  <<"readLogin", "readUser", "saveUser">>, <<"readUser", "saveUser">>,
                  <<"saveUser">>}
    BY <1>4 DEF Planned, Welcomes, Edits, Patches
  <2>2. \/ Head(steps) = "readPartner" /\ Head(Tail(steps)) = "readLogin"
        \/ Head(steps) = "readLogin" /\ Head(Tail(steps)) = "readUser"
        \/ Head(steps) = "readUser" /\ Head(Tail(steps)) = "saveUser"
        \/ Head(steps) = "saveUser"
    BY <2>1, Tails, SMTT(30)
  <2>3. QED
    BY <1>4, <2>2
<1>5. CASE op \in Welcomes
  <2>1. steps \in {<<"checkUser", "readUser", "saveUser">>, <<"readUser", "saveUser">>,
                  <<"saveUser">>}
    BY <1>5 DEF Planned, Welcomes, Edits, Patches
  <2>2. \/ Head(steps) = "checkUser" /\ Head(Tail(steps)) = "readUser"
        \/ Head(steps) = "readUser" /\ Head(Tail(steps)) = "saveUser"
        \/ Head(steps) = "saveUser"
    BY <2>1, Tails, SMTT(30)
  <2>3. QED
    BY <1>5, <2>2 DEF Welcomes, OfAccounts
<1>6. CASE op \in Edits \cup {"updateProfile"}
  <2>1. \/ op \in Edits /\ steps = <<"readMember", "saveUser">>
        \/ op = "updateProfile" /\ steps = <<"readUser", "saveUser">>
        \/ steps = <<"saveUser">>
    BY <1>6 DEF Planned, Welcomes, Edits, Patches
  <2>2. \/ op \in Edits /\ Head(steps) = "readMember" /\ Head(Tail(steps)) = "saveUser"
        \/ op = "updateProfile" /\ Head(steps) = "readUser" /\ Head(Tail(steps)) = "saveUser"
        \/ Head(steps) = "saveUser"
    BY <2>1, Tails, SMTT(30)
  <2>3. QED
    BY <1>6, <2>2 DEF OfAccounts, Edits
<1>7. CASE op \in Patches
  <2>1. steps \in {<<"readUser", "saveUser">>, <<"saveUser">>,
                  <<"readUser", "userEmail", "saveUser">>, <<"userEmail", "saveUser">>}
    BY <1>7 DEF Planned, Welcomes, Edits, Patches
  <2>2. \/ Head(steps) = "readUser" /\ Head(Tail(steps)) \in {"saveUser", "userEmail"}
        \/ Head(steps) = "userEmail" /\ Head(Tail(steps)) = "saveUser"
        \/ Head(steps) = "saveUser"
    BY <2>1, Tails, SMTT(30)
  <2>3. QED
    BY <1>7, <2>2 DEF OfAccounts, Patches, Creates
<1>8. CASE op \in {"invite", "createStaff", "createUser"}
  <2>1. \/ op = "invite" /\ steps = <<"countTeam", "userEmail", "insertUser">>
        \/ steps = <<"userEmail", "insertUser">>
        \/ steps = <<"insertUser">>
    BY <1>8 DEF Planned, Welcomes, Edits, Patches
  <2>2. \/ op = "invite" /\ Head(steps) = "countTeam" /\ Head(Tail(steps)) = "userEmail"
        \/ Head(steps) = "userEmail" /\ Head(Tail(steps)) = "insertUser"
        \/ Head(steps) = "insertUser"
    BY <2>1, Tails, SMTT(30)
  <2>3. QED
    BY <1>8, <2>2 DEF Creates, Patches
<1>9. QED
  BY <1>1, <1>2, <1>3, <1>4, <1>5, <1>6, <1>7, <1>8 DEF Planned
Changes == AccountStatuses \cup Partners \cup Roles

RequestWith(op, steps) ==
  [op: {op}, steps: {steps}, partner: Partners \cup {None}, user: Users \cup {None},
   email: Emails \cup {None}, change: Changes \cup {None}, prow: PartnerRows \cup {None},
   row: UserRows \cup {None}]

Coherent(row) ==
  /\ row.temporary => row.mustChange
  /\ row.isActive <=> row.status = "active"

\* The ids and e-mails a request came with.
Asks(x) ==
  /\ x.op \in OfPartners \cup Edits => x.partner \in Partners
  /\ x.op \in OfAccounts => x.user \in Users
  /\ x.op \in Creates \cup {"invite", "updatePartner"} => x.email \in Emails
  /\ x.op \in Creates => x.partner = None
  /\ x.op \in Creates \cup {"invite"} => x.user = None /\ x.row = None

\* What it has read.
Knows(x) ==
  /\ x.op \in {"updatePartner", "updateFees", "disablePartner"} /\ ~Waits(x, "readPartner") =>
       x.prow \in PartnerRows
  /\ x.op = "updatePartner" /\ (Waits(x, "readPartner") \/ Waits(x, "readLogin")) =>
       x.user = None
  /\ x.op = "updatePartner" => (x.user = None <=> x.row = None)
  /\ x.op = "welcomePartner" /\ (Waits(x, "readUser") \/ Waits(x, "saveUser")) =>
       x.user \in Users
  /\ Waits(x, "saveUser") => x.row \in UserRows
  /\ x.op \in Patches /\ Waits(x, "userEmail") => x.row \in UserRows
  /\ x.row # None => Coherent(x.row)

Fits(x) == x \in RequestWith(x.op, x.steps) /\ Planned(x.op, x.steps) /\ Asks(x) /\ Knows(x)

\* The account behind a row that was read is still there; so is a partner.
Refers(x) ==
  /\ x.row # None => x.user \in Users /\ user[x.user] # None
  /\ x.prow # None => x.partner \in Partners /\ partner[x.partner] # None
  /\ x.op = "invite" => partner[x.partner] # None
  /\ x.op = "updatePartner" /\ x.row # None /\ x.row.partner # None =>
       partner[x.row.partner] # None

Tables ==
  /\ partner \in [Partners -> PartnerRows \cup {None}]
  /\ user \in [Users -> UserRows \cup {None}]
  /\ \E n \in 0 .. MaxUsers : \A u \in Users : user[u] # None <=> u <= n
  /\ \A u \in Users : user[u] # None =>
       /\ user[u].partner # None => partner[user[u].partner] # None
       /\ Coherent(user[u])
       /\ \A v \in Users : user[v] # None /\ user[v].email = user[u].email => v = u

Active == {r \in Requests : req[r] # NoRequest}

Sound ==
  /\ Tables
  /\ req = [r \in Requests |-> req[r]]
  /\ \A r \in Requests : Fits(req[r]) /\ Refers(req[r])
  /\ calm \subseteq Partners
  /\ accepted \in 0 .. MaxRequests
  /\ moved \in Nat
  /\ moved + Cardinality(Active) <= accepted

\* The accounts a late save may bring back into a team, and the invitations that
\* have counted it.
Holds(x)        == x.op = "updatePartner" /\ x.row # None /\ ~Waits(x, "savePartner")
Brings(x, p, u) == /\ Holds(x) /\ x.user = u
                   /\ x.row.role = "partner" /\ x.row.partner = p
Invites(x, p)   == x.op = "invite" /\ x.partner = p /\ ~Waits(x, "countTeam")
Returning(p)    == {u \in Users : \E r \in Requests : Brings(req[r], p, u)}
Inviting(p)     == {r \in Requests : Invites(req[r], p)}
Load(p)         == Cardinality(Team(p) \cup Returning(p)) + Cardinality(Inviting(p))

Counts ==
  \A p \in Partners : Load(p) <= MaxTeam + (Cardinality(Requests) - 1) + moved

\* The requests that will save the partner's row, and the update that has saved
\* the login and will save the partner.
Writes(x, p) == x.op \in {"updatePartner", "updateFees", "disablePartner"} /\ x.partner = p
Saves(x, p)  == x.op = "updatePartner" /\ x.partner = p /\ Waits(x, "savePartner")

\* What such a request has read of p is what is there, and its login is p's own.
UpToDate(x, p) ==
  /\ x.prow # None =>
       x.prow.email = IF Saves(x, p) THEN user[Primary(p)].email ELSE partner[p].email
  /\ Holds(x) => /\ x.user \in Team(p) /\ x.row.email = user[x.user].email
                 /\ ~Waits(x, "readHolder") => x.user = Primary(p)
  /\ x.op = "updatePartner" /\ ~Waits(x, "readPartner") /\ ~Waits(x, "readLogin")
       /\ ~Waits(x, "savePartner") => x.row # None

\* A login that anybody holds and that is p's, or will be, is where it was.
InPlace(x, p) ==
  Holds(x) /\ p \in {x.row.partner, user[x.user].partner} =>
    x.row.partner = user[x.user].partner /\ x.row.role = user[x.user].role

Settled(p) ==
  /\ partner[p] # None /\ Team(p) # {}
  /\ \A r, q \in Requests : Writes(req[r], p) /\ Writes(req[q], p) => r = q
  /\ (\A r \in Requests : ~Saves(req[r], p)) => user[Primary(p)].email = partner[p].email
  /\ \A r \in Requests : /\ Writes(req[r], p) => UpToDate(req[r], p)
                         /\ InPlace(req[r], p)

Agrees == \A p \in calm : Settled(p)

Shape(op, p, u, e, c) ==
  /\ p \in Partners \cup {None} /\ u \in Users \cup {None}
  /\ e \in Emails \cup {None} /\ c \in Changes \cup {None}
  /\ \/ op \in Creates /\ p = None /\ u = None /\ e \in Emails
     \/ op \in {"updatePartner", "invite"} /\ p \in Partners /\ u = None /\ e \in Emails
     \/ op \in {"updateFees", "disablePartner", "welcomePartner"} /\ p \in Partners /\ u = None
     \/ op \in Edits /\ p \in Partners /\ u \in Users
     \/ op \in OfAccounts \ Edits /\ u \in Users

\* What the staff and the accounts ask for.
LEMMA Asked ==
  ASSUME Tables, NEW r \in Requests, StaffRequest(r) \/ OwnRequest(r) \/ MemberRequest(r)
  PROVE  \E op, p, u, e, c : /\ Accept(r, Ask(op, p, u, e, c)) /\ Shape(op, p, u, e, c)
                             /\ op = "invite" => partner[p] # None
<1>1. CASE StaffRequest(r)
  <2>1. CASE \E e \in Emails : \E op \in {"createPartner", "createWithUser"} :
               Accept(r, Ask(op, None, None, e, None))
    BY <2>1 DEF Shape, Creates
  <2>2. CASE \E e \in Emails : \E op \in {"createStaff", "createUser"} :
               Accept(r, Ask(op, None, None, e, None))
    BY <2>2 DEF Shape, Creates
  <2>3. CASE \E p \in Partners, e \in Emails : Accept(r, Ask("updatePartner", p, None, e, None))
    BY <2>3 DEF Shape
  <2>4. CASE \E p \in Partners, op \in {"updateFees", "disablePartner", "welcomePartner"} :
               Accept(r, Ask(op, p, None, None, None))
    BY <2>4 DEF Shape
  <2>5. CASE \E u \in Users, e \in Emails, op \in {"patchStaff", "patchUser"} :
               Accept(r, Ask(op, None, u, e, None))
    BY <2>5 DEF Shape, OfAccounts, Patches, Edits
  <2>6. CASE \E u \in Users, c \in AccountStatuses \cup Partners \cup Roles,
                op \in {"patchStaff", "patchUser"} : Accept(r, Ask(op, None, u, None, c))
    BY <2>6 DEF Shape, OfAccounts, Patches, Edits, Changes
  <2>7. CASE \E u \in Users, op \in {"removeUser", "welcomeStaff"} :
               Accept(r, Ask(op, None, u, None, None))
    BY <2>7 DEF Shape, OfAccounts, Patches, Welcomes, Edits
  <2>8. QED
    BY <1>1, <2>1, <2>2, <2>3, <2>4, <2>5, <2>6, <2>7 DEF StaffRequest
<1>2. CASE OwnRequest(r)
  <2>1. PICK v \in Users :
          \/ Accept(r, Ask("updateProfile", None, v, None, None))
          \/ /\ user[v] # None /\ user[v].partner # None
             /\ \E e \in Emails, op \in {"updatePartner", "invite"} :
                  Accept(r, Ask(op, user[v].partner, None, e, None))
          \/ Accept(r, Ask("changePassword", None, v, None, None))
    BY <1>2 DEF OwnRequest, Admitted
  <2>2. CASE \/ Accept(r, Ask("updateProfile", None, v, None, None))
             \/ Accept(r, Ask("changePassword", None, v, None, None))
    BY <2>2 DEF Shape, OfAccounts, Welcomes, Edits
  <2>3. CASE /\ user[v] # None /\ user[v].partner # None
             /\ \E e \in Emails, op \in {"updatePartner", "invite"} :
                  Accept(r, Ask(op, user[v].partner, None, e, None))
    <3>1. user[v].partner \in Partners /\ partner[user[v].partner] # None
      BY <2>3 DEF Tables, UserRows
    <3>2. QED
      BY <2>3, <3>1 DEF Shape
  <2>4. QED
    BY <2>1, <2>2, <2>3
<1>3. CASE MemberRequest(r)
  <2>1. PICK w \in Users, v \in Users :
          /\ user[w] # None /\ user[w].partner # None
          /\ \/ \E c \in AccountStatuses :
                  Accept(r, Ask("updateMember", user[w].partner, v, None, c))
             \/ Accept(r, Ask("removeMember", user[w].partner, v, None, "disabled"))
    BY <1>3 DEF MemberRequest, Admitted
  <2>2. user[w].partner \in Partners
    BY <2>1 DEF Tables, UserRows
  <2>3. "disabled" \in AccountStatuses
    BY DEF AccountStatuses
  <2>4. QED
    BY <2>1, <2>2, <2>3 DEF Shape, Edits, Changes
<1>4. QED
  BY <1>1, <1>2, <1>3

\* Where an operation begins.
LEMMA Begins ==
  ASSUME NEW op, NEW p, NEW u, NEW e, NEW c, Shape(op, p, u, e, c)
  PROVE  /\ Planned(op, Program(op, e)) /\ Program(op, e) # <<>>
         /\ Head(Program(op, e)) # "saveUser"
         /\ op \in OfPartners \ {"invite"} => Head(Program(op, e)) = "readPartner"
         /\ op = "invite" => Head(Program(op, e)) = "countTeam"
         /\ op \in Patches => Head(Program(op, e)) = "readUser"
<1>1. CASE op = "createPartner"
  <2>1. PICK steps : steps = <<"partnerEmail", "userEmail", "insertPartner">>
    OBVIOUS
  <2>2. Program(op, e) = steps
    BY <1>1, <2>1 DEF Program
  <2>3. steps # <<>> /\ Head(steps) = "partnerEmail"
    BY <2>1
  <2>4. Planned(op, steps)
    BY <1>1, <2>1 DEF Planned
  <2>5. QED
    BY <1>1, <2>2, <2>3, <2>4 DEF OfPartners, Patches
<1>2. CASE op = "createWithUser"
  <2>1. PICK steps : steps = <<"partnerEmail", "userEmail", "insertBoth">>
    OBVIOUS
  <2>2. Program(op, e) = steps
    BY <1>2, <2>1 DEF Program
  <2>3. steps # <<>> /\ Head(steps) = "partnerEmail"
    BY <2>1
  <2>4. Planned(op, steps)
    BY <1>2, <2>1 DEF Planned
  <2>5. QED
    BY <1>2, <2>2, <2>3, <2>4 DEF OfPartners, Patches
<1>3. CASE op \in {"createStaff", "createUser"}
  <2>1. PICK steps : steps = <<"userEmail", "insertUser">>
    OBVIOUS
  <2>2. Program(op, e) = steps
    BY <1>3, <2>1 DEF Program
  <2>3. steps # <<>> /\ Head(steps) = "userEmail"
    BY <2>1
  <2>4. Planned(op, steps)
    BY <1>3, <2>1 DEF Planned
  <2>5. QED
    BY <1>3, <2>2, <2>3, <2>4 DEF OfPartners, Patches
<1>4. CASE op = "updatePartner"
  <2>1. PICK steps : steps = <<"readPartner", "readLogin", "readHolder", "partnerEmail",
                           "userEmail", "saveLogin", "savePartner">>
    OBVIOUS
  <2>2. Program(op, e) = steps
    BY <1>4, <2>1 DEF Program
  <2>3. steps # <<>> /\ Head(steps) = "readPartner"
    BY <2>1
  <2>4. Planned(op, steps)
    BY <1>4, <2>1 DEF Planned, Updating
  <2>5. QED
    BY <1>4, <2>2, <2>3, <2>4 DEF OfPartners, Patches
<1>5. CASE op \in {"updateFees", "disablePartner"}
  <2>1. PICK steps : steps = <<"readPartner", "savePartner">>
    OBVIOUS
  <2>2. Program(op, e) = steps
    BY <1>5, <2>1 DEF Program
  <2>3. steps # <<>> /\ Head(steps) = "readPartner"
    BY <2>1
  <2>4. Planned(op, steps)
    BY <1>5, <2>1 DEF Planned
  <2>5. QED
    BY <1>5, <2>2, <2>3, <2>4 DEF OfPartners, Patches
<1>6. CASE op = "welcomePartner"
  <2>1. PICK steps : steps = <<"readPartner", "readLogin", "readUser", "saveUser">>
    OBVIOUS
  <2>2. Program(op, e) = steps
    BY <1>6, <2>1 DEF Program
  <2>3. steps # <<>> /\ Head(steps) = "readPartner"
    BY <2>1
  <2>4. Planned(op, steps)
    BY <1>6, <2>1 DEF Planned
  <2>5. QED
    BY <1>6, <2>2, <2>3, <2>4 DEF OfPartners, Patches
<1>7. CASE op = "invite"
  <2>1. PICK steps : steps = <<"countTeam", "userEmail", "insertUser">>
    OBVIOUS
  <2>2. Program(op, e) = steps
    BY <1>7, <2>1 DEF Program
  <2>3. steps # <<>> /\ Head(steps) = "countTeam"
    BY <2>1
  <2>4. Planned(op, steps)
    BY <1>7, <2>1 DEF Planned
  <2>5. QED
    BY <1>7, <2>2, <2>3, <2>4 DEF OfPartners, Patches
<1>8. CASE op \in Welcomes
  <2>1. PICK steps : steps = <<"checkUser", "readUser", "saveUser">>
    OBVIOUS
  <2>2. Program(op, e) = steps
    BY <1>8, <2>1 DEF Program, Welcomes
  <2>3. steps # <<>> /\ Head(steps) = "checkUser"
    BY <2>1
  <2>4. Planned(op, steps)
    BY <1>8, <2>1 DEF Planned, Welcomes
  <2>5. QED
    BY <1>8, <2>2, <2>3, <2>4 DEF OfPartners, Patches, Welcomes
<1>9. CASE op \in Edits
  <2>1. PICK steps : steps = <<"readMember", "saveUser">>
    OBVIOUS
  <2>2. Program(op, e) = steps
    BY <1>9, <2>1 DEF Program, Edits
  <2>3. steps # <<>> /\ Head(steps) = "readMember"
    BY <2>1
  <2>4. Planned(op, steps)
    BY <1>9, <2>1 DEF Planned, Edits
  <2>5. QED
    BY <1>9, <2>2, <2>3, <2>4 DEF OfPartners, Patches, Edits
<1>10. CASE op = "updateProfile"
  <2>1. PICK steps : steps = <<"readUser", "saveUser">>
    OBVIOUS
  <2>2. Program(op, e) = steps
    BY <1>10, <2>1 DEF Program
  <2>3. steps # <<>> /\ Head(steps) = "readUser"
    BY <2>1
  <2>4. Planned(op, steps)
    BY <1>10, <2>1 DEF Planned
  <2>5. QED
    BY <1>10, <2>2, <2>3, <2>4 DEF OfPartners, Patches
<1>11. CASE op \in Patches
  BY <1>11 DEF Program, Planned, Patches, OfPartners
<1>12. QED
  BY <1>1, <1>2, <1>3, <1>4, <1>5, <1>6, <1>7, <1>8, <1>9, <1>10, <1>11
     DEF Shape, OfAccounts, Creates

LEMMA NoRequestFits == Fits(NoRequest) /\ Refers(NoRequest)
<1>1. NoRequest \in RequestWith(NoRequest.op, NoRequest.steps)
  BY DEF NoRequest, RequestWith
<1>2. /\ NoRequest.op = "none" /\ NoRequest.steps = <<>> /\ NoRequest.user = None
      /\ NoRequest.row = None /\ NoRequest.prow = None
  BY DEF NoRequest
<1>3. Planned("none", <<>>)
  BY DEF Planned
<1>4. Asks(NoRequest)
  BY <1>2 DEF Asks, OfPartners, OfAccounts, Welcomes, Patches, Edits, Creates
<1>5. Knows(NoRequest)
  BY <1>2 DEF Knows, Waits
<1>6. Refers(NoRequest)
  BY <1>2 DEF Refers
<1>7. QED
  BY <1>1, <1>2, <1>3, <1>4, <1>5, <1>6 DEF Fits

\* A request that was accepted, at its first statement.
Fresh(x) ==
  /\ Fits(x) /\ x.steps # <<>> /\ x.op # "none"
  /\ x.row = None /\ x.prow = None
  /\ x.op = "updatePartner" => Waits(x, "readPartner")
  /\ x.op \in {"updateFees", "disablePartner"} => Waits(x, "readPartner")
  /\ x.op = "invite" => Waits(x, "countTeam") /\ partner[x.partner] # None

LEMMA AcceptFresh ==
  ASSUME Tables, NEW r \in Requests, StaffRequest(r) \/ OwnRequest(r) \/ MemberRequest(r)
  PROVE  /\ req[r] = NoRequest /\ accepted < MaxRequests /\ accepted' = accepted + 1
         /\ UNCHANGED <<partner, user, moved>>
         /\ \E x : /\ Fresh(x) /\ Become(r, x)
                   /\ calm' = {p \in calm : p \in About(x) => ~Busy(p)}
<1>1. PICK op, p, u, e, c : /\ Accept(r, Ask(op, p, u, e, c)) /\ Shape(op, p, u, e, c)
                            /\ op = "invite" => partner[p] # None
  BY Asked
<1>2. PICK a : a = Ask(op, p, u, e, c)
  OBVIOUS
<1>3. /\ a.op = op /\ a.partner = p /\ a.user = u /\ a.email = e /\ a.change = c
      /\ a.prow = None /\ a.row = None
      /\ a = [op |-> op, steps |-> <<>>, partner |-> p, user |-> u, email |-> e, change |-> c,
              prow |-> None, row |-> None]
  BY <1>2 DEF Ask, NoRequest
<1>4. PICK x : x = [a EXCEPT !.steps = Program(op, e)]
  OBVIOUS
<1>5. /\ x.op = op /\ x.steps = Program(op, e) /\ x.partner = p /\ x.user = u /\ x.email = e
      /\ x.prow = None /\ x.row = None /\ x \in RequestWith(op, Program(op, e))
  BY <1>1, <1>3, <1>4 DEF Shape, RequestWith
<1>6. Planned(op, x.steps) /\ x.steps # <<>>
  BY <1>1, <1>5, Begins
<1>7. Asks(x)
  BY <1>1, <1>5 DEF Shape, Asks, OfPartners, OfAccounts, Welcomes, Patches, Edits, Creates
<1>8. /\ ~Waits(x, "saveUser")
      /\ op \in OfPartners \ {"invite"} => Waits(x, "readPartner")
      /\ op = "invite" => Waits(x, "countTeam")
      /\ op \in Patches => Waits(x, "readUser")
  BY <1>1, <1>5, <1>6, Begins DEF Waits
<1>9. op = "updatePartner" => u = None
  BY <1>1 DEF Shape, OfAccounts, Welcomes, Patches, Edits, Creates
<1>10. Knows(x)
  BY <1>5, <1>8, <1>9 DEF Knows, OfPartners, Waits
<1>11. op # "none"
  BY <1>1 DEF Shape, OfAccounts, Welcomes, Patches, Edits, Creates
<1>12. Fresh(x)
  BY <1>1, <1>5, <1>6, <1>7, <1>8, <1>10, <1>11 DEF Fresh, Fits, OfPartners
<1>13. Become(r, x) /\ About(x) = About(a)
  BY <1>1, <1>2, <1>3, <1>4, <1>5 DEF Accept, About
<1>14. QED
  BY <1>1, <1>2, <1>12, <1>13 DEF Accept

-----------------------------------------------------------------------------
(* What each statement makes of its request.                               *)

\* x is w with its first statement done.
Moves(w, x) ==
  /\ x \in RequestWith(x.op, x.steps) /\ Planned(x.op, x.steps) /\ x.steps # <<>>
  /\ x.steps = Tail(w.steps)
  /\ x.op = w.op /\ x.partner = w.partner /\ x.email = w.email /\ x.change = w.change

Same(w, x) == x.user = w.user /\ x.prow = w.prow /\ x.row = w.row

LEMMA ContinueMoves ==
  ASSUME NEW r \in Requests, Fits(req[r]), req[r].steps # <<>>,
         Head(req[r].steps) \notin LastSteps,
         NEW y, y \in RequestWith(req[r].op, req[r].steps), Continue(r, y),
         y.partner = req[r].partner, y.email = req[r].email, y.change = req[r].change
  PROVE  \E x : Become(r, x) /\ Moves(req[r], x) /\ Same(y, x)
<1>1. PICK w : w = req[r]
  OBVIOUS
<1>2. PICK x : x = [y EXCEPT !.steps = Tail(@)]
  OBVIOUS
<1>3. /\ x \in RequestWith(x.op, x.steps) /\ x.steps = Tail(w.steps)
      /\ x.op = w.op /\ x.partner = w.partner /\ x.email = w.email /\ x.change = w.change
      /\ Same(y, x)
  BY <1>1, <1>2 DEF RequestWith, Same
<1>4. Planned(x.op, x.steps) /\ x.steps # <<>>
  BY <1>1, <1>3, Onward DEF Fits
<1>5. Become(r, x)
  BY <1>2 DEF Continue
<1>6. QED
  BY <1>1, <1>3, <1>4, <1>5 DEF Moves

\* A statement that goes on with what there is.
GoesOn(r) == Finish(r) \/ \E x : Become(r, x) /\ Moves(req[r], x) /\ Same(req[r], x)

LEMMA ChecksGoOn ==
  ASSUME Sound, NEW r \in Requests,
         CheckPartnerEmail(r) \/ CheckUserEmail(r) \/ CountTeam(r) \/ CheckUser(r)
  PROVE  GoesOn(r)
<1>1. CASE Finish(r)
  BY <1>1 DEF GoesOn
<1>2. CASE ~Finish(r)
  <2>1. /\ Fits(req[r]) /\ req[r].steps # <<>> /\ Continue(r, req[r])
        /\ Head(req[r].steps) \in {"partnerEmail", "userEmail", "countTeam", "checkUser"}
    BY <1>2 DEF Sound, CheckPartnerEmail, CheckUserEmail, CountTeam, CheckUser, At
  <2>2. req[r] \in RequestWith(req[r].op, req[r].steps)
    BY <2>1 DEF Fits
  <2>3. QED
    BY <2>1, <2>2, ContinueMoves DEF LastSteps, GoesOn
<1>3. QED
  BY <1>1, <1>2

LEMMA ReadPartnerGoesOn ==
  ASSUME Sound, NEW r \in Requests, ReadPartner(r)
  PROVE  \/ Finish(r)
         \/ /\ partner[req[r].partner] # None
            /\ \E x : /\ Become(r, x) /\ Moves(req[r], x)
                      /\ x.user = req[r].user /\ x.row = req[r].row
                      /\ x.prow \in PartnerRows /\ x.prow.email = partner[req[r].partner].email
<1>1. CASE ~Finish(r)
  <2>1. /\ Fits(req[r]) /\ req[r].steps # <<>> /\ Head(req[r].steps) = "readPartner"
        /\ partner[req[r].partner] # None
    BY <1>1 DEF Sound, ReadPartner, At
  <2>2. req[r].partner \in Partners
    BY <2>1, Places DEF Fits, Asks, OfPartners
  <2>3. PICK row : row = partner[req[r].partner]
    OBVIOUS
  <2>4. row \in PartnerRows
    BY <2>1, <2>2, <2>3 DEF Sound, Tables
  <2>5. PICK prow : prow = IF req[r].op = "disablePartner"
                           THEN [row EXCEPT !.status = "disabled"] ELSE row
    OBVIOUS
  <2>6. prow \in PartnerRows /\ prow.email = row.email
    BY <2>4, <2>5 DEF PartnerRows
  <2>7. PICK y : y = [req[r] EXCEPT !.prow = prow]
    OBVIOUS
  <2>8. Continue(r, y)
    BY <1>1, <2>1, <2>3, <2>5, <2>7 DEF ReadPartner
  <2>9. /\ y \in RequestWith(req[r].op, req[r].steps)
        /\ y.partner = req[r].partner /\ y.email = req[r].email /\ y.change = req[r].change
        /\ y.user = req[r].user /\ y.row = req[r].row /\ y.prow = prow
    BY <2>1, <2>6, <2>7 DEF Fits, RequestWith
  <2>10. PICK x : Become(r, x) /\ Moves(req[r], x) /\ Same(y, x)
    BY <2>1, <2>8, <2>9, ContinueMoves DEF LastSteps
  <2>11. QED
    BY <2>1, <2>3, <2>6, <2>9, <2>10 DEF Same
<1>2. QED
  BY <1>1

LEMMA ReadLoginGoesOn ==
  ASSUME Sound, NEW r \in Requests, ReadLogin(r)
  PROVE  \/ Finish(r)
         \/ \E x : /\ Become(r, x) /\ Moves(req[r], x) /\ x.prow = req[r].prow
                   /\ \/ x.user = None /\ x.row = None /\ Team(req[r].partner) = {}
                           /\ req[r].op # "welcomePartner"
                      \/ /\ x.user \in Team(req[r].partner)
                         /\ x.row = user[x.user] /\ x.row \in UserRows
<1>1. CASE ~Finish(r)
  <2>1. Fits(req[r]) /\ req[r].steps # <<>> /\ Head(req[r].steps) = "readLogin"
    BY DEF Sound, ReadLogin, At
  <2>2. PICK u \in IF Team(req[r].partner) = {} THEN {None} ELSE Team(req[r].partner) :
          /\ ~(req[r].op = "welcomePartner" /\ u = None)
          /\ Continue(r, [req[r] EXCEPT !.user = u, !.row = IF u = None THEN None ELSE user[u]])
    BY <1>1 DEF ReadLogin
  <2>3. None \notin Users
    BY PartnerAssumption
  <2>4. PICK row : row = IF u = None THEN None ELSE user[u]
    OBVIOUS
  <2>5. /\ u \in Users \cup {None} /\ row \in UserRows \cup {None}
        /\ u # None => u \in Team(req[r].partner) /\ row = user[u] /\ row \in UserRows
        /\ u = None => row = None /\ Team(req[r].partner) = {}
    BY <2>2, <2>3, <2>4 DEF Sound, Tables, Team
  <2>6. PICK y : y = [req[r] EXCEPT !.user = u, !.row = row]
    OBVIOUS
  <2>7. Continue(r, y)
    BY <2>2, <2>4, <2>6
  <2>8. /\ y \in RequestWith(req[r].op, req[r].steps)
        /\ y.partner = req[r].partner /\ y.email = req[r].email /\ y.change = req[r].change
        /\ y.user = u /\ y.row = row /\ y.prow = req[r].prow
    BY <2>1, <2>5, <2>6 DEF Fits, RequestWith
  <2>9. PICK x : Become(r, x) /\ Moves(req[r], x) /\ Same(y, x)
    BY <2>1, <2>7, <2>8, ContinueMoves DEF LastSteps
  <2>10. QED
    BY <2>2, <2>5, <2>8, <2>9 DEF Same
<1>2. QED
  BY <1>1

\* The login an update goes on with.
Chosen(w, x) ==
  \/ x.user = w.user /\ x.row = w.row
       /\ \/ w.user # None /\ w.row.email = w.prow.email
          \/ UsersWith(w.prow.email) = {}
  \/ /\ x.user \in UsersWith(w.prow.email)
     /\ x.row = (IF x.user = w.user THEN w.row ELSE user[x.user]) /\ x.row \in UserRows

LEMMA ReadHolderGoesOn ==
  ASSUME Sound, NEW r \in Requests, ReadHolder(r)
  PROVE  \E x : /\ Become(r, x) /\ x.prow = req[r].prow /\ x.op = req[r].op
                /\ x.partner = req[r].partner /\ x.email = req[r].email
                /\ x \in RequestWith(x.op, x.steps) /\ Planned(x.op, x.steps)
                /\ Chosen(req[r], x)
                /\ \/ Waits(x, "savePartner") /\ req[r].email = req[r].prow.email
                   \/ Waits(x, "partnerEmail")
<1>1. PICK w : w = req[r]
  OBVIOUS
<1>2. /\ Fits(w) /\ w.steps # <<>> /\ Head(w.steps) = "readHolder" /\ w.op = "updatePartner"
  BY <1>1, Places DEF Sound, ReadHolder, At, Fits
<1>3. /\ w \in RequestWith(w.op, w.steps) /\ w.prow \in PartnerRows
      /\ w.user = None <=> w.row = None
  BY <1>2 DEF Fits, Knows, Waits
<1>4. PICK found : found = [u |-> w.user, row |-> w.row]
  OBVIOUS
<1>5. found.u = w.user /\ found.row = w.row
  BY <1>4
<1>6. PICK login : /\ login \in (IF w.user # None /\ found.row.email = w.prow.email THEN {found}
                                 ELSE {IF u = w.user THEN found ELSE [u |-> u, row |-> user[u]] :
                                         u \in LoginsFor(w.prow.email, w.user)})
                   /\ IF w.email = w.prow.email
                      THEN Become(r, [[w EXCEPT !.user = login.u, !.row = login.row]
                                        EXCEPT !.steps = <<"savePartner">>])
                      ELSE Continue(r, [w EXCEPT !.user = login.u, !.row = login.row])
  BY <1>1, <1>4 DEF ReadHolder
<1>7. PICK u, row : u = login.u /\ row = login.row
  OBVIOUS
<1>8. /\ \/ u = w.user /\ row = w.row /\ w.user # None /\ w.row.email = w.prow.email
         \/ u = w.user /\ row = w.row /\ UsersWith(w.prow.email) = {}
         \/ /\ u \in UsersWith(w.prow.email)
            /\ row = IF u = w.user THEN w.row ELSE user[u]
  <2>1. CASE login = found
    BY <1>5, <1>6, <1>7, <2>1 DEF LoginsFor
  <2>2. CASE login # found
    <3>1. PICK v \in LoginsFor(w.prow.email, w.user) :
            v # w.user /\ login = [u |-> v, row |-> user[v]]
      BY <1>6, <2>2
    <3>2. u = v /\ row = user[v] /\ v \in UsersWith(w.prow.email)
      BY <1>7, <3>1 DEF LoginsFor
    <3>3. QED
      BY <3>1, <3>2
  <2>3. QED
    BY <2>1, <2>2
<1>9. None \notin Users
  BY PartnerAssumption
<1>10. /\ u \in Users \cup {None} /\ row \in UserRows \cup {None}
       /\ u \in UsersWith(w.prow.email) => row \in UserRows
  BY <1>3, <1>8, <1>9 DEF RequestWith, Sound, Tables, UsersWith
<1>11. PICK y : y = [w EXCEPT !.user = u, !.row = row]
  OBVIOUS
<1>12. /\ y \in RequestWith(w.op, w.steps)
       /\ y.partner = w.partner /\ y.email = w.email /\ y.change = w.change
       /\ y.user = u /\ y.row = row /\ y.prow = w.prow /\ y.op = w.op
  BY <1>3, <1>10, <1>11 DEF RequestWith
<1>13. CASE w.email = w.prow.email
  <2>1. PICK steps : steps = <<"savePartner">>
    OBVIOUS
  <2>2. PICK x : x = [y EXCEPT !.steps = steps]
    OBVIOUS
  <2>3. Become(r, x)
    BY <1>6, <1>7, <1>11, <1>13, <2>1, <2>2
  <2>4. /\ x \in RequestWith(x.op, x.steps) /\ x.steps = steps /\ x.op = w.op
        /\ x.partner = w.partner /\ x.email = w.email /\ x.prow = w.prow
        /\ x.user = u /\ x.row = row
    BY <1>12, <2>2 DEF RequestWith
  <2>5. steps # <<>> /\ Head(steps) = "savePartner" /\ Planned("updatePartner", steps)
    BY <2>1 DEF Planned
  <2>6. QED
    BY <1>1, <1>2, <1>8, <1>10, <1>13, <2>3, <2>4, <2>5 DEF Waits, Chosen
<1>14. CASE w.email # w.prow.email
  <2>1. Continue(r, y)
    BY <1>6, <1>7, <1>11, <1>14
  <2>2. PICK x : Become(r, x) /\ Moves(w, x) /\ Same(y, x)
    BY <1>1, <1>2, <1>12, <2>1, ContinueMoves DEF LastSteps
  <2>3. Head(x.steps) = "partnerEmail"
    BY <1>2, <2>2, Places DEF Fits, Moves
  <2>4. QED
    BY <1>1, <1>8, <1>10, <1>12, <2>2, <2>3 DEF Waits, Chosen, Moves, Same
<1>15. QED
  BY <1>13, <1>14

LEMMA SaveLoginGoesOn ==
  ASSUME Sound, NEW r \in Requests, SaveLogin(r)
  PROVE  \/ Finish(r) /\ UNCHANGED <<user, calm>>
         \/ \E x : /\ Become(r, x) /\ Moves(req[r], x) /\ Waits(x, "savePartner")
                   /\ x.user = req[r].user /\ x.row = req[r].row
                   /\ x.prow \in PartnerRows /\ x.prow.email = req[r].email
                   /\ \/ req[r].user = None /\ UNCHANGED <<user, calm>>
                      \/ /\ req[r].user # None
                         /\ UsersWith(req[r].email) \subseteq {req[r].user}
                         /\ user' = [user EXCEPT ![req[r].user] =
                                       [req[r].row EXCEPT !.email = req[r].email]]
                         /\ calm' = IF req[r].partner \in calm THEN calm
                                    ELSE calm \ {user[req[r].user].partner}
<1>1. PICK w : w = req[r]
  OBVIOUS
<1>2. /\ Fits(w) /\ w.steps # <<>> /\ Head(w.steps) = "saveLogin" /\ w.op = "updatePartner"
  BY <1>1, Places DEF Sound, SaveLogin, At, Fits
<1>3. /\ w \in RequestWith(w.op, w.steps) /\ w.prow \in PartnerRows /\ w.email \in Emails
  BY <1>2 DEF Fits, Knows, Waits, Asks
<1>4. PICK prow : prow = [w.prow EXCEPT !.email = w.email]
  OBVIOUS
<1>5. PICK y : y = [w EXCEPT !.prow = prow]
  OBVIOUS
<1>6. prow \in PartnerRows /\ prow.email = w.email
  BY <1>3, <1>4 DEF PartnerRows
<1>7. /\ y \in RequestWith(w.op, w.steps)
      /\ y.partner = w.partner /\ y.email = w.email /\ y.change = w.change
      /\ y.user = w.user /\ y.row = w.row /\ y.prow = prow
  BY <1>3, <1>5, <1>6 DEF RequestWith
<1>8. y = [w EXCEPT !.prow.email = w.email]
  BY <1>3, <1>4, <1>5 DEF RequestWith
<1>9. ASSUME Continue(r, y)
      PROVE  \E x : /\ Become(r, x) /\ Moves(req[r], x) /\ Waits(x, "savePartner")
                    /\ x.user = req[r].user /\ x.row = req[r].row
                    /\ x.prow \in PartnerRows /\ x.prow.email = req[r].email
  <2>1. PICK x : Become(r, x) /\ Moves(w, x) /\ Same(y, x)
    BY <1>1, <1>2, <1>7, <1>9, ContinueMoves DEF LastSteps
  <2>2. Waits(x, "savePartner")
    BY <1>2, <2>1, Places DEF Fits, Moves, Waits
  <2>3. QED
    BY <1>1, <1>6, <1>7, <2>1, <2>2 DEF Same
<1>10. CASE w.user = None
  BY <1>1, <1>8, <1>9, <1>10 DEF SaveLogin
<1>11. CASE w.user # None /\ UsersWith(w.email) \subseteq {w.user}
  BY <1>1, <1>8, <1>9, <1>11 DEF SaveLogin
<1>12. CASE w.user # None /\ ~(UsersWith(w.email) \subseteq {w.user})
  BY <1>1, <1>12 DEF SaveLogin
<1>13. QED
  BY <1>10, <1>11, <1>12

\* Every entity that is saved is a coherent row when the one it was read from is.
LEMMA ChangedRow ==
  ASSUME NEW w, w \in RequestWith(w.op, w.steps), NEW row \in UserRows, Coherent(row)
  PROVE  Changed(w, row) \in UserRows /\ Coherent(Changed(w, row))
<1>1. ASSUME NEW given \in BOOLEAN
      PROVE  WithPassword(row, given) \in UserRows /\ Coherent(WithPassword(row, given))
  BY DEF UserRows, Coherent, WithPassword
<1>2. ASSUME NEW status \in AccountStatuses
      PROVE  WithStatus(row, status) \in UserRows /\ Coherent(WithStatus(row, status))
  BY DEF UserRows, Coherent, WithStatus, SyncAccountActiveFlag
<1>3. ASSUME NEW role \in Roles
      PROVE  [row EXCEPT !.role = role] \in UserRows /\ Coherent([row EXCEPT !.role = role])
  BY DEF UserRows, Coherent
<1>4. ASSUME NEW p \in Partners
      PROVE  [row EXCEPT !.partner = p] \in UserRows /\ Coherent([row EXCEPT !.partner = p])
  BY DEF UserRows, Coherent
<1>5. ASSUME NEW e \in Emails
      PROVE  [row EXCEPT !.email = e] \in UserRows /\ Coherent([row EXCEPT !.email = e])
  BY DEF UserRows, Coherent
<1>6. Disabled \in AccountStatuses
  BY DEF Disabled, AccountStatuses
<1>7. w.email \in Emails \cup {None}
  BY DEF RequestWith
<1>8. CASE w.op \in {"welcomePartner", "welcomeStaff"}
  <2>1. Changed(w, row) = WithPassword(row, TRUE)
    BY <1>8 DEF Changed
  <2>2. QED
    BY <1>1, <2>1
<1>9. CASE w.op = "changePassword"
  <2>1. Changed(w, row) = WithPassword(row, FALSE)
    BY <1>9 DEF Changed
  <2>2. QED
    BY <1>1, <2>1
<1>10. CASE w.op \in {"removeUser", "removeMember"}
  <2>1. Changed(w, row) = WithStatus(row, Disabled)
    BY <1>10 DEF Changed
  <2>2. QED
    BY <1>2, <1>6, <2>1
<1>11. CASE w.op \notin {"welcomePartner", "welcomeStaff", "changePassword", "removeUser",
                         "removeMember"}
  <2>1. Changed(w, row) = Patched(w.change, w.email, row)
    BY <1>11 DEF Changed
  <2>2. CASE w.change \in AccountStatuses
    <3>1. w.change \notin Roles \cup Partners \cup {None}
      BY <2>2, PartnerAssumption DEF AccountStatuses, Roles
    <3>2. Patched(w.change, w.email, row) = WithStatus(row, w.change)
      BY <2>2, <3>1 DEF Patched
    <3>3. QED
      BY <1>2, <2>1, <2>2, <3>2
  <2>3. CASE w.change \in Roles
    <3>1. w.change \notin AccountStatuses \cup Partners \cup {None}
      BY <2>3, PartnerAssumption DEF AccountStatuses, Roles
    <3>2. Patched(w.change, w.email, row) = [row EXCEPT !.role = w.change]
      BY <2>3, <3>1 DEF Patched
    <3>3. QED
      BY <1>3, <2>1, <2>3, <3>2
  <2>4. CASE w.change \in Partners
    <3>1. w.change \notin AccountStatuses \cup Roles \cup {None}
      BY <2>4, PartnerAssumption
    <3>2. Patched(w.change, w.email, row) = [row EXCEPT !.partner = w.change]
      BY <2>4, <3>1 DEF Patched
    <3>3. QED
      BY <1>4, <2>1, <2>4, <3>2
  <2>5. CASE w.change = None
    <3>1. w.change \notin AccountStatuses \cup Roles \cup Partners
      BY <2>5, PartnerAssumption
    <3>2. Patched(w.change, w.email, row) =
            IF w.email = None THEN row ELSE [row EXCEPT !.email = w.email]
      BY <2>5, <3>1 DEF Patched
    <3>3. QED
      BY <1>5, <1>7, <2>1, <3>2
  <2>6. w.change \in Changes \cup {None}
    BY DEF RequestWith
  <2>7. QED
    BY <2>2, <2>3, <2>4, <2>5, <2>6 DEF Changes
<1>12. QED
  BY <1>8, <1>9, <1>10, <1>11

LEMMA ReadRowGoesOn ==
  ASSUME Sound, NEW r \in Requests, ReadUser(r) \/ ReadMember(r)
  PROVE  \/ Finish(r)
         \/ /\ req[r].user \in Users /\ user[req[r].user] \in UserRows
            /\ \E x : /\ Become(r, x) /\ Moves(req[r], x)
                      /\ x.user = req[r].user /\ x.prow = req[r].prow
                      /\ x.row \in UserRows /\ Coherent(x.row)
                      /\ x.row = Changed(req[r], user[req[r].user])
<1>1. CASE ~Finish(r)
  <2>1. PICK w : w = req[r]
    OBVIOUS
  <2>2. /\ Fits(w) /\ w.steps # <<>> /\ Head(w.steps) \in {"readUser", "readMember"}
        /\ Continue(r, [w EXCEPT !.row = Changed(w, user[w.user])])
        /\ user[w.user] # None \/ w.user \in Team(w.partner)
    BY <1>1, <2>1 DEF Sound, ReadUser, ReadMember, At
  <2>3. w.op \in {"welcomePartner"} \cup OfAccounts
    BY <2>2, Places DEF Fits, OfAccounts
  <2>4. w.user \in Users
    BY <2>2, <2>3, Places DEF Fits, Asks, Knows, Waits, OfAccounts, Edits
  <2>5. PICK old : old = user[w.user]
    OBVIOUS
  <2>6. old \in UserRows /\ Coherent(old)
    BY <2>2, <2>4, <2>5 DEF Sound, Tables, Team
  <2>7. PICK row : row = Changed(w, old)
    OBVIOUS
  <2>8. w \in RequestWith(w.op, w.steps)
    BY <2>2 DEF Fits
  <2>9. row \in UserRows /\ Coherent(row)
    BY <2>6, <2>7, <2>8, ChangedRow
  <2>10. PICK y : y = [w EXCEPT !.row = row]
    OBVIOUS
  <2>11. /\ y \in RequestWith(w.op, w.steps)
         /\ y.partner = w.partner /\ y.email = w.email /\ y.change = w.change
         /\ y.user = w.user /\ y.prow = w.prow /\ y.row = row
    BY <2>8, <2>9, <2>10 DEF RequestWith
  <2>12. Continue(r, y)
    BY <2>2, <2>5, <2>7, <2>10
  <2>13. PICK x : Become(r, x) /\ Moves(w, x) /\ Same(y, x)
    BY <2>1, <2>2, <2>11, <2>12, ContinueMoves DEF LastSteps
  <2>14. QED
    BY <2>1, <2>4, <2>5, <2>6, <2>7, <2>9, <2>11, <2>13 DEF Same
<1>2. QED
  BY <1>1

-----------------------------------------------------------------------------
(* What a request may rely on is kept by its own statements and by others. *)

LEMMA AsksKept ==
  ASSUME NEW w, NEW x, Asks(w), x.op = w.op, x.partner = w.partner, x.email = w.email,
         w.op \in OfAccounts \cup Creates \cup {"invite"} => x.user = w.user,
         w.op \in Creates \cup {"invite"} => x.row = w.row
  PROVE  Asks(x)
  BY DEF Asks

Leaves(r) == \E x : Fits(x) /\ Become(r, x) /\ Refers(x)'

LEMMA FinishLeaves ==
  ASSUME NEW r \in Requests, Finish(r)
  PROVE  Leaves(r)
<1>1. Refers(NoRequest)'
  BY DEF Refers, NoRequest
<1>2. QED
  BY <1>1, NoRequestFits DEF Leaves, Finish

LEMMA ChecksLeave ==
  ASSUME Sound, NEW r \in Requests,
         CheckPartnerEmail(r) \/ CheckUserEmail(r) \/ CountTeam(r) \/ CheckUser(r)
  PROVE  Leaves(r)
<1>1. CASE Finish(r)
  BY <1>1, FinishLeaves
<1>2. CASE \E x : Become(r, x) /\ Moves(req[r], x) /\ Same(req[r], x)
  <2>1. PICK w : w = req[r]
    OBVIOUS
  <2>2. PICK x : Become(r, x) /\ Moves(w, x) /\ Same(w, x)
    BY <1>2, <2>1
  <2>3. /\ Fits(w) /\ Refers(w) /\ w.steps # <<>>
        /\ Head(w.steps) \in {"partnerEmail", "userEmail", "countTeam", "checkUser"}
    BY <2>1 DEF Sound, CheckPartnerEmail, CheckUserEmail, CountTeam, CheckUser, At
  <2>4. Asks(x)
    BY <2>2, <2>3, AsksKept DEF Fits, Moves, Same
  <2>5. Planned(w.op, w.steps)
    BY <2>3 DEF Fits
  <2>6. x.op \notin {"updateFees", "disablePartner", "welcomePartner"}
    BY <2>2, <2>3, <2>5, Places DEF Moves, Welcomes, Patches, Creates
  <2>7. x.op = "updatePartner" => Head(x.steps) \in {"userEmail", "saveLogin"}
    BY <2>2, <2>3, <2>5, Places DEF Moves, Welcomes, Patches, Creates
  <2>8. /\ Head(x.steps) = "saveUser" => w.op \in Patches /\ Waits(w, "userEmail")
        /\ Head(x.steps) = "userEmail" => x.op \notin Patches
    BY <2>2, <2>3, <2>5, Places DEF Moves, Welcomes, Patches, Creates, OfAccounts, Edits, Waits
  <2>9. Knows(x)
    BY <2>2, <2>3, <2>6, <2>7, <2>8 DEF Knows, Fits, Moves, Same, Waits
  <2>10. Refers(x)'
    BY <2>2, <2>3 DEF Refers, Moves, Same, CheckPartnerEmail, CheckUserEmail, CountTeam,
                      CheckUser, OnlyReads
  <2>11. QED
    BY <2>2, <2>4, <2>9, <2>10 DEF Leaves, Fits, Moves
<1>3. QED
  BY <1>1, <1>2, ChecksGoOn DEF GoesOn

\* Rows are changed and added, and never removed.
Grows == /\ \A u \in Users : user[u] # None => user'[u] # None
         /\ \A p \in Partners : partner[p] # None => partner'[p] # None

LEMMA RefersKept ==
  ASSUME Grows, NEW x, Fits(x), Refers(x)
  PROVE  Refers(x)'
<1>1. /\ x.op = "invite" => x.partner \in Partners
      /\ x.row # None => x.row.partner \in Partners \cup {None}
  BY DEF Fits, RequestWith, Asks, OfPartners, UserRows
<1>2. QED
  BY <1>1 DEF Refers, Grows

LEMMA RowsAreSomething == None \notin Partners \cup Users \cup Emails \cup UserRows \cup PartnerRows
  BY PartnerAssumption

LEMMA ReadPartnerLeaves ==
  ASSUME Sound, NEW r \in Requests, ReadPartner(r)
  PROVE  Leaves(r)
<1>1. CASE Finish(r)
  BY <1>1, FinishLeaves
<1>2. CASE ~Finish(r)
  <2>1. PICK w : w = req[r]
    OBVIOUS
  <2>2. PICK x : /\ Become(r, x) /\ Moves(w, x) /\ partner[w.partner] # None
                 /\ x.user = w.user /\ x.row = w.row /\ x.prow \in PartnerRows
    BY <1>2, <2>1, ReadPartnerGoesOn
  <2>3. Fits(w) /\ Refers(w) /\ w.steps # <<>> /\ Head(w.steps) = "readPartner"
    BY <2>1 DEF Sound, ReadPartner, At
  <2>4. /\ w.op \in {"updatePartner", "updateFees", "disablePartner", "welcomePartner"}
        /\ Head(x.steps) \in {"readLogin", "savePartner"}
    BY <2>2, <2>3, Places DEF Fits, Moves
  <2>5. Asks(x) /\ x.partner \in Partners
    BY <2>2, <2>3, <2>4, AsksKept
       DEF Fits, Moves, Asks, OfPartners, OfAccounts, Welcomes, Patches, Edits, Creates
  <2>6. Knows(x)
    BY <2>2, <2>3, <2>4 DEF Knows, Fits, Moves, Waits, Patches
  <2>7. Refers(x)'
    BY <2>2, <2>3, <2>5 DEF Refers, Moves, ReadPartner, OnlyReads
  <2>8. QED
    BY <2>2, <2>5, <2>6, <2>7 DEF Leaves, Fits, Moves
<1>3. QED
  BY <1>1, <1>2

LEMMA ReadLoginLeaves ==
  ASSUME Sound, NEW r \in Requests, ReadLogin(r)
  PROVE  Leaves(r)
<1>1. CASE Finish(r)
  BY <1>1, FinishLeaves
<1>2. CASE ~Finish(r)
  <2>1. PICK w : w = req[r]
    OBVIOUS
  <2>2. PICK x : /\ Become(r, x) /\ Moves(w, x) /\ x.prow = w.prow
                 /\ \/ x.user = None /\ x.row = None /\ w.op # "welcomePartner"
                    \/ x.user \in Team(w.partner) /\ x.row = user[x.user] /\ x.row \in UserRows
    BY <1>2, <2>1, ReadLoginGoesOn
  <2>3. Fits(w) /\ Refers(w) /\ w.steps # <<>> /\ Head(w.steps) = "readLogin"
    BY <2>1 DEF Sound, ReadLogin, At
  <2>4. /\ w.op \in {"updatePartner", "welcomePartner"}
        /\ Head(x.steps) = IF w.op = "updatePartner" THEN "readHolder" ELSE "readUser"
    BY <2>2, <2>3, Places DEF Fits, Moves
  <2>5. Asks(x)
    BY <2>2, <2>3, <2>4, AsksKept
       DEF Fits, Moves, OfAccounts, Welcomes, Patches, Edits, Creates
  <2>6. x.row # None => /\ x.user \in Users /\ Coherent(x.row) /\ user[x.user] # None
                        /\ x.row.partner # None => partner[x.row.partner] # None
    BY <2>2, RowsAreSomething DEF Team, Sound, Tables
  <2>7. x.user = None <=> x.row = None
    BY <2>2, RowsAreSomething DEF Team
  <2>8. Knows(x)
    BY <2>2, <2>3, <2>4, <2>6, <2>7, RowsAreSomething DEF Knows, Fits, Moves, Waits, Patches
  <2>9. Refers(x)'
    BY <2>2, <2>3, <2>4, <2>6 DEF Refers, Moves, ReadLogin, OnlyReads
  <2>10. QED
    BY <2>2, <2>5, <2>8, <2>9 DEF Leaves, Fits, Moves
<1>3. QED
  BY <1>1, <1>2

LEMMA ReadHolderLeaves ==
  ASSUME Sound, NEW r \in Requests, ReadHolder(r)
  PROVE  Leaves(r)
<1>1. PICK w : w = req[r]
  OBVIOUS
<1>2. PICK x : /\ Become(r, x) /\ x.prow = w.prow /\ x.op = w.op
               /\ x.partner = w.partner /\ x.email = w.email
               /\ x \in RequestWith(x.op, x.steps) /\ Planned(x.op, x.steps)
               /\ Chosen(w, x)
               /\ Waits(x, "savePartner") \/ Waits(x, "partnerEmail")
  BY <1>1, ReadHolderGoesOn
<1>3. Fits(w) /\ Refers(w) /\ Waits(w, "readHolder") /\ w.op = "updatePartner"
  BY <1>1, Places DEF Sound, ReadHolder, At, Fits, Waits
<1>4. Asks(x)
  BY <1>2, <1>3, AsksKept DEF Fits, OfAccounts, Welcomes, Patches, Edits, Creates
<1>5. /\ w.user = None <=> w.row = None
      /\ w.row # None => Coherent(w.row)
      /\ w.prow \in PartnerRows
  BY <1>3 DEF Fits, Knows, Waits
<1>6. x.user = None <=> x.row = None
  BY <1>2, <1>5, RowsAreSomething DEF Chosen, UsersWith
<1>7. x.row # None => /\ x.user \in Users /\ Coherent(x.row) /\ user[x.user] # None
                      /\ x.row.partner # None => partner[x.row.partner] # None
  <2>1. CASE x.user = w.user /\ x.row = w.row
    BY <1>3, <1>5, <2>1 DEF Refers
  <2>2. CASE x.user \in UsersWith(w.prow.email) /\ x.row = user[x.user]
    BY <2>2 DEF UsersWith, Sound, Tables
  <2>3. QED
    BY <1>2, <2>1, <2>2 DEF Chosen
<1>8. Knows(x)
  BY <1>2, <1>3, <1>5, <1>6, <1>7 DEF Knows, Waits, Patches
<1>9. Refers(x)'
  BY <1>2, <1>3, <1>7 DEF Refers, ReadHolder, OnlyReads
<1>10. QED
  BY <1>2, <1>4, <1>8, <1>9 DEF Leaves, Fits

LEMMA ReadRowLeaves ==
  ASSUME Sound, NEW r \in Requests, ReadUser(r) \/ ReadMember(r)
  PROVE  Leaves(r)
<1>1. CASE Finish(r)
  BY <1>1, FinishLeaves
<1>2. CASE ~Finish(r)
  <2>1. PICK w : w = req[r]
    OBVIOUS
  <2>2. PICK x : /\ Become(r, x) /\ Moves(w, x) /\ w.user \in Users /\ user[w.user] \in UserRows
                 /\ x.user = w.user /\ x.prow = w.prow
                 /\ x.row \in UserRows /\ Coherent(x.row)
    BY <1>2, <2>1, ReadRowGoesOn
  <2>3. /\ Fits(w) /\ Refers(w) /\ w.steps # <<>>
        /\ Head(w.steps) \in {"readUser", "readMember"}
    BY <2>1 DEF Sound, ReadUser, ReadMember, At
  <2>4. w.op \in {"welcomePartner"} \cup OfAccounts
    BY <2>3, Places DEF Fits, OfAccounts
  <2>5. w.op \notin {"updatePartner", "updateFees", "disablePartner", "invite"} \cup Creates
    BY <2>4 DEF OfAccounts, Welcomes, Patches, Edits, Creates
  <2>6. Asks(x)
    BY <2>2, <2>3, <2>5, AsksKept DEF Fits, Moves
  <2>7. Knows(x)
    BY <2>2, <2>5 DEF Knows, Moves, Waits
  <2>8. Refers(x)'
    BY <2>2, <2>3, <2>5, RowsAreSomething DEF Refers, Moves, ReadUser, ReadMember, OnlyReads
  <2>9. QED
    BY <2>2, <2>6, <2>7, <2>8 DEF Leaves, Fits, Moves
<1>3. QED
  BY <1>1, <1>2

-----------------------------------------------------------------------------
(* The tables.                                                             *)

LEMMA PutUser ==
  ASSUME Tables, NEW u \in Users, user[u] # None, NEW row \in UserRows, Coherent(row),
         row.partner # None => partner[row.partner] # None, UsersWith(row.email) \subseteq {u},
         user' = [user EXCEPT ![u] = row], partner' = partner
  PROVE  Tables' /\ Grows
<1>1. /\ user' \in [Users -> UserRows \cup {None}]
      /\ partner' \in [Partners -> PartnerRows \cup {None}]
  BY DEF Tables
<1>2. \A v \in Users : user'[v] = IF v = u THEN row ELSE user[v]
  BY DEF Tables
<1>3. row # None
  BY RowsAreSomething
<1>4. \E n \in 0 .. MaxUsers : \A v \in Users : user'[v] # None <=> v <= n
  BY <1>2, <1>3 DEF Tables
<1>5. ASSUME NEW v \in Users, user'[v] # None
      PROVE  /\ user'[v].partner # None => partner'[user'[v].partner] # None
             /\ Coherent(user'[v])
  BY <1>2, <1>5 DEF Tables
<1>6. ASSUME NEW v \in Users, NEW k \in Users, user'[v] # None, user'[k] # None,
             user'[k].email = user'[v].email
      PROVE  k = v
  <2>1. CASE v = u /\ k # u
    BY <1>2, <1>6, <2>1 DEF UsersWith
  <2>2. CASE v # u /\ k = u
    BY <1>2, <1>6, <2>2 DEF UsersWith
  <2>3. CASE v # u /\ k # u
    BY <1>2, <1>6, <2>3 DEF Tables
  <2>4. QED
    BY <2>1, <2>2, <2>3
<1>7. Grows
  BY <1>2, <1>3 DEF Grows
<1>8. Tables'
  BY <1>1, <1>4, <1>5, <1>6 DEF Tables, Coherent
<1>9. QED
  BY <1>7, <1>8

LEMMA NextIsFree ==
  ASSUME Tables, NextUser \in Users
  PROVE  \A u \in Users : user[u] # None <=> u < NextUser
<1>1. PICK n \in 0 .. MaxUsers : \A u \in Users : user[u] # None <=> u <= n
  BY DEF Tables
<1>2. MaxUsers \in Nat
  BY PartnerAssumption
<1>3. {u \in Users : user[u] # None} = 1 .. n
  BY <1>1, <1>2 DEF Users
<1>4. Cardinality(1 .. n) = n
  BY <1>2, FS_Interval
<1>5. NextUser = n + 1
  BY <1>3, <1>4 DEF NextUser
<1>6. QED
  BY <1>1, <1>2, <1>5 DEF Users

LEMMA AddUser ==
  ASSUME Tables, NextUser \in Users, NEW row \in UserRows, Coherent(row),
         UsersWith(row.email) = {}, user' = [user EXCEPT ![NextUser] = row],
         partner' \in [Partners -> PartnerRows \cup {None}],
         \A p \in Partners : partner[p] # None => partner'[p] # None,
         row.partner # None => partner'[row.partner] # None
  PROVE  Tables' /\ Grows
<1>1. PICK k : k = NextUser
  OBVIOUS
<1>2. k \in Users /\ \A u \in Users : user[u] # None <=> u < k
  BY <1>1, NextIsFree
<1>3. MaxUsers \in Nat
  BY PartnerAssumption
<1>4. user' \in [Users -> UserRows \cup {None}]
  BY DEF Tables
<1>5. \A v \in Users : user'[v] = IF v = k THEN row ELSE user[v]
  BY <1>1 DEF Tables
<1>6. row # None
  BY RowsAreSomething
<1>7. k \in 0 .. MaxUsers /\ \A v \in Users : user'[v] # None <=> v <= k
  BY <1>2, <1>3, <1>5, <1>6 DEF Users
<1>8. ASSUME NEW v \in Users, user'[v] # None
      PROVE  /\ user'[v].partner # None => partner'[user'[v].partner] # None
             /\ Coherent(user'[v])
  <2>1. CASE v = k
    BY <1>5, <2>1
  <2>2. CASE v # k
    <3>1. user[v] \in UserRows
      BY <1>5, <1>8, <2>2 DEF Tables
    <3>2. QED
      BY <1>5, <1>8, <2>2, <3>1 DEF Tables, UserRows
  <2>3. QED
    BY <2>1, <2>2
<1>9. ASSUME NEW v \in Users, NEW w \in Users, user'[v] # None, user'[w] # None,
             user'[w].email = user'[v].email
      PROVE  w = v
  <2>1. CASE v = k /\ w # k
    BY <1>5, <1>9, <2>1 DEF UsersWith
  <2>2. CASE v # k /\ w = k
    BY <1>5, <1>9, <2>2 DEF UsersWith
  <2>3. CASE v # k /\ w # k
    BY <1>5, <1>9, <2>3 DEF Tables
  <2>4. QED
    BY <2>1, <2>2, <2>3
<1>10. Grows
  BY <1>5, <1>6 DEF Grows
<1>11. Tables'
  BY <1>4, <1>7, <1>8, <1>9 DEF Tables, Coherent
<1>12. QED
  BY <1>10, <1>11

LEMMA PutPartner ==
  ASSUME Tables, NEW p \in Partners, NEW row \in PartnerRows,
         partner' = [partner EXCEPT ![p] = row]
  PROVE  /\ partner' \in [Partners -> PartnerRows \cup {None}]
         /\ \A q \in Partners : partner[q] # None => partner'[q] # None
         /\ UNCHANGED user => Tables' /\ Grows
<1>1. partner' \in [Partners -> PartnerRows \cup {None}]
  BY DEF Tables
<1>2. \A q \in Partners : partner[q] # None => partner'[q] # None
  BY RowsAreSomething DEF Tables
<1>3. ASSUME UNCHANGED user PROVE Grows
  BY <1>2, <1>3 DEF Grows
<1>4. ASSUME UNCHANGED user PROVE Tables'
  <2>1. ASSUME NEW u \in Users, user[u] # None, user[u].partner # None
        PROVE  partner'[user[u].partner] # None
    BY <1>2, <2>1 DEF Tables, UserRows
  <2>2. QED
    BY <1>1, <1>4, <2>1 DEF Tables, Coherent
<1>5. QED
  BY <1>1, <1>2, <1>3, <1>4

\* Every request that ends was accepted once.
LEMMA ActiveKept ==
  ASSUME Sound, NEW r \in Requests, req[r] # NoRequest, NEW x, Become(r, x),
         accepted' = accepted, moved' = moved \/ (moved' = moved + 1 /\ Finish(r))
  PROVE  moved' \in Nat /\ moved' + Cardinality(Active') <= accepted'
<1>1. IsFiniteSet(Active) /\ IsFiniteSet(Active') /\ IsFiniteSet(Requests)
  BY FS_Subset, PartnerAssumption DEF Active
<1>2. req' = [req EXCEPT ![r] = x] /\ req = [q \in Requests |-> req[q]]
  BY DEF Become, Sound
<1>3. CASE x # NoRequest
  <2>1. Active' = Active
    BY <1>2, <1>3 DEF Active
  <2>2. moved' = moved
    BY <1>2, <1>3 DEF Finish, Become
  <2>3. QED
    BY <2>1, <2>2 DEF Sound
<1>4. CASE x = NoRequest
  <2>1. Active' = Active \ {r} /\ r \in Active
    BY <1>2, <1>4 DEF Active
  <2>2. Cardinality(Active') = Cardinality(Active) - 1
    BY <1>1, <2>1, FS_RemoveElement
  <2>3. Cardinality(Active) \in Nat /\ moved \in Nat /\ accepted \in Nat
    BY <1>1, FS_CardinalityType DEF Sound
  <2>4. moved + Cardinality(Active) <= accepted
    BY DEF Sound
  <2>5. QED
    BY <2>2, <2>3, <2>4
<1>5. QED
  BY <1>3, <1>4

LEMMA SoundStep ==
  ASSUME Sound, NEW r \in Requests, req[r] # NoRequest, Leaves(r), Tables', Grows,
         calm' \subseteq Partners, accepted' = accepted,
         moved' = moved \/ (moved' = moved + 1 /\ Finish(r))
  PROVE  Sound'
<1>1. PICK x : Fits(x) /\ Become(r, x) /\ Refers(x)'
  BY DEF Leaves
<1>2. req' = [req EXCEPT ![r] = x] /\ req = [q \in Requests |-> req[q]]
  BY <1>1 DEF Become, Sound
<1>3. req' = [q \in Requests |-> req'[q]]
  BY <1>2
<1>4. ASSUME NEW q \in Requests
      PROVE  Fits(req'[q]) /\ Refers(req[q])'
  <2>1. CASE q = r
    <3>1. req'[q] = x
      BY <1>2, <2>1
    <3>2. QED
      BY <1>1, <3>1 DEF Refers
  <2>2. CASE q # r
    <3>1. req'[q] = req[q]
      BY <1>2, <2>2
    <3>2. Fits(req[q]) /\ Refers(req[q])
      BY DEF Sound
    <3>3. PICK y : y = req[q]
      OBVIOUS
    <3>4. Refers(y)'
      BY <3>2, <3>3, RefersKept
    <3>5. QED
      BY <3>1, <3>2, <3>3, <3>4 DEF Refers
  <2>3. QED
    BY <2>1, <2>2
<1>5. moved' \in Nat /\ moved' + Cardinality(Active') <= accepted'
  BY <1>1, ActiveKept
<1>6. QED
  BY <1>3, <1>4, <1>5 DEF Sound

LEMMA SoundAccept ==
  ASSUME Sound, NEW r \in Requests, StaffRequest(r) \/ OwnRequest(r) \/ MemberRequest(r)
  PROVE  Sound'
<1>1. /\ req[r] = NoRequest /\ accepted < MaxRequests /\ accepted' = accepted + 1
      /\ UNCHANGED <<partner, user, moved>>
  BY AcceptFresh DEF Sound
<1>2. PICK x : /\ Fresh(x) /\ Become(r, x)
               /\ calm' = {p \in calm : p \in About(x) => ~Busy(p)}
  BY AcceptFresh DEF Sound
<1>3. req' = [req EXCEPT ![r] = x] /\ req = [q \in Requests |-> req[q]]
  BY <1>2 DEF Become, Sound
<1>4. Fits(x) /\ Refers(x)'
  BY <1>1, <1>2 DEF Fresh, Refers
<1>5. ASSUME NEW q \in Requests
      PROVE  Fits(req'[q]) /\ Refers(req[q])'
  <2>1. CASE q = r
    <3>1. req'[q] = x
      BY <1>3, <2>1
    <3>2. QED
      BY <1>4, <3>1 DEF Refers
  <2>2. CASE q # r
    <3>1. req'[q] = req[q]
      BY <1>3, <2>2
    <3>2. QED
      BY <1>1, <3>1 DEF Refers, Sound
  <2>3. QED
    BY <2>1, <2>2
<1>6. x # NoRequest
  BY <1>2 DEF Fresh, NoRequest
<1>7. Active' = Active \cup {r} /\ r \notin Active
  BY <1>1, <1>3, <1>6 DEF Active
<1>8. IsFiniteSet(Active)
  BY FS_Subset, PartnerAssumption DEF Active
<1>9. Cardinality(Active') = Cardinality(Active) + 1 /\ Cardinality(Active) \in Nat
  BY <1>7, <1>8, FS_AddElement, FS_CardinalityType
<1>10. accepted' \in 0 .. MaxRequests /\ moved' \in Nat /\ MaxRequests \in Nat
  BY <1>1, PartnerAssumption DEF Sound
<1>11. moved' + Cardinality(Active') <= accepted'
  BY <1>1, <1>9, <1>10 DEF Sound
<1>12. Tables'
  BY <1>1 DEF Sound, Tables, Coherent
<1>13. req' = [q \in Requests |-> req'[q]]
  BY <1>3
<1>14. calm' \subseteq Partners
  BY <1>2 DEF Sound
<1>15. QED
  BY <1>5, <1>10, <1>11, <1>12, <1>13, <1>14 DEF Sound

LEMMA ActiveAt ==
  ASSUME NEW r \in Requests, NEW step, At(r, step)
  PROVE  req[r] # NoRequest
  BY DEF At, NoRequest

LEMMA InsertsKeep ==
  ASSUME Sound, NEW r \in Requests, InsertPartner(r) \/ InsertBoth(r) \/ InsertUser(r)
  PROVE  Tables' /\ Grows /\ calm' \subseteq Partners
<1>1. PICK w : w = req[r]
  OBVIOUS
<1>2. /\ Fits(w) /\ Refers(w) /\ w.steps # <<>>
      /\ Head(w.steps) \in {"insertPartner", "insertBoth", "insertUser"}
  BY <1>1 DEF Sound, InsertPartner, InsertBoth, InsertUser, At
<1>3. w.op \in Creates \cup {"invite"} /\ w.email \in Emails
  BY <1>2, Places DEF Fits, Asks, Creates
<1>4. PICK e : e = w.email
  OBVIOUS
<1>5. CASE UNCHANGED <<partner, user, calm>>
  BY <1>5 DEF Sound, Tables, Coherent, Grows
<1>6. CASE InsertPartner(r) /\ ~UNCHANGED partner
  <2>1. PICK p \in Partners :
          partner' = [partner EXCEPT ![p] = [email |-> e, status |-> "active"]]
    BY <1>1, <1>4, <1>6 DEF InsertPartner, FreePartners
  <2>2. [email |-> e, status |-> "active"] \in PartnerRows
    BY <1>3, <1>4 DEF PartnerRows
  <2>3. QED
    BY <1>6, <2>1, <2>2, PutPartner DEF Sound, InsertPartner
<1>7. CASE InsertBoth(r) /\ ~UNCHANGED <<partner, user, calm>>
  <2>1. w.op = "createWithUser"
    BY <1>1, <1>2, <1>7, Places DEF Fits, InsertBoth, At
  <2>2. PICK p \in Partners :
          /\ partner' = [partner EXCEPT ![p] = [email |-> e, status |-> "active"]]
          /\ user' = [user EXCEPT ![NextUser] = NewUser(w.op, e, p)]
          /\ calm' = IF Busy(p) THEN calm ELSE calm \cup {p}
    BY <1>1, <1>4, <1>7 DEF InsertBoth, FreePartners
  <2>3. UsersWith(e) = {} /\ NextUser \in Users
    BY <1>1, <1>4, <1>7 DEF InsertBoth
  <2>4. [email |-> e, status |-> "active"] \in PartnerRows
    BY <1>3, <1>4 DEF PartnerRows
  <2>5. PICK row : row = NewUser(w.op, e, p)
    OBVIOUS
  <2>6. /\ row \in UserRows /\ Coherent(row) /\ row.email = e /\ row.partner = p
    BY <1>3, <1>4, <2>1, <2>5 DEF NewUser, UserRows, Coherent, Roles, AccountStatuses
  <2>7. partner'[p] # None
    BY <2>2, <2>4, RowsAreSomething DEF Sound, Tables
  <2>8. /\ partner' \in [Partners -> PartnerRows \cup {None}]
        /\ \A q \in Partners : partner[q] # None => partner'[q] # None
    BY <2>2, <2>4, PutPartner DEF Sound
  <2>9. Tables' /\ Grows
    BY <2>2, <2>3, <2>5, <2>6, <2>7, <2>8, AddUser DEF Sound
  <2>10. QED
    BY <2>2, <2>9 DEF Sound
<1>8. CASE InsertUser(r) /\ user' # user
  <2>1. w.op \in {"invite", "createStaff", "createUser"}
    BY <1>1, <1>2, <1>8, Places DEF Fits, InsertUser, At
  <2>2. /\ user' = [user EXCEPT ![NextUser] = NewUser(w.op, e, w.partner)]
        /\ UsersWith(e) = {} /\ NextUser \in Users /\ UNCHANGED <<partner, calm>>
    BY <1>1, <1>4, <1>8 DEF InsertUser
  <2>3. PICK row : row = NewUser(w.op, e, w.partner)
    OBVIOUS
  <2>4. w.partner \in Partners \cup {None} /\ (w.partner # None => partner[w.partner] # None)
    BY <1>2, <2>1 DEF Fits, Asks, OfPartners, Refers, Creates
  <2>5. /\ row \in UserRows /\ Coherent(row) /\ row.email = e /\ row.partner = w.partner
    BY <1>3, <1>4, <2>1, <2>3, <2>4 DEF NewUser, UserRows, Coherent, Roles, AccountStatuses
  <2>6. partner' \in [Partners -> PartnerRows \cup {None}]
    BY <2>2 DEF Sound, Tables
  <2>7. Tables' /\ Grows
    BY <2>2, <2>3, <2>4, <2>5, <2>6, AddUser DEF Sound
  <2>8. QED
    BY <2>2, <2>7 DEF Sound
<1>9. QED
  BY <1>5, <1>6, <1>7, <1>8 DEF InsertPartner, InsertBoth, InsertUser

LEMMA SaveLoginKeeps ==
  ASSUME Sound, NEW r \in Requests, SaveLogin(r)
  PROVE  Leaves(r) /\ Tables' /\ Grows /\ calm' \subseteq Partners
<1>1. CASE Finish(r) /\ UNCHANGED <<user, calm>>
  <2>1. UNCHANGED partner
    BY DEF SaveLogin
  <2>2. QED
    BY <1>1, <2>1, FinishLeaves DEF Sound, Tables, Coherent, Grows
<1>2. CASE ~(Finish(r) /\ UNCHANGED <<user, calm>>)
  <2>1. PICK w : w = req[r]
    OBVIOUS
  <2>2. PICK x : /\ Become(r, x) /\ Moves(w, x) /\ Waits(x, "savePartner")
                 /\ x.user = w.user /\ x.row = w.row
                 /\ x.prow \in PartnerRows /\ x.prow.email = w.email
                 /\ \/ w.user = None /\ UNCHANGED <<user, calm>>
                    \/ /\ w.user # None /\ UsersWith(w.email) \subseteq {w.user}
                       /\ user' = [user EXCEPT ![w.user] = [w.row EXCEPT !.email = w.email]]
                       /\ calm' = IF w.partner \in calm THEN calm
                                  ELSE calm \ {user[w.user].partner}
    BY <1>2, <2>1, SaveLoginGoesOn
  <2>3. Fits(w) /\ Refers(w) /\ Waits(w, "saveLogin") /\ w.op = "updatePartner"
    BY <2>1, Places DEF Sound, SaveLogin, At, Fits, Waits
  <2>4. /\ w.user = None <=> w.row = None
        /\ w.prow \in PartnerRows /\ w.email \in Emails
        /\ w.row # None => w.row \in UserRows /\ Coherent(w.row)
    BY <2>3 DEF Fits, Knows, Asks, Waits, RequestWith
  <2>5. Tables' /\ Grows /\ calm' \subseteq Partners
    <3>1. CASE UNCHANGED <<user, calm>>
      BY <3>1 DEF SaveLogin, Sound, Tables, Coherent, Grows
    <3>2. CASE w.user # None
      <4>1. PICK row : row = [w.row EXCEPT !.email = w.email]
        OBVIOUS
      <4>2. /\ row \in UserRows /\ Coherent(row) /\ row.email = w.email
            /\ row.partner = w.row.partner
        BY <2>4, <3>2, <4>1 DEF UserRows, Coherent
      <4>3. /\ w.user \in Users /\ user[w.user] # None
            /\ row.partner # None => partner[row.partner] # None
        BY <2>3, <2>4, <3>2, <4>2 DEF Refers
      <4>4. Tables' /\ Grows
        BY <2>2, <3>2, <4>1, <4>2, <4>3, PutUser DEF Sound, SaveLogin
      <4>5. QED
        BY <2>2, <4>4 DEF Sound
    <3>3. QED
      BY <2>2, <3>1, <3>2
  <2>6. Asks(x)
    BY <2>2, <2>3, AsksKept DEF Fits, Moves, OfAccounts, Welcomes, Patches, Edits, Creates
  <2>7. Knows(x)
    BY <2>2, <2>3, <2>4 DEF Knows, Moves, Waits, Patches
  <2>8. Fits(x)
    BY <2>2, <2>6, <2>7 DEF Fits, Moves
  <2>9. Refers(w)'
    BY <2>3, <2>5, RefersKept
  <2>10. x.partner \in Partners /\ partner'[x.partner] # None
    BY <2>2, <2>3, <2>4, RowsAreSomething DEF Refers, Moves, SaveLogin
  <2>11. Refers(x)'
    BY <2>2, <2>3, <2>9, <2>10 DEF Refers, Moves
  <2>12. QED
    BY <2>2, <2>5, <2>8, <2>11 DEF Leaves
<1>3. QED
  BY <1>1, <1>2

LEMMA SavePartnerKeeps ==
  ASSUME Sound, NEW r \in Requests, SavePartner(r)
  PROVE  Tables' /\ Grows /\ calm' \subseteq Partners
<1>1. PICK w : w = req[r]
  OBVIOUS
<1>2. /\ Fits(w) /\ Waits(w, "savePartner")
      /\ w.op \in {"updatePartner", "updateFees", "disablePartner"}
  BY <1>1, Places DEF Sound, SavePartner, At, Fits, Waits
<1>3. w.prow \in PartnerRows /\ w.partner \in Partners
  BY <1>2 DEF Fits, Knows, Waits, Asks, OfPartners
<1>4. partner' = partner \/ partner' = [partner EXCEPT ![w.partner] = w.prow]
  BY <1>1 DEF SavePartner
<1>5. UNCHANGED user /\ calm' \subseteq Partners /\ Tables
  BY DEF SavePartner, Sound
<1>6. CASE partner' = partner
  BY <1>5, <1>6 DEF Tables, Coherent, Grows
<1>7. CASE partner' = [partner EXCEPT ![w.partner] = w.prow]
  BY <1>3, <1>5, <1>7, PutPartner
<1>8. QED
  BY <1>4, <1>5, <1>6, <1>7

LEMMA SaveUserKeeps ==
  ASSUME Sound, NEW r \in Requests, SaveUser(r)
  PROVE  /\ Tables' /\ Grows /\ calm' \subseteq Partners
         /\ moved' = moved \/ moved' = moved + 1
<1>1. PICK w : w = req[r]
  OBVIOUS
<1>2. Fits(w) /\ Refers(w) /\ Waits(w, "saveUser")
  BY <1>1 DEF Sound, SaveUser, At, Waits
<1>3. w.row \in UserRows /\ Coherent(w.row) /\ w.user \in Users /\ user[w.user] # None
  BY <1>2, RowsAreSomething DEF Fits, Knows, Refers
<1>4. CASE UNCHANGED <<user, calm, moved>>
  BY <1>4 DEF SaveUser, Sound, Tables, Coherent, Grows
<1>5. CASE /\ UsersWith(w.row.email) \subseteq {w.user}
           /\ w.row.partner # None => partner[w.row.partner] # None
           /\ user' = [user EXCEPT ![w.user] = w.row]
           /\ calm' \subseteq calm
  <2>1. Tables' /\ Grows
    BY <1>3, <1>5, PutUser DEF SaveUser, Sound
  <2>2. moved' = moved \/ moved' = moved + 1
    BY DEF SaveUser
  <2>3. QED
    BY <1>5, <2>1, <2>2 DEF Sound
<1>6. QED
  BY <1>1, <1>4, <1>5 DEF SaveUser

LEMMA NextSound ==
  ASSUME Sound, [Next]_vars
  PROVE  Sound'
<1>1. CASE UNCHANGED vars
  BY <1>1 DEF vars, Sound, Tables, Coherent, Refers, Active
<1>2. ASSUME NEW r \in Requests, StaffRequest(r) \/ OwnRequest(r) \/ MemberRequest(r)
      PROVE  Sound'
  BY <1>2, SoundAccept
<1>3. ASSUME NEW r \in Requests,
             \/ CheckPartnerEmail(r) \/ CheckUserEmail(r) \/ CountTeam(r) \/ CheckUser(r)
             \/ ReadPartner(r) \/ ReadLogin(r) \/ ReadHolder(r) \/ ReadUser(r) \/ ReadMember(r)
      PROVE  Sound'
  <2>1. Leaves(r)
    BY <1>3, ChecksLeave, ReadPartnerLeaves, ReadLoginLeaves, ReadHolderLeaves, ReadRowLeaves
  <2>2. req[r] # NoRequest /\ OnlyReads
    BY <1>3, ActiveAt
       DEF CheckPartnerEmail, CheckUserEmail, CountTeam, CheckUser, ReadPartner, ReadLogin,
           ReadHolder, ReadUser, ReadMember
  <2>3. Tables' /\ Grows /\ calm' \subseteq Partners
    BY <2>2 DEF OnlyReads, Sound, Tables, Coherent, Grows
  <2>4. moved' = moved /\ accepted' = accepted
    BY <2>2 DEF OnlyReads
  <2>5. QED
    BY <1>3, <2>1, <2>2, <2>3, <2>4, SoundStep
<1>4. ASSUME NEW r \in Requests, InsertPartner(r) \/ InsertBoth(r) \/ InsertUser(r)
      PROVE  Sound'
  <2>1. /\ req[r] # NoRequest /\ Finish(r) /\ moved' = moved /\ accepted' = accepted
    BY <1>4, ActiveAt DEF InsertPartner, InsertBoth, InsertUser
  <2>2. QED
    BY <1>4, <2>1, InsertsKeep, FinishLeaves, SoundStep
<1>5. ASSUME NEW r \in Requests, SaveLogin(r) PROVE Sound'
  <2>1. req[r] # NoRequest /\ moved' = moved /\ accepted' = accepted
    BY <1>5, ActiveAt DEF SaveLogin
  <2>2. Leaves(r) /\ Tables' /\ Grows /\ calm' \subseteq Partners
    BY <1>5, SaveLoginKeeps
  <2>3. QED
    BY <1>5, <2>1, <2>2, SoundStep
<1>6. ASSUME NEW r \in Requests, SavePartner(r) PROVE Sound'
  <2>1. req[r] # NoRequest /\ Finish(r) /\ moved' = moved /\ accepted' = accepted
    BY <1>6, ActiveAt DEF SavePartner
  <2>2. QED
    BY <1>6, <2>1, SavePartnerKeeps, FinishLeaves, SoundStep
<1>7. ASSUME NEW r \in Requests, SaveUser(r) PROVE Sound'
  <2>1. req[r] # NoRequest /\ Finish(r) /\ accepted' = accepted
    BY <1>7, ActiveAt DEF SaveUser
  <2>2. QED
    BY <1>7, <2>1, SaveUserKeeps, FinishLeaves, SoundStep
<1>8. ASSUME NEW r \in Requests, Fail(r) PROVE Sound'
  <2>1. /\ req[r] # NoRequest /\ Finish(r) /\ moved' = moved /\ accepted' = accepted
        /\ Tables' /\ Grows /\ calm' \subseteq Partners
    BY <1>8 DEF Fail, Sound, Tables, Coherent, Grows
  <2>2. QED
    BY <2>1, FinishLeaves, SoundStep
<1>9. QED
  BY <1>1, <1>2, <1>3, <1>4, <1>5, <1>6, <1>7, <1>8 DEF Next, Proceed

LEMMA InitSound == Init => Sound
<1>1. SUFFICES ASSUME Init PROVE Sound
  OBVIOUS
<1>2. Tables
  BY <1>1, PartnerAssumption, PortalAssumption DEF Init, Tables, Coherent
<1>3. \A r \in Requests : req[r] = NoRequest
  BY <1>1 DEF Init
<1>4. Active = {}
  BY <1>3 DEF Active
<1>5. Cardinality(Active) = 0
  BY <1>4, FS_EmptySet
<1>6. MaxRequests \in Nat /\ accepted = 0 /\ moved = 0 /\ calm \subseteq Partners
      /\ req = [r \in Requests |-> NoRequest]
  BY <1>1, PartnerAssumption DEF Init
<1>7. QED
  BY <1>2, <1>3, <1>5, <1>6, NoRequestFits DEF Sound

LEMMA AlwaysSound == Spec => []Sound
  BY InitSound, NextSound, PTL DEF Spec

LEMMA SoundProperties == Sound => TypeOK /\ TemporaryMustChange /\ FlagFollowsStatus
<1>1. SUFFICES ASSUME Sound PROVE TypeOK /\ TemporaryMustChange /\ FlagFollowsStatus
  OBVIOUS
<1>2. moved \in 0 .. MaxRequests
  <2>1. IsFiniteSet(Active)
    BY FS_Subset, PartnerAssumption DEF Active
  <2>2. Cardinality(Active) \in Nat
    BY <2>1, FS_CardinalityType
  <2>3. MaxRequests \in Nat /\ accepted \in 0 .. MaxRequests /\ moved \in Nat
        /\ moved + Cardinality(Active) <= accepted
    BY <1>1, PartnerAssumption DEF Sound
  <2>4. QED
    BY <2>2, <2>3
<1>3. \A r \in Requests : /\ req[r].prow \in PartnerRows \cup {None}
                          /\ req[r].row \in UserRows \cup {None}
  BY <1>1 DEF Sound, Fits, RequestWith
<1>4. TypeOK
  BY <1>1, <1>2, <1>3 DEF TypeOK, Sound, Tables
<1>5. QED
  BY <1>1, <1>4 DEF Sound, Tables, Coherent, TemporaryMustChange, FlagFollowsStatus

\* The partners, the accounts and what the requests hold keep their types.
THEOREM PartnerTypes == Spec => []TypeOK
  BY AlwaysSound, SoundProperties, PTL

\* Whatever saves a row late, an account whose password was given to it must change it:
\* setPassword writes both flags of the row it read, and everybody else saves a
\* row on which they agreed.
THEOREM GivenPasswordsAreChanged == Spec => []TemporaryMustChange
  BY AlwaysSound, SoundProperties, PTL

\* Late saves may undo a suspension, but isActive and accountStatus are undone together.
THEOREM FlagsFollowStatus == Spec => []FlagFollowsStatus
  BY AlwaysSound, SoundProperties, PTL

-----------------------------------------------------------------------------
(* Teams.                                                                  *)

LEMMA FiniteTeams ==
  /\ IsFiniteSet(Requests) /\ IsFiniteSet(Users)
  /\ Cardinality(Requests) \in Nat \ {0} /\ MaxTeam \in Nat \ {0}
  /\ \A p : /\ IsFiniteSet(Team(p) \cup Returning(p)) /\ IsFiniteSet(Inviting(p))
            /\ Load(p) \in Nat
<1>1. IsFiniteSet(Requests) /\ Requests # {} /\ MaxUsers \in Nat /\ MaxTeam \in Nat \ {0}
  BY PartnerAssumption
<1>2. IsFiniteSet(Users)
  BY <1>1, FS_Interval DEF Users
<1>3. Cardinality(Requests) \in Nat \ {0}
  BY <1>1, FS_CardinalityType, FS_EmptySet
<1>4. ASSUME NEW p
      PROVE  IsFiniteSet(Team(p) \cup Returning(p)) /\ IsFiniteSet(Inviting(p))
  <2>1. Team(p) \cup Returning(p) \subseteq Users /\ Inviting(p) \subseteq Requests
    BY DEF Team, Returning, Inviting
  <2>2. QED
    BY <1>1, <1>2, <2>1, FS_Subset
<1>5. \A p : Load(p) \in Nat
  BY <1>4, FS_CardinalityType DEF Load
<1>6. QED
  BY <1>1, <1>2, <1>3, <1>4, <1>5

\* One request goes on as x: a team gets no account but those it had or was to
\* get back, and no more invitations.
LEMMA LoadKept ==
  ASSUME Sound, NEW r \in Requests, NEW x, Become(r, x), NEW p \in Partners,
         Team(p)' \subseteq Team(p) \cup Returning(p),
         \A u \in Users : Brings(x, p, u) => u \in Team(p) \cup Returning(p),
         Invites(x, p) => r \in Inviting(p)
  PROVE  Load(p)' <= Load(p) /\ Load(p)' \in Nat /\ Load(p) \in Nat
<1>1. \A q \in Requests : req'[q] = IF q = r THEN x ELSE req[q]
  BY DEF Become, Sound
<1>2. Returning(p)' \subseteq Team(p) \cup Returning(p)
  BY <1>1 DEF Returning
<1>3. Inviting(p)' \subseteq Inviting(p)
  BY <1>1 DEF Inviting
<1>4. /\ IsFiniteSet(Team(p) \cup Returning(p)) /\ IsFiniteSet(Inviting(p))
      /\ Team(p)' \cup Returning(p)' \subseteq Team(p) \cup Returning(p)
  BY <1>2, FiniteTeams
<1>5. PICK a, b : a = Team(p)' \cup Returning(p)' /\ b = Inviting(p)'
  OBVIOUS
<1>6. /\ Cardinality(a) <= Cardinality(Team(p) \cup Returning(p)) /\ Cardinality(a) \in Nat
      /\ Cardinality(b) <= Cardinality(Inviting(p)) /\ Cardinality(b) \in Nat
  BY <1>3, <1>4, <1>5, FS_Subset, FS_CardinalityType
<1>7. Cardinality(Team(p) \cup Returning(p)) \in Nat /\ Cardinality(Inviting(p)) \in Nat
  BY <1>4, FS_CardinalityType
<1>8. Load(p)' = Cardinality(a) + Cardinality(b)
  BY <1>5 DEF Load
<1>9. QED
  BY <1>6, <1>7, <1>8 DEF Load

\* An invitation that has counted a team below the cap is one more; every other
\* request brings back or invites one account at most.
LEMMA LoadCounted ==
  ASSUME Sound, NEW p \in Partners, NEW S, S \subseteq Requests,
         \A r \in S : req[r].op = "invite",
         Cardinality(Team(p)) < MaxTeam
  PROVE  Cardinality(Team(p) \cup Returning(p)) + Cardinality(S)
           <= MaxTeam + (Cardinality(Requests) - 1)
<1>1. IsFiniteSet(Requests) /\ IsFiniteSet(Users) /\ MaxTeam \in Nat
      /\ Cardinality(Requests) \in Nat
  BY FiniteTeams
<1> DEFINE H == {r \in Requests : /\ Holds(req[r]) /\ req[r].row.role = "partner"
                                  /\ req[r].row.partner = p}
<1>2. IsFiniteSet(H) /\ IsFiniteSet(S) /\ IsFiniteSet(Team(p)) /\ IsFiniteSet(Returning(p))
  <2>1. H \subseteq Requests /\ Team(p) \subseteq Users /\ Returning(p) \subseteq Users
    BY DEF Team, Returning
  <2>2. QED
    BY <1>1, <2>1, FS_Subset
<1>3. Cardinality(Returning(p)) <= Cardinality(H)
  <2> DEFINE holder == [r \in H |-> req[r].user]
  <2>1. \A r \in H : req[r].user \in Users
    BY DEF Sound, Refers, Holds
  <2>2. holder \in [H -> Returning(p)]
    BY <2>1 DEF Returning, Brings
  <2>3. \A u \in Returning(p) : \E r \in H : holder[r] = u
    BY DEF Returning, Brings
  <2>4. holder \in Surjection(H, Returning(p))
    BY <2>2, <2>3 DEF Surjection
  <2>5. QED
    BY <1>2, <2>4, FS_Surjection
<1>4. H \cap S = {} /\ H \cup S \subseteq Requests
  BY DEF Holds
<1>5. Cardinality(H) + Cardinality(S) <= Cardinality(Requests)
  <2>1. Cardinality(H \cup S) <= Cardinality(Requests) /\ IsFiniteSet(H \cup S)
    BY <1>1, <1>4, FS_Subset
  <2>2. /\ Cardinality(H \cup S) = Cardinality(H) + Cardinality(S) - Cardinality(H \cap S)
        /\ Cardinality(H \cap S) = 0
    BY <1>2, <1>4, FS_Union, FS_EmptySet
  <2>3. Cardinality(H) \in Nat /\ Cardinality(S) \in Nat
    BY <1>2, FS_CardinalityType
  <2>4. QED
    BY <1>1, <2>1, <2>2, <2>3
<1>6. Cardinality(Team(p) \cup Returning(p)) <= Cardinality(Team(p)) + Cardinality(Returning(p))
  <2>1. Cardinality(Team(p) \cup Returning(p)) =
          Cardinality(Team(p)) + Cardinality(Returning(p)) - Cardinality(Team(p) \cap Returning(p))
    BY <1>2, FS_Union
  <2>2. IsFiniteSet(Team(p) \cap Returning(p))
    BY <1>2, FS_Subset
  <2>3. QED
    BY <1>2, <2>1, <2>2, FS_CardinalityType
<1>7. /\ Cardinality(H) \in Nat /\ Cardinality(S) \in Nat /\ Cardinality(Team(p)) \in Nat
      /\ Cardinality(Returning(p)) \in Nat /\ Cardinality(Team(p) \cup Returning(p)) \in Nat
  BY <1>2, FiniteTeams, FS_CardinalityType
<1> HIDE DEF H
<1>8. QED
  BY <1>1, <1>3, <1>5, <1>6, <1>7

LEMMA LoadsKept ==
  ASSUME Sound, Counts, moved' = moved \/ moved' = moved + 1,
         \A p \in Partners : Load(p)' <= Load(p) /\ Load(p)' \in Nat /\ Load(p) \in Nat
  PROVE  Counts'
<1>1. ASSUME NEW p \in Partners
      PROVE  Load(p)' <= MaxTeam + (Cardinality(Requests) - 1) + moved'
  <2>1. /\ Load(p) <= MaxTeam + (Cardinality(Requests) - 1) + moved
        /\ MaxTeam \in Nat /\ Cardinality(Requests) \in Nat /\ moved \in Nat
    BY <1>1, FiniteTeams DEF Counts, Sound
  <2>2. QED
    BY <1>1, <2>1
<1>2. QED
  BY <1>1 DEF Counts

LEMMA StillCounts ==
  ASSUME Sound, Counts, NEW r \in Requests, NEW x, Become(r, x),
         moved' = moved \/ moved' = moved + 1,
         \A p \in Partners : /\ Team(p)' \subseteq Team(p) \cup Returning(p)
                             /\ \A u \in Users : Brings(x, p, u) => u \in Team(p) \cup Returning(p)
                             /\ Invites(x, p) => r \in Inviting(p)
  PROVE  Counts'
<1>1. ASSUME NEW p \in Partners
      PROVE  Load(p)' <= Load(p) /\ Load(p)' \in Nat /\ Load(p) \in Nat
  BY <1>1, LoadKept
<1>2. QED
  BY <1>1, LoadsKept

LEMMA ReadsCount ==
  ASSUME Sound, Counts, NEW r \in Requests, NEW x, Become(r, x), UNCHANGED <<user, moved>>,
         \A p \in Partners : /\ \A u \in Users : Brings(x, p, u) => u \in Team(p) \cup Returning(p)
                             /\ Invites(x, p) => r \in Inviting(p)
  PROVE  Counts'
<1>1. \A p \in Partners : Team(p)' = Team(p)
  BY DEF Team
<1>2. QED
  BY <1>1, StillCounts

LEMMA FinishCounts ==
  ASSUME Sound, Counts, NEW r \in Requests, Finish(r), UNCHANGED <<user, moved>>
  PROVE  Counts'
<1>1. PICK x : x = NoRequest
  OBVIOUS
<1>2. Become(r, x)
  BY <1>1 DEF Finish
<1>3. x.op = "none"
  BY <1>1 DEF NoRequest
<1>4. \A p, u : ~Brings(x, p, u) /\ ~Invites(x, p)
  BY <1>3 DEF Brings, Holds, Invites
<1>5. QED
  BY <1>2, <1>4, ReadsCount

LEMMA AcceptCounts ==
  ASSUME Sound, Counts, NEW r \in Requests,
         StaffRequest(r) \/ OwnRequest(r) \/ MemberRequest(r)
  PROVE  Counts'
<1>1. PICK x : Fresh(x) /\ Become(r, x) /\ UNCHANGED <<user, moved>>
  BY AcceptFresh DEF Sound
<1>2. \A p, u : ~Brings(x, p, u) /\ ~Invites(x, p)
  BY <1>1 DEF Fresh, Brings, Holds, Invites
<1>3. QED
  BY <1>1, <1>2, ReadsCount

LEMMA ChecksCount ==
  ASSUME Sound, Counts, NEW r \in Requests,
         CheckPartnerEmail(r) \/ CheckUserEmail(r) \/ CheckUser(r)
  PROVE  Counts'
<1>1. UNCHANGED <<user, moved>>
  BY DEF CheckPartnerEmail, CheckUserEmail, CheckUser, OnlyReads
<1>2. CASE Finish(r)
  BY <1>1, <1>2, FinishCounts
<1>3. CASE \E x : Become(r, x) /\ Moves(req[r], x) /\ Same(req[r], x)
  <2>1. PICK w : w = req[r]
    OBVIOUS
  <2>2. PICK x : Become(r, x) /\ Moves(w, x) /\ Same(w, x)
    BY <1>3, <2>1
  <2>3. ~Waits(w, "savePartner") /\ ~Waits(w, "countTeam")
    BY <2>1 DEF CheckPartnerEmail, CheckUserEmail, CheckUser, At, Waits
  <2>4. ASSUME NEW p \in Partners
        PROVE  /\ \A u \in Users : Brings(x, p, u) => u \in Returning(p)
               /\ Invites(x, p) => r \in Inviting(p)
    BY <2>1, <2>2, <2>3 DEF Moves, Same, Brings, Holds, Invites, Returning, Inviting
  <2>5. QED
    BY <1>1, <2>2, <2>4, ReadsCount
<1>4. QED
  BY <1>2, <1>3, ChecksGoOn DEF GoesOn

\* An invitation goes on when the team it has counted is below the cap.
LEMMA CountTeamCounts ==
  ASSUME Sound, Counts, NEW r \in Requests, CountTeam(r)
  PROVE  Counts'
<1>1. UNCHANGED <<user, moved>>
  BY DEF CountTeam, OnlyReads
<1>2. CASE Finish(r)
  BY <1>1, <1>2, FinishCounts
<1>3. CASE ~Finish(r)
  <2>1. PICK w : w = req[r]
    OBVIOUS
  <2>2. PICK x : Become(r, x) /\ Moves(w, x) /\ Same(w, x)
    BY <1>3, <2>1, ChecksGoOn DEF GoesOn
  <2>3. Fits(w) /\ w.op = "invite" /\ Cardinality(Team(w.partner)) < MaxTeam
    <3>1. Fits(w) /\ w.steps # <<>> /\ Head(w.steps) = "countTeam"
      BY <2>1 DEF Sound, CountTeam, At
    <3>2. w.op = "invite"
      BY <3>1, Places DEF Fits
    <3>3. ~(Cardinality(Team(w.partner)) >= MaxTeam)
      BY <1>3, <2>1 DEF CountTeam, Counted
    <3>4. IsFiniteSet(Team(w.partner)) /\ MaxTeam \in Nat
      <4>1. Team(w.partner) \subseteq Users
        BY DEF Team
      <4>2. QED
        BY <4>1, FiniteTeams, FS_Subset
    <3>5. QED
      BY <3>1, <3>2, <3>3, <3>4, FS_CardinalityType
  <2>4. \A q \in Requests : req'[q] = IF q = r THEN x ELSE req[q]
    BY <2>2 DEF Become, Sound
  <2>5. \A p, u : ~Brings(x, p, u) /\ ~Brings(w, p, u)
    BY <2>2, <2>3 DEF Moves, Brings, Holds
  <2>6. ASSUME NEW p \in Partners
        PROVE  Load(p)' <= MaxTeam + (Cardinality(Requests) - 1) + moved'
    <3>1. CASE w.partner = p
      <4>1. PICK S : S = Inviting(p)'
        OBVIOUS
      <4>2. S \subseteq Requests
        BY <4>1 DEF Inviting
      <4>3. \A q \in S : req[q].op = "invite"
        BY <2>1, <2>3, <2>4, <4>1 DEF Inviting, Invites
      <4>4. Cardinality(Team(p) \cup Returning(p)) + Cardinality(S)
              <= MaxTeam + (Cardinality(Requests) - 1)
        BY <2>3, <3>1, <4>2, <4>3, LoadCounted
      <4>5. Team(p)' = Team(p)
        BY <1>1 DEF Team
      <4>6. Returning(p)' = Returning(p)
        BY <2>1, <2>4, <2>5 DEF Returning
      <4>7. Load(p)' = Cardinality(Team(p) \cup Returning(p)) + Cardinality(S)
        BY <4>1, <4>5, <4>6 DEF Load
      <4>8. moved' \in Nat /\ MaxTeam \in Nat /\ Cardinality(Requests) \in Nat
        BY <1>1, FiniteTeams DEF Sound
      <4>9. Load(p)' \in Nat
        <5>1. IsFiniteSet(S) /\ IsFiniteSet(Team(p) \cup Returning(p))
          BY <4>2, FiniteTeams, FS_Subset
        <5>2. QED
          BY <4>7, <5>1, FS_CardinalityType
      <4>10. QED
        BY <4>4, <4>7, <4>8, <4>9
    <3>2. CASE w.partner # p
      <4>1. ~Invites(x, p)
        BY <2>2, <3>2 DEF Moves, Invites
      <4>2. Team(p)' = Team(p)
        BY <1>1 DEF Team
      <4>3. Load(p)' <= Load(p) /\ Load(p)' \in Nat /\ Load(p) \in Nat
        BY <2>2, <2>5, <4>1, <4>2, LoadKept
      <4>4. /\ Load(p) <= MaxTeam + (Cardinality(Requests) - 1) + moved
            /\ MaxTeam \in Nat /\ Cardinality(Requests) \in Nat /\ moved \in Nat
        BY FiniteTeams DEF Counts, Sound
      <4>5. QED
        BY <1>1, <4>3, <4>4
    <3>3. QED
      BY <3>1, <3>2
  <2>7. QED
    BY <2>6 DEF Counts
<1>4. QED
  BY <1>2, <1>3

LEMMA ReadPartnerCounts ==
  ASSUME Sound, Counts, NEW r \in Requests, ReadPartner(r)
  PROVE  Counts'
<1>1. UNCHANGED <<user, moved>>
  BY DEF ReadPartner, OnlyReads
<1>2. CASE Finish(r)
  BY <1>1, <1>2, FinishCounts
<1>3. CASE ~Finish(r)
  <2>1. PICK w : w = req[r]
    OBVIOUS
  <2>2. PICK x : Become(r, x) /\ Moves(w, x) /\ x.user = w.user /\ x.row = w.row
    BY <1>3, <2>1, ReadPartnerGoesOn
  <2>3. Fits(w) /\ Waits(w, "readPartner") /\ w.op # "invite"
    BY <2>1, Places DEF Sound, ReadPartner, At, Waits, Fits
  <2>4. ASSUME NEW p \in Partners
        PROVE  /\ \A u \in Users : Brings(x, p, u) => u \in Returning(p)
               /\ ~Invites(x, p)
    BY <2>1, <2>2, <2>3 DEF Moves, Waits, Brings, Holds, Invites, Returning
  <2>5. QED
    BY <1>1, <2>2, <2>4, ReadsCount
<1>4. QED
  BY <1>2, <1>3

LEMMA ReadLoginCounts ==
  ASSUME Sound, Counts, NEW r \in Requests, ReadLogin(r)
  PROVE  Counts'
<1>1. UNCHANGED <<user, moved>>
  BY DEF ReadLogin, OnlyReads
<1>2. CASE Finish(r)
  BY <1>1, <1>2, FinishCounts
<1>3. CASE ~Finish(r)
  <2>1. PICK w : w = req[r]
    OBVIOUS
  <2>2. PICK x : /\ Become(r, x) /\ Moves(w, x)
                 /\ \/ x.row = None
                    \/ x.user \in Team(w.partner) /\ x.row = user[x.user]
    BY <1>3, <2>1, ReadLoginGoesOn
  <2>3. Fits(w) /\ Waits(w, "readLogin") /\ w.op # "invite"
    BY <2>1, Places DEF Sound, ReadLogin, At, Waits, Fits
  <2>4. ASSUME NEW p \in Partners
        PROVE  /\ \A u \in Users : Brings(x, p, u) => u \in Team(p)
               /\ ~Invites(x, p)
    BY <2>2, <2>3 DEF Moves, Brings, Holds, Invites, Team
  <2>5. QED
    BY <1>1, <2>2, <2>4, ReadsCount
<1>4. QED
  BY <1>2, <1>3

LEMMA ReadHolderCounts ==
  ASSUME Sound, Counts, NEW r \in Requests, ReadHolder(r)
  PROVE  Counts'
<1>1. UNCHANGED <<user, moved>>
  BY DEF ReadHolder, OnlyReads
<1>2. PICK w : w = req[r]
  OBVIOUS
<1>3. PICK x : Become(r, x) /\ x.op = w.op /\ Chosen(w, x)
  BY <1>2, ReadHolderGoesOn
<1>4. /\ Waits(w, "readHolder") /\ w.op = "updatePartner"
      /\ w.user = None <=> w.row = None
  BY <1>2, Places DEF Sound, ReadHolder, At, Waits, Fits, Knows
<1>5. ASSUME NEW p \in Partners, NEW u \in Users, Brings(x, p, u)
      PROVE  u \in Team(p) \cup Returning(p)
  <2>1. CASE x.user = w.user /\ x.row = w.row
    BY <1>2, <1>4, <1>5, <2>1 DEF Waits, Brings, Holds, Returning
  <2>2. CASE x.user \in UsersWith(w.prow.email) /\ x.row = user[x.user]
    BY <1>5, <2>2 DEF UsersWith, Brings, Team
  <2>3. QED
    BY <1>3, <2>1, <2>2 DEF Chosen
<1>6. \A p : ~Invites(x, p)
  BY <1>3, <1>4 DEF Invites
<1>7. QED
  BY <1>1, <1>3, <1>5, <1>6, ReadsCount

LEMMA ReadRowCounts ==
  ASSUME Sound, Counts, NEW r \in Requests, ReadUser(r) \/ ReadMember(r)
  PROVE  Counts'
<1>1. UNCHANGED <<user, moved>>
  BY DEF ReadUser, ReadMember, OnlyReads
<1>2. CASE Finish(r)
  BY <1>1, <1>2, FinishCounts
<1>3. CASE ~Finish(r)
  <2>1. PICK w : w = req[r]
    OBVIOUS
  <2>2. PICK x : Become(r, x) /\ Moves(w, x)
    BY <1>3, <2>1, ReadRowGoesOn
  <2>3. w.op \notin {"updatePartner", "invite"}
    BY <2>1, Places DEF Sound, ReadUser, ReadMember, At, Fits, OfAccounts, Welcomes, Patches, Edits
  <2>4. \A p, u : ~Brings(x, p, u) /\ ~Invites(x, p)
    BY <2>2, <2>3 DEF Moves, Brings, Holds, Invites
  <2>5. QED
    BY <1>1, <2>2, <2>4, ReadsCount
<1>4. QED
  BY <1>2, <1>3

\* Teams that get one account at a time.
LEMMA OneMore ==
  ASSUME NEW p, NEW k, NEW a,
         a \subseteq (Team(p) \cup Returning(p)) \cup {k}
  PROVE  /\ Cardinality(a) <= Cardinality(Team(p) \cup Returning(p)) + 1
         /\ Cardinality(a) \in Nat /\ Cardinality(Team(p) \cup Returning(p)) \in Nat
<1>1. PICK t : t = Team(p) \cup Returning(p)
  OBVIOUS
<1>2. IsFiniteSet(t) /\ Cardinality(t) \in Nat
  BY <1>1, FiniteTeams, FS_CardinalityType
<1>3. IsFiniteSet(t \cup {k}) /\ Cardinality(t \cup {k}) <= Cardinality(t) + 1
  <2>1. CASE k \in t
    <3>1. t \cup {k} = t
      BY <2>1
    <3>2. QED
      BY <1>2, <3>1
  <2>2. CASE k \notin t
    <3>1. IsFiniteSet(t \cup {k}) /\ Cardinality(t \cup {k}) = Cardinality(t) + 1
      BY <1>2, <2>2, FS_AddElement
    <3>2. QED
      BY <1>2, <3>1
  <2>3. QED
    BY <2>1, <2>2
<1>4. /\ Cardinality(a) <= Cardinality(t \cup {k})
      /\ Cardinality(a) \in Nat /\ Cardinality(t \cup {k}) \in Nat
  BY <1>1, <1>3, FS_Subset, FS_CardinalityType
<1>5. QED
  BY <1>1, <1>2, <1>3, <1>4

\* The account takes the place of the invitation that has counted the team.
LEMMA InsertUserCounts ==
  ASSUME Sound, Counts, NEW r \in Requests, InsertUser(r)
  PROVE  Counts'
<1>1. Finish(r) /\ moved' = moved
  BY DEF InsertUser
<1>2. CASE user' = user
  BY <1>1, <1>2, FinishCounts
<1>3. CASE user' # user
  <2>1. PICK w : w = req[r]
    OBVIOUS
  <2>2. /\ Fits(w) /\ Waits(w, "insertUser") /\ w.op \in {"invite", "createStaff", "createUser"}
        /\ w.op # "invite" => w.partner = None
    BY <2>1, Places DEF Sound, InsertUser, At, Waits, Fits, Asks, Creates
  <2>3. PICK k : k = NextUser
    OBVIOUS
  <2>4. k \in Users /\ user[k] = None
    <3>1. NextUser \in Users
      BY <1>3 DEF InsertUser
    <3>2. QED
      BY <2>3, <3>1, NextIsFree DEF Sound, Users
  <2>5. PICK row : row = NewUser(w.op, w.email, w.partner)
    OBVIOUS
  <2>6. row \in UserRows /\ row.partner = w.partner /\ (row.role = "partner" => w.op = "invite")
    BY <2>2, <2>5 DEF NewUser, UserRows, Roles, AccountStatuses, Fits, Asks, Creates, OfPartners
  <2>7. user' = [user EXCEPT ![k] = row]
    BY <1>3, <2>1, <2>3, <2>5 DEF InsertUser
  <2>8. \A v \in Users : user'[v] = IF v = k THEN row ELSE user[v]
    BY <2>7 DEF Sound, Tables
  <2>9. PICK x : x = NoRequest
    OBVIOUS
  <2>10. Become(r, x) /\ \A p, u : ~Brings(x, p, u) /\ ~Invites(x, p)
    <3>1. x.op = "none"
      BY <2>9 DEF NoRequest
    <3>2. QED
      BY <1>1, <2>9, <3>1 DEF Finish, Brings, Holds, Invites
  <2>11. ASSUME NEW p \in Partners
         PROVE  Load(p)' <= Load(p) /\ Load(p)' \in Nat /\ Load(p) \in Nat
    <3>1. CASE w.op = "invite" /\ w.partner = p
      <4>1. \A q \in Requests : req'[q] = IF q = r THEN x ELSE req[q]
        BY <2>10 DEF Become, Sound
      <4>2. Inviting(p)' = Inviting(p) \ {r} /\ r \in Inviting(p)
        BY <2>1, <2>2, <2>10, <3>1, <4>1 DEF Inviting, Invites, Waits
      <4>3. Team(p)' \cup Returning(p)' \subseteq (Team(p) \cup Returning(p)) \cup {k}
        BY <2>8, <2>10, <4>1 DEF Team, Returning
      <4>4. PICK a, b : a = Team(p)' \cup Returning(p)' /\ b = Inviting(p)'
        OBVIOUS
      <4>5. /\ Cardinality(a) <= Cardinality(Team(p) \cup Returning(p)) + 1
            /\ Cardinality(a) \in Nat /\ Cardinality(Team(p) \cup Returning(p)) \in Nat
        BY <4>3, <4>4, OneMore
      <4>6. Cardinality(b) = Cardinality(Inviting(p)) - 1 /\ IsFiniteSet(b)
        <5>1. PICK c : c = Inviting(p)
          OBVIOUS
        <5>2. IsFiniteSet(c) /\ r \in c /\ b = c \ {r}
          BY <4>2, <4>4, <5>1, FiniteTeams
        <5>3. IsFiniteSet(c \ {r}) /\ Cardinality(c \ {r}) = Cardinality(c) - 1
          BY <5>2, FS_RemoveElement
        <5>4. QED
          BY <5>1, <5>2, <5>3
      <4>7. Cardinality(b) \in Nat /\ Cardinality(Inviting(p)) \in Nat
        BY <4>6, FiniteTeams, FS_CardinalityType
      <4>8. Load(p)' = Cardinality(a) + Cardinality(b)
        BY <4>4 DEF Load
      <4>9. QED
        BY <4>5, <4>6, <4>7, <4>8 DEF Load
    <3>2. CASE ~(w.op = "invite" /\ w.partner = p)
      <4>1. row.role # "partner" \/ row.partner # p
        BY <2>6, <3>2
      <4>2. Team(p)' \subseteq Team(p)
        BY <2>8, <4>1 DEF Team
      <4>3. QED
        BY <2>10, <4>2, LoadKept
    <3>3. QED
      BY <3>1, <3>2
  <2>12. QED
    BY <1>1, <2>11, LoadsKept
<1>4. QED
  BY <1>2, <1>3

\* The team of the partner that is inserted has its login and nobody on the way.
LEMMA InsertBothCounts ==
  ASSUME Sound, Counts, NEW r \in Requests, InsertBoth(r)
  PROVE  Counts'
<1>1. Finish(r) /\ moved' = moved
  BY DEF InsertBoth
<1>2. CASE user' = user
  BY <1>1, <1>2, FinishCounts
<1>3. CASE user' # user
  <2>1. PICK w : w = req[r]
    OBVIOUS
  <2>2. Fits(w) /\ Waits(w, "insertBoth") /\ w.op = "createWithUser"
    BY <2>1, Places DEF Sound, InsertBoth, At, Waits, Fits
  <2>3. PICK n \in Partners : /\ partner[n] = None
                              /\ user' = [user EXCEPT ![NextUser] = NewUser(w.op, w.email, n)]
    BY <1>3, <2>1 DEF InsertBoth, FreePartners
  <2>4. PICK k : k = NextUser
    OBVIOUS
  <2>5. PICK row : row = NewUser(w.op, w.email, n)
    OBVIOUS
  <2>6. row \in UserRows /\ row.partner = n
    BY <2>2, <2>5 DEF NewUser, UserRows, Roles, AccountStatuses, Fits, Asks, Creates
  <2>7. \A v \in Users : user'[v] = IF v = k THEN row ELSE user[v]
    BY <2>3, <2>4, <2>5 DEF Sound, Tables
  <2>8. PICK x : x = NoRequest
    OBVIOUS
  <2>9. Become(r, x) /\ \A p, u : ~Brings(x, p, u) /\ ~Invites(x, p)
    <3>1. x.op = "none"
      BY <2>8 DEF NoRequest
    <3>2. QED
      BY <1>1, <2>8, <3>1 DEF Finish, Brings, Holds, Invites
  <2>10. Team(n) = {} /\ Returning(n) = {} /\ Inviting(n) = {}
    <3>1. Team(n) = {}
      BY <2>3, RowsAreSomething DEF Team, Sound, Tables
    <3>2. Returning(n) = {}
      <4>1. ASSUME NEW q \in Requests, Holds(req[q]), req[q].row.partner = n
            PROVE  FALSE
        <5>1. Refers(req[q]) /\ n # None
          BY RowsAreSomething DEF Sound
        <5>2. QED
          BY <2>3, <4>1, <5>1 DEF Holds, Refers
      <4>2. QED
        BY <4>1 DEF Returning, Brings
    <3>3. Inviting(n) = {}
      BY <2>3 DEF Inviting, Invites, Sound, Refers
    <3>4. QED
      BY <3>1, <3>2, <3>3
  <2>11. ASSUME NEW p \in Partners
         PROVE  Load(p)' <= MaxTeam + (Cardinality(Requests) - 1) + moved'
    <3>1. CASE p = n
      <4>1. \A q \in Requests : req'[q] = IF q = r THEN x ELSE req[q]
        BY <2>9 DEF Become, Sound
      <4>2. Team(p)' \cup Returning(p)' \subseteq {k}
        BY <2>7, <2>9, <2>10, <3>1, <4>1 DEF Team, Returning
      <4>3. Inviting(p)' = {}
        BY <2>9, <2>10, <3>1, <4>1 DEF Inviting
      <4>4. PICK a : a = Team(p)' \cup Returning(p)'
        OBVIOUS
      <4>5. Cardinality(a) <= 1 /\ Cardinality(a) \in Nat
        <5>1. IsFiniteSet({k}) /\ Cardinality({k}) = 1
          BY FS_Singleton
        <5>2. QED
          BY <4>2, <4>4, <5>1, FS_Subset, FS_CardinalityType
      <4>6. Load(p)' = Cardinality(a)
        <5>1. PICK b : b = Inviting(p)'
          OBVIOUS
        <5>2. Cardinality(b) = 0
          BY <4>3, <5>1, FS_EmptySet
        <5>3. Load(p)' = Cardinality(a) + Cardinality(b)
          BY <4>4, <5>1 DEF Load
        <5>4. QED
          BY <4>5, <5>2, <5>3
      <4>7. MaxTeam \in Nat \ {0} /\ Cardinality(Requests) \in Nat \ {0} /\ moved' \in Nat
        BY <1>1, FiniteTeams DEF Sound
      <4>8. QED
        <5>1. PICK l : l = Load(p)'
          OBVIOUS
        <5>2. l <= 1 /\ l \in Nat
          BY <4>5, <4>6, <5>1
        <5>3. PICK m, c : m = moved' /\ c = Cardinality(Requests)
          OBVIOUS
        <5>4. 1 <= MaxTeam + (c - 1) + m
          BY <4>7, <5>3
        <5>5. l <= MaxTeam + (c - 1) + m
          BY <4>7, <5>2, <5>3, <5>4
        <5>6. QED
          BY <5>1, <5>3, <5>5
    <3>2. CASE p # n
      <4>1. Team(p)' \subseteq Team(p)
        BY <2>6, <2>7, <3>2 DEF Team
      <4>2. Load(p)' <= Load(p) /\ Load(p)' \in Nat /\ Load(p) \in Nat
        BY <2>9, <4>1, LoadKept
      <4>3. /\ Load(p) <= MaxTeam + (Cardinality(Requests) - 1) + moved
            /\ MaxTeam \in Nat /\ Cardinality(Requests) \in Nat /\ moved \in Nat
        BY FiniteTeams DEF Counts, Sound
      <4>4. QED
        BY <1>1, <4>2, <4>3
    <3>3. QED
      BY <3>1, <3>2
  <2>12. QED
    BY <2>11 DEF Counts
<1>4. QED
  BY <1>2, <1>3

\* A late save may bring an account back into a team: it was counted before.
LEMMA SaveLoginCounts ==
  ASSUME Sound, Counts, NEW r \in Requests, SaveLogin(r)
  PROVE  Counts'
<1>1. moved' = moved
  BY DEF SaveLogin
<1>2. CASE Finish(r) /\ user' = user
  BY <1>1, <1>2, FinishCounts
<1>3. CASE ~(Finish(r) /\ user' = user)
  <2>1. PICK w : w = req[r]
    OBVIOUS
  <2>2. PICK x : /\ Become(r, x) /\ Moves(w, x) /\ Waits(x, "savePartner")
                 /\ \/ w.user = None /\ user' = user
                    \/ /\ w.user # None
                       /\ user' = [user EXCEPT ![w.user] = [w.row EXCEPT !.email = w.email]]
    BY <1>3, <2>1, SaveLoginGoesOn
  <2>3. Fits(w) /\ Waits(w, "saveLogin") /\ w.op = "updatePartner"
    BY <2>1, Places DEF Sound, SaveLogin, At, Fits, Waits
  <2>4. w.user # None => w.row \in UserRows /\ w.row # None
    BY <2>3, RowsAreSomething DEF Fits, Knows, RequestWith
  <2>5. \A p, u : ~Brings(x, p, u) /\ ~Invites(x, p)
    BY <2>2, <2>3 DEF Moves, Brings, Holds, Invites
  <2>6. ASSUME NEW p \in Partners
        PROVE  Team(p)' \subseteq Team(p) \cup Returning(p)
    <3>1. CASE user' = user
      BY <3>1 DEF Team
    <3>2. CASE w.user # None /\ user' = [user EXCEPT ![w.user] = [w.row EXCEPT !.email = w.email]]
      <4>1. PICK row : row = [w.row EXCEPT !.email = w.email]
        OBVIOUS
      <4>2. row.role = w.row.role /\ row.partner = w.row.partner
        BY <2>4, <3>2, <4>1 DEF UserRows
      <4>3. \A v \in Users : user'[v] = IF v = w.user THEN row ELSE user[v]
        BY <3>2, <4>1 DEF Sound, Tables
      <4>4. w.user \in Users /\ row.role = "partner" /\ row.partner = p => w.user \in Returning(p)
        BY <2>1, <2>3, <2>4, <3>2, <4>2 DEF Returning, Brings, Holds, Waits
      <4>5. QED
        BY <4>3, <4>4 DEF Team
    <3>3. QED
      BY <2>2, <3>1, <3>2
  <2>7. QED
    BY <1>1, <2>2, <2>5, <2>6, StillCounts
<1>4. QED
  BY <1>2, <1>3

\* Whoever the staff moves into a team is counted by moved.
LEMMA SaveUserCounts ==
  ASSUME Sound, Counts, NEW r \in Requests, SaveUser(r)
  PROVE  Counts'
<1>1. Finish(r)
  BY DEF SaveUser
<1>2. CASE UNCHANGED <<user, moved>>
  BY <1>1, <1>2, FinishCounts
<1>3. CASE ~UNCHANGED <<user, moved>>
  <2>1. PICK w : w = req[r]
    OBVIOUS
  <2>2. /\ user' = [user EXCEPT ![w.user] = w.row]
        /\ moved' = IF /\ w.row.role = "partner" /\ w.row.partner # None
                       /\ user[w.user].partner # w.row.partner \/ user[w.user].role # "partner"
                    THEN moved + 1 ELSE moved
    BY <1>3, <2>1 DEF SaveUser
  <2>3. \A v \in Users : user'[v] = IF v = w.user THEN w.row ELSE user[v]
    BY <2>2 DEF Sound, Tables
  <2>4. w.user \in Users /\ user[w.user] # None
    BY <2>1, RowsAreSomething DEF Sound, SaveUser, At, Waits, Fits, Knows, Refers
  <2>5. PICK x : x = NoRequest
    OBVIOUS
  <2>6. Become(r, x) /\ \A p, u : ~Brings(x, p, u) /\ ~Invites(x, p)
    <3>1. x.op = "none"
      BY <2>5 DEF NoRequest
    <3>2. QED
      BY <1>1, <2>5, <3>1 DEF Finish, Brings, Holds, Invites
  <2>7. CASE moved' = moved
    <3>1. ASSUME NEW p \in Partners
          PROVE  Team(p)' \subseteq Team(p)
      <4>1. p # None /\ moved + 1 # moved
        BY RowsAreSomething DEF Sound
      <4>2. w.row.role = "partner" /\ w.row.partner = p =>
              user[w.user].partner = p /\ user[w.user].role = "partner"
        BY <2>2, <2>7, <4>1
      <4>3. QED
        BY <2>3, <2>4, <4>2 DEF Team
    <3>2. QED
      BY <2>6, <2>7, <3>1, StillCounts
  <2>8. CASE moved' = moved + 1
    <3>1. ASSUME NEW p \in Partners
          PROVE  Load(p)' <= MaxTeam + (Cardinality(Requests) - 1) + moved'
      <4>1. \A q \in Requests : req'[q] = IF q = r THEN x ELSE req[q]
        BY <2>6 DEF Become, Sound
      <4>2. PICK a, b : a = Team(p)' \cup Returning(p)' /\ b = Inviting(p)'
        OBVIOUS
      <4>3. b \subseteq Inviting(p)
        BY <2>6, <4>1, <4>2 DEF Inviting
      <4>4. a \subseteq (Team(p) \cup Returning(p)) \cup {w.user}
        BY <2>3, <2>6, <4>1, <4>2 DEF Team, Returning
      <4>5. /\ Cardinality(a) <= Cardinality(Team(p) \cup Returning(p)) + 1
            /\ Cardinality(a) \in Nat /\ Cardinality(Team(p) \cup Returning(p)) \in Nat
        BY <4>4, OneMore
      <4>6. /\ Cardinality(b) <= Cardinality(Inviting(p))
            /\ Cardinality(b) \in Nat /\ Cardinality(Inviting(p)) \in Nat
        BY <4>3, FiniteTeams, FS_Subset, FS_CardinalityType
      <4>7. Load(p)' = Cardinality(a) + Cardinality(b)
        BY <4>2 DEF Load
      <4>8. /\ Load(p) <= MaxTeam + (Cardinality(Requests) - 1) + moved
            /\ MaxTeam \in Nat /\ Cardinality(Requests) \in Nat /\ moved \in Nat
        BY FiniteTeams DEF Counts, Sound
      <4>9. QED
        BY <2>8, <4>5, <4>6, <4>7, <4>8 DEF Load
    <3>2. QED
      BY <3>1 DEF Counts
  <2>9. QED
    BY <2>2, <2>7, <2>8
<1>4. QED
  BY <1>2, <1>3

LEMMA NextCounts ==
  ASSUME Sound, Counts, [Next]_vars
  PROVE  Counts'
<1>1. CASE UNCHANGED vars
  BY <1>1 DEF vars, Counts, Load, Team, Returning, Inviting
<1>2. ASSUME NEW r \in Requests, InsertPartner(r) \/ SavePartner(r) \/ Fail(r)
      PROVE  Counts'
  <2>1. Finish(r) /\ UNCHANGED <<user, moved>>
    BY <1>2 DEF InsertPartner, SavePartner, Fail
  <2>2. QED
    BY <1>2, <2>1, FinishCounts
<1>3. QED
  BY <1>1, <1>2, AcceptCounts, ChecksCount, CountTeamCounts, ReadPartnerCounts, ReadLoginCounts,
     ReadHolderCounts, ReadRowCounts, InsertBothCounts, InsertUserCounts, SaveLoginCounts,
     SaveUserCounts DEF Next, Proceed

LEMMA InitCounts == Init => Counts
<1>1. SUFFICES ASSUME Init, NEW p \in Partners
               PROVE  Load(p) <= MaxTeam + (Cardinality(Requests) - 1) + moved
  BY DEF Counts
<1>2. \A r \in Requests : req[r].op = "none"
  BY <1>1 DEF Init, NoRequest
<1>3. Returning(p) = {} /\ Inviting(p) = {}
  BY <1>2 DEF Returning, Inviting, Brings, Holds, Invites
<1>4. Team(p) = {u \in Users : InitialUser[u] # None /\ InitialUser[u].role = "partner"
                                 /\ InitialUser[u].partner = p}
  BY <1>1 DEF Init, Team
<1>5. Cardinality(Team(p)) <= MaxTeam
  BY <1>4, PortalAssumption
<1>6. Load(p) = Cardinality(Team(p)) + 0 /\ Load(p) \in Nat /\ Cardinality(Team(p)) \in Nat
  <2>1. Cardinality(Inviting(p)) = 0 /\ Team(p) \cup Returning(p) = Team(p)
    BY <1>3, FS_EmptySet
  <2>2. IsFiniteSet(Team(p)) /\ Load(p) \in Nat
    BY <2>1, FiniteTeams
  <2>3. Load(p) = Cardinality(Team(p)) + 0
    BY <2>1 DEF Load
  <2>4. QED
    BY <2>2, <2>3, FS_CardinalityType
<1>7. MaxTeam \in Nat /\ Cardinality(Requests) \in Nat \ {0} /\ moved = 0
  BY <1>1, FiniteTeams DEF Init
<1>8. QED
  BY <1>5, <1>6, <1>7

LEMMA CountsBound == Sound /\ Counts => TeamBounded
<1>1. SUFFICES ASSUME Sound, Counts, NEW p \in Partners
               PROVE  Cardinality(Team(p)) <= MaxTeam + (Cardinality(Requests) - 1) + moved
  BY DEF TeamBounded
<1>2. IsFiniteSet(Team(p) \cup Returning(p)) /\ IsFiniteSet(Inviting(p))
  BY FiniteTeams
<1>3. Team(p) \subseteq Team(p) \cup Returning(p)
  OBVIOUS
<1>4. /\ Cardinality(Team(p)) <= Cardinality(Team(p) \cup Returning(p))
      /\ Cardinality(Team(p)) \in Nat /\ Cardinality(Team(p) \cup Returning(p)) \in Nat
      /\ Cardinality(Inviting(p)) \in Nat
  BY <1>2, <1>3, FS_Subset, FS_CardinalityType
<1>5. /\ Load(p) <= MaxTeam + (Cardinality(Requests) - 1) + moved
      /\ MaxTeam \in Nat /\ Cardinality(Requests) \in Nat /\ moved \in Nat
  BY <1>1, FiniteTeams DEF Counts, Sound
<1>6. QED
  BY <1>4, <1>5 DEF Load

LEMMA AlwaysCounts == Spec => []Counts
<1>1. Init => Sound /\ Counts
  BY InitSound, InitCounts
<1>2. (Sound /\ Counts) /\ [Next]_vars => (Sound /\ Counts)'
  BY NextSound, NextCounts
<1>3. QED
  BY <1>1, <1>2, PTL DEF Spec

\* However many invitations count the same team before one of them inserts, a
\* partner's team exceeds the cap by the other requests at most, and by the
\* accounts the staff moves in; a late save of a login brings nobody back who was
\* not counted.
THEOREM TeamsAreBounded == Spec => []TeamBounded
  BY AlwaysSound, AlwaysCounts, CountsBound, PTL

-----------------------------------------------------------------------------
(* The e-mail of a partner and of its login.                               *)

Least(T) == CHOOSE u \in T : \A v \in T : u <= v

LEMMA LeastIs ==
  ASSUME NEW T \in SUBSET Nat, NEW u \in T, \A v \in T : u <= v
  PROVE  Least(T) = u
<1>1. PICK l : l = Least(T)
  OBVIOUS
<1>2. l \in T /\ \A v \in T : l <= v
  BY <1>1 DEF Least
<1>3. l \in Nat /\ u \in Nat /\ l <= u /\ u <= l
  BY <1>2
<1>4. QED
  BY <1>1, <1>3

\* A set of numbers that is not empty has a first element.
LEMMA HasLeast ==
  ASSUME NEW T \in SUBSET Nat, T # {}
  PROVE  Least(T) \in T /\ \A v \in T : Least(T) <= v
<1> DEFINE Below == {ss \in Nat \X Nat : ss[1] < ss[2]}
<1>1. IsWellFoundedOn(Below, Nat)
  BY NatLessThanWellFounded DEF OpToRel
<1>2. PICK u \in T : \A v \in T : ~(<<v, u>> \in Below)
  BY <1>1, WFMin
<1>3. ASSUME NEW v \in T PROVE u <= v
  <2>1. v \in Nat /\ u \in Nat
    OBVIOUS
  <2>2. PICK ss : ss = <<v, u>>
    OBVIOUS
  <2>3. ss \in Nat \X Nat /\ ss[1] = v /\ ss[2] = u
    BY <2>1, <2>2
  <2>4. ss \notin Below
    BY <1>2, <1>3, <2>2
  <2>5. ~(v < u)
    BY <2>3, <2>4
  <2>6. QED
    BY <2>1, <2>5
<1>4. u = Least(T)
  BY <1>3, LeastIs
<1>5. QED
  BY <1>3, <1>4

LEMMA PrimaryLeads ==
  ASSUME NEW p, Team(p) # {}
  PROVE  /\ Primary(p) = Least(Team(p)) /\ Primary(p) \in Team(p)
         /\ \A v \in Team(p) : Primary(p) <= v
<1>1. PICK T : T = Team(p)
  OBVIOUS
<1>2. T \in SUBSET Nat /\ T # {}
  BY <1>1 DEF Team, Users
<1>3. Primary(p) = Least(T)
  BY <1>1 DEF Primary, Least
<1>4. QED
  BY <1>1, <1>2, <1>3, HasLeast

\* A step leaves p's row, team and login as they are.
Undisturbed(p) ==
  /\ partner'[p] = partner[p]
  /\ Team(p) \subseteq Team(p)' /\ Primary(p)' = Primary(p)
  /\ \A u \in Team(p) : user'[u].email = user[u].email
  /\ \A y : Refers(y) /\ InPlace(y, p) => InPlace(y, p)'

\* The same accounts, or more that came later, are the team.
LEMMA PrimaryKept ==
  ASSUME NEW p, Team(p) # {}, Team(p) \subseteq Team(p)',
         \A u \in Team(p)' : u \in Team(p) \/ Primary(p) <= u
  PROVE  Primary(p)' = Primary(p)
<1>1. PICK T, S, u : T = Team(p) /\ S = Team(p)' /\ u = Primary(p)
  OBVIOUS
<1>2. T \subseteq S /\ S \in SUBSET Nat
  BY <1>1 DEF Team, Users
<1>3. u \in S /\ \A v \in S : u <= v
  BY <1>1, <1>2, PrimaryLeads
<1>4. Least(S) = u
  BY <1>2, <1>3, LeastIs
<1>5. Primary(p)' = Least(S)
  BY <1>1 DEF Primary, Least
<1>6. QED
  BY <1>1, <1>4, <1>5

LEMMA StillUndisturbed ==
  ASSUME NEW p, Team(p) # {}, UNCHANGED user, partner'[p] = partner[p]
  PROVE  Undisturbed(p)
<1>1. PICK T, S : T = Team(p) /\ S = Team(p)'
  OBVIOUS
<1>2. S = T
  BY <1>1 DEF Team
<1>3. Primary(p)' = Primary(p)
  BY <1>1, <1>2, PrimaryKept
<1>4. \A y : InPlace(y, p) => InPlace(y, p)'
  BY DEF InPlace, Holds, Waits
<1>5. QED
  BY <1>1, <1>2, <1>3, <1>4 DEF Undisturbed

\* One request goes on as x and nothing else happens to p.
LEMMA SettledStep ==
  ASSUME NEW p \in Partners, Settled(p), Undisturbed(p), NEW r \in Requests, NEW x, Become(r, x),
         Sound,
         Writes(x, p) => Writes(req[r], p) /\ UpToDate(x, p)',
         Saves(req[r], p) => Saves(x, p), InPlace(x, p)'
  PROVE  Settled(p)'
<1>1. \A q \in Requests : req'[q] = IF q = r THEN x ELSE req[q]
  BY DEF Become, Sound
<1>2. PICK u : u = Primary(p)
  OBVIOUS
<1>3. /\ partner'[p] = partner[p] /\ Team(p) \subseteq Team(p)' /\ Primary(p)' = u
      /\ \A v \in Team(p) : user'[v].email = user[v].email
      /\ u \in Team(p) /\ Team(p) # {} /\ partner[p] # None
  BY <1>2, PrimaryLeads DEF Undisturbed, Settled
<1>4. partner'[p] # None /\ Team(p)' # {}
  BY <1>3
<1>5. \A q, s \in Requests : Writes(req'[q], p) /\ Writes(req'[s], p) => q = s
  BY <1>1 DEF Settled
<1>6. ASSUME \A q \in Requests : ~Saves(req'[q], p)
      PROVE  user'[u].email = partner'[p].email
  <2>1. \A q \in Requests : ~Saves(req[q], p)
    BY <1>1, <1>6
  <2>2. QED
    BY <1>2, <1>3, <2>1 DEF Settled
<1>7. ASSUME NEW q \in Requests
      PROVE  /\ Writes(req'[q], p) => UpToDate(req[q], p)'
             /\ InPlace(req[q], p)'
  <2>1. CASE q = r
    <3>1. req'[q] = x
      BY <1>1, <2>1
    <3>2. QED
      BY <3>1 DEF UpToDate, InPlace
  <2>2. CASE q # r
    <3>1. PICK y : y = req[q]
      OBVIOUS
    <3>2. req'[q] = y
      BY <1>1, <2>2, <3>1
    <3>3. InPlace(y, p)'
      <4>1. InPlace(req[q], p) /\ Refers(req[q])
        BY <1>7 DEF Settled, Sound
      <4>2. InPlace(y, p) /\ Refers(y)
        BY <3>1, <4>1
      <4>3. QED
        BY <4>2 DEF Undisturbed, InPlace
    <3>4. Writes(y, p) => UpToDate(y, p)'
      <4>1. SUFFICES ASSUME Writes(y, p) PROVE UpToDate(y, p)'
        OBVIOUS
      <4>2. UpToDate(y, p)
        BY <3>1, <4>1 DEF Settled
      <4>3. QED
        BY <1>2, <1>3, <4>2 DEF UpToDate, Saves, Holds, Waits
    <3>5. QED
      BY <3>2, <3>3, <3>4 DEF UpToDate, InPlace
  <2>3. QED
    BY <2>1, <2>2
<1>8. QED
  BY <1>3, <1>4, <1>5, <1>6, <1>7 DEF Settled

LEMMA ReadsAgree ==
  ASSUME Sound, Agrees, NEW r \in Requests, NEW x, Become(r, x),
         UNCHANGED <<partner, user, calm>>,
         \A p \in calm : /\ Writes(x, p) => Writes(req[r], p) /\ UpToDate(x, p)
                         /\ Saves(req[r], p) => Saves(x, p)
                         /\ InPlace(x, p)
  PROVE  Agrees'
<1>1. ASSUME NEW p \in calm PROVE Settled(p)'
  <2>1. p \in Partners /\ Settled(p) /\ Team(p) # {}
    BY <1>1 DEF Sound, Agrees, Settled
  <2>2. Undisturbed(p)
    BY <2>1, StillUndisturbed
  <2>3. PICK u : u = Primary(p)
    OBVIOUS
  <2>4. Primary(p)' = u /\ Team(p)' = Team(p)
    BY <2>2, <2>3 DEF Undisturbed, Team
  <2>5. Writes(x, p) => UpToDate(x, p)'
    <3>1. SUFFICES ASSUME Writes(x, p) PROVE UpToDate(x, p)'
      OBVIOUS
    <3>2. UpToDate(x, p)
      BY <1>1, <3>1
    <3>3. QED
      BY <2>3, <2>4, <3>2 DEF UpToDate, Saves, Holds, Waits
  <2>6. InPlace(x, p)'
    <3>1. InPlace(x, p)
      BY <1>1
    <3>2. QED
      BY <3>1 DEF InPlace, Holds, Waits
  <2>7. /\ Writes(x, p) => Writes(req[r], p) /\ UpToDate(x, p)'
        /\ Saves(req[r], p) => Saves(x, p)
    BY <1>1, <2>5
  <2>8. QED
    BY <2>1, <2>2, <2>6, <2>7, SettledStep
<1>2. calm' = calm
  OBVIOUS
<1>3. QED
  BY <1>1, <1>2 DEF Agrees

\* A request that ends leaves every partner settled that it has not disturbed.
LEMMA SettledEnd ==
  ASSUME Sound, NEW r \in Requests, Finish(r), NEW p \in Partners, Settled(p), Undisturbed(p),
         ~Saves(req[r], p)
  PROVE  Settled(p)'
<1>1. PICK x : x = NoRequest
  OBVIOUS
<1>2. Become(r, x) /\ x.op = "none"
  BY <1>1 DEF Finish, NoRequest
<1>3. ~Writes(x, p) /\ ~Holds(x)
  BY <1>2 DEF Writes, Holds
<1>4. InPlace(x, p)'
  BY <1>3 DEF InPlace, Holds, Waits
<1>5. QED
  BY <1>2, <1>3, <1>4, SettledStep

LEMMA EndAgrees ==
  ASSUME Sound, Agrees, NEW r \in Requests, Finish(r), calm' \subseteq calm,
         \A p \in calm' : ~Saves(req[r], p) /\ Undisturbed(p)
  PROVE  Agrees'
<1>1. ASSUME NEW p \in calm' PROVE Settled(p)'
  <2>1. p \in Partners /\ Settled(p) /\ Undisturbed(p) /\ ~Saves(req[r], p)
    BY <1>1 DEF Sound, Agrees
  <2>2. QED
    BY <2>1, SettledEnd
<1>2. QED
  BY <1>1 DEF Agrees

LEMMA EndingReadAgrees ==
  ASSUME Sound, Agrees, NEW r \in Requests, Finish(r), UNCHANGED <<partner, user, calm>>,
         ~Waits(req[r], "savePartner")
  PROVE  Agrees'
<1>1. ASSUME NEW p \in calm'
      PROVE  ~Saves(req[r], p) /\ Undisturbed(p)
  <2>1. p \in Partners /\ Team(p) # {}
    BY <1>1 DEF Sound, Agrees, Settled
  <2>2. Undisturbed(p)
    BY <2>1, StillUndisturbed
  <2>3. QED
    BY <2>2 DEF Saves
<1>2. QED
  BY <1>1, EndAgrees

\* A partner stays calm when nobody else is at it as a request comes.
LEMMA AcceptAgrees ==
  ASSUME Sound, Agrees, NEW r \in Requests,
         StaffRequest(r) \/ OwnRequest(r) \/ MemberRequest(r)
  PROVE  Agrees'
<1>1. PICK x : /\ Fresh(x) /\ Become(r, x) /\ UNCHANGED <<partner, user>>
               /\ calm' = {p \in calm : p \in About(x) => ~Busy(p)}
  BY AcceptFresh DEF Sound
<1>2. req[r] = NoRequest
  BY AcceptFresh DEF Sound
<1>3. \A q \in Requests : req'[q] = IF q = r THEN x ELSE req[q]
  BY <1>1 DEF Become, Sound
<1>4. ASSUME NEW p \in calm' PROVE Settled(p)'
  <2>1. p \in calm /\ p \in Partners /\ Settled(p) /\ Team(p) # {}
    BY <1>1, <1>4 DEF Sound, Agrees, Settled
  <2>2. Undisturbed(p)
    BY <1>1, <2>1, StillUndisturbed
  <2>3. ~Holds(x) /\ ~Saves(x, p) /\ x.prow = None
    BY <1>1 DEF Fresh, Holds, Saves, Waits
  <2>4. CASE ~Writes(x, p)
    <3>1. InPlace(x, p)'
      BY <2>3 DEF InPlace, Holds, Waits
    <3>2. ~Saves(req[r], p)
      BY <1>2 DEF Saves, NoRequest
    <3>3. QED
      BY <1>1, <2>1, <2>2, <2>4, <3>1, <3>2, SettledStep
  <2>5. CASE Writes(x, p)
    <3>1. x.partner = p /\ x.op # "none" /\ p # None
      BY <2>1, <2>5, RowsAreSomething DEF Writes
    <3>2. p \in About(x)
      BY <3>1 DEF About
    <3>3. ~Busy(p)
      BY <1>1, <1>4, <3>2
    <3>4. ASSUME NEW q \in Requests PROVE ~Writes(req[q], p)
      <4>1. CASE req[q] = NoRequest
        BY <4>1 DEF Writes, NoRequest
      <4>2. CASE req[q] # NoRequest
        BY <3>3, <4>2 DEF Busy, About, Writes
      <4>3. QED
        BY <4>1, <4>2
    <3>5. \A q \in Requests : ~Saves(req[q], p) /\ ~Saves(req'[q], p)
      BY <1>3, <2>3, <3>4 DEF Saves, Writes
    <3>6. PICK u : u = Primary(p)
      OBVIOUS
    <3>7. /\ partner'[p] = partner[p] /\ Team(p)' = Team(p) /\ Primary(p)' = u
          /\ user'[u] = user[u]
      BY <1>1, <2>2, <3>6 DEF Undisturbed, Team
    <3>8. user'[Primary(p)'].email = partner'[p].email
      BY <2>1, <3>5, <3>6, <3>7 DEF Settled
    <3>9. partner'[p] # None /\ Team(p)' # {}
      BY <2>1, <3>7 DEF Settled
    <3>10. \A q, s \in Requests : Writes(req'[q], p) /\ Writes(req'[s], p) => q = s
      BY <1>3, <3>4
    <3>11. Waits(x, "readPartner") /\ x.row = None
      BY <1>1, <2>5 DEF Fresh, Writes
    <3>12. UpToDate(x, p)'
      BY <2>3, <3>11 DEF UpToDate, Holds, Waits
    <3>13. ASSUME NEW q \in Requests
           PROVE  (Writes(req'[q], p) => UpToDate(req[q], p)') /\ InPlace(req[q], p)'
      <4>1. CASE q = r
        <5>1. req'[q] = x
          BY <1>3, <4>1
        <5>2. InPlace(x, p)'
          BY <2>3 DEF InPlace, Holds, Waits
        <5>3. QED
          BY <3>12, <5>1, <5>2 DEF UpToDate, InPlace
      <4>2. CASE q # r
        <5>1. PICK y : y = req[q]
          OBVIOUS
        <5>2. req'[q] = y /\ ~Writes(y, p)
          BY <1>3, <3>4, <4>2, <5>1
        <5>3. InPlace(req[q], p) /\ Refers(req[q])
          BY <2>1, <3>13 DEF Settled, Sound
        <5>4. InPlace(y, p) /\ Refers(y)
          BY <5>1, <5>3
        <5>5. InPlace(y, p)'
          BY <2>2, <5>4 DEF Undisturbed, InPlace
        <5>6. QED
          BY <5>2, <5>5 DEF InPlace
      <4>3. QED
        BY <4>1, <4>2
    <3>14. QED
      BY <3>8, <3>9, <3>10, <3>13 DEF Settled
  <2>6. QED
    BY <2>4, <2>5
<1>5. QED
  BY <1>4 DEF Agrees

LEMMA ChecksAgree ==
  ASSUME Sound, Agrees, NEW r \in Requests,
         CheckPartnerEmail(r) \/ CheckUserEmail(r) \/ CountTeam(r) \/ CheckUser(r)
  PROVE  Agrees'
<1>1. UNCHANGED <<partner, user, calm>>
  BY DEF CheckPartnerEmail, CheckUserEmail, CountTeam, CheckUser, OnlyReads
<1>2. PICK w : w = req[r]
  OBVIOUS
<1>3. /\ Fits(w) /\ w.steps # <<>>
      /\ Head(w.steps) \in {"partnerEmail", "userEmail", "countTeam", "checkUser"}
  BY <1>2 DEF Sound, CheckPartnerEmail, CheckUserEmail, CountTeam, CheckUser, At
<1>4. CASE Finish(r)
  <2>1. ~Waits(req[r], "savePartner")
    BY <1>2, <1>3 DEF Waits
  <2>2. QED
    BY <1>1, <1>4, <2>1, EndingReadAgrees
<1>5. CASE ~Finish(r)
  <2>1. PICK x : Become(r, x) /\ Moves(w, x) /\ Same(w, x)
    BY <1>2, <1>5, ChecksGoOn DEF GoesOn
  <2>2. Planned(w.op, w.steps)
    BY <1>3 DEF Fits
  <2>3. /\ x.op \notin {"updateFees", "disablePartner"}
        /\ x.op = "updatePartner" => Head(x.steps) \in {"userEmail", "saveLogin"}
    BY <1>3, <2>1, <2>2, Places DEF Moves, Welcomes, Patches, Creates
  <2>4. Holds(x) <=> Holds(w)
    BY <1>3, <2>1, <2>3 DEF Moves, Same, Holds, Waits
  <2>5. ASSUME NEW p \in calm
        PROVE  /\ Writes(x, p) => Writes(w, p) /\ UpToDate(x, p)
               /\ Saves(w, p) => Saves(x, p)
               /\ InPlace(x, p)
    <3>1. Settled(p)
      BY <2>5 DEF Agrees
    <3>2. InPlace(w, p)
      BY <1>2, <3>1 DEF Settled
    <3>3. InPlace(x, p)
      BY <2>1, <2>4, <3>2 DEF InPlace, Same
    <3>4. Writes(x, p) => Writes(w, p)
      BY <2>1 DEF Writes, Moves
    <3>5. ~Saves(w, p) /\ ~Saves(x, p)
      BY <1>3, <2>3 DEF Saves, Waits
    <3>6. ASSUME Writes(x, p) PROVE UpToDate(x, p)
      <4>1. UpToDate(w, p)
        BY <1>2, <3>1, <3>4, <3>6 DEF Settled
      <4>2. w.op = "updatePartner" /\ x.op = "updatePartner"
        BY <2>1, <2>3, <3>6 DEF Writes, Moves
      <4>3. QED
        BY <1>3, <2>1, <2>3, <2>4, <3>5, <4>1, <4>2 DEF UpToDate, Moves, Same, Waits
    <3>7. QED
      BY <3>3, <3>4, <3>5, <3>6
  <2>6. QED
    BY <1>1, <1>2, <2>1, <2>5, ReadsAgree
<1>6. QED
  BY <1>4, <1>5

LEMMA ReadPartnerAgrees ==
  ASSUME Sound, Agrees, NEW r \in Requests, ReadPartner(r)
  PROVE  Agrees'
<1>1. UNCHANGED <<partner, user, calm>>
  BY DEF ReadPartner, OnlyReads
<1>2. PICK w : w = req[r]
  OBVIOUS
<1>3. Fits(w) /\ Waits(w, "readPartner")
  BY <1>2 DEF Sound, ReadPartner, At, Waits
<1>4. CASE Finish(r)
  <2>1. ~Waits(req[r], "savePartner")
    BY <1>2, <1>3 DEF Waits
  <2>2. QED
    BY <1>1, <1>4, <2>1, EndingReadAgrees
<1>5. CASE ~Finish(r)
  <2>1. PICK x : /\ Become(r, x) /\ Moves(w, x) /\ x.user = w.user /\ x.row = w.row
                 /\ x.prow.email = partner[w.partner].email
    BY <1>2, <1>5, ReadPartnerGoesOn
  <2>2. /\ x.op = "updatePartner" => Waits(x, "readLogin")
        /\ x.op = "updatePartner" => x.row = None
    BY <1>3, <2>1, Places DEF Fits, Moves, Waits, Knows
  <2>3. ~Holds(x)
    BY <2>2 DEF Holds
  <2>4. ASSUME NEW p \in calm
        PROVE  /\ Writes(x, p) => Writes(w, p) /\ UpToDate(x, p)
               /\ Saves(w, p) => Saves(x, p)
               /\ InPlace(x, p)
    <3>1. InPlace(x, p)
      BY <2>3 DEF InPlace
    <3>2. Writes(x, p) => Writes(w, p) /\ x.partner = p /\ w.partner = p
      BY <2>1 DEF Writes, Moves
    <3>3. ~Saves(w, p) /\ ~Saves(x, p)
      BY <1>3, <2>2 DEF Saves, Waits
    <3>4. ASSUME Writes(x, p) PROVE UpToDate(x, p)
      BY <2>1, <2>2, <2>3, <3>2, <3>3, <3>4 DEF UpToDate
    <3>5. QED
      BY <3>1, <3>2, <3>3, <3>4
  <2>5. QED
    BY <1>1, <1>2, <2>1, <2>4, ReadsAgree
<1>6. QED
  BY <1>4, <1>5

LEMMA ReadLoginAgrees ==
  ASSUME Sound, Agrees, NEW r \in Requests, ReadLogin(r)
  PROVE  Agrees'
<1>1. UNCHANGED <<partner, user, calm>>
  BY DEF ReadLogin, OnlyReads
<1>2. PICK w : w = req[r]
  OBVIOUS
<1>3. Fits(w) /\ Waits(w, "readLogin")
  BY <1>2 DEF Sound, ReadLogin, At, Waits
<1>4. CASE Finish(r)
  <2>1. ~Waits(req[r], "savePartner")
    BY <1>2, <1>3 DEF Waits
  <2>2. QED
    BY <1>1, <1>4, <2>1, EndingReadAgrees
<1>5. CASE ~Finish(r)
  <2>1. PICK x : /\ Become(r, x) /\ Moves(w, x) /\ x.prow = w.prow
                 /\ \/ x.user = None /\ x.row = None /\ Team(w.partner) = {}
                    \/ x.user \in Team(w.partner) /\ x.row = user[x.user] /\ x.row \in UserRows
    BY <1>2, <1>5, ReadLoginGoesOn
  <2>2. /\ w.op \in {"updatePartner", "welcomePartner"}
        /\ x.op = "updatePartner" => Waits(x, "readHolder")
    BY <1>3, <2>1, Places DEF Fits, Moves, Waits
  <2>3. ASSUME NEW p \in calm
        PROVE  /\ Writes(x, p) => Writes(w, p) /\ UpToDate(x, p)
               /\ Saves(w, p) => Saves(x, p)
               /\ InPlace(x, p)
    <3>1. Settled(p)
      BY <2>3 DEF Agrees
    <3>2. InPlace(x, p)
      BY <2>1 DEF InPlace, Holds
    <3>3. Writes(x, p) => Writes(w, p) /\ x.partner = p /\ w.partner = p /\ w.op = "updatePartner"
      BY <2>1, <2>2 DEF Writes, Moves
    <3>4. ~Saves(w, p) /\ ~Saves(x, p)
      BY <1>3, <2>2 DEF Saves, Waits
    <3>5. ASSUME Writes(x, p) PROVE UpToDate(x, p)
      <4>1. UpToDate(w, p) /\ Team(p) # {}
        BY <1>2, <3>1, <3>3, <3>5 DEF Settled
      <4>2. x.user \in Team(p) /\ x.row = user[x.user] /\ x.row # None
        BY <2>1, <3>3, <3>5, <4>1, RowsAreSomething
      <4>3. Waits(x, "readHolder")
        BY <2>1, <2>2, <3>3, <3>5 DEF Moves
      <4>4. x.prow # None => x.prow.email = partner[p].email
        BY <2>1, <3>4, <4>1 DEF UpToDate
      <4>5. QED
        BY <3>4, <4>2, <4>3, <4>4 DEF UpToDate
    <3>6. QED
      BY <3>2, <3>3, <3>4, <3>5
  <2>4. QED
    BY <1>1, <1>2, <2>1, <2>3, ReadsAgree
<1>6. QED
  BY <1>4, <1>5

LEMMA ReadRowAgrees ==
  ASSUME Sound, Agrees, NEW r \in Requests, ReadUser(r) \/ ReadMember(r)
  PROVE  Agrees'
<1>1. UNCHANGED <<partner, user, calm>>
  BY DEF ReadUser, ReadMember, OnlyReads
<1>2. PICK w : w = req[r]
  OBVIOUS
<1>3. Fits(w) /\ w.steps # <<>> /\ Head(w.steps) \in {"readUser", "readMember"}
  BY <1>2 DEF Sound, ReadUser, ReadMember, At
<1>4. CASE Finish(r)
  <2>1. ~Waits(req[r], "savePartner")
    BY <1>2, <1>3 DEF Waits
  <2>2. QED
    BY <1>1, <1>4, <2>1, EndingReadAgrees
<1>5. CASE ~Finish(r)
  <2>1. PICK x : Become(r, x) /\ Moves(w, x)
    BY <1>2, <1>5, ReadRowGoesOn
  <2>2. w.op \notin {"updatePartner", "updateFees", "disablePartner"}
    BY <1>3, Places DEF Fits, OfAccounts, Welcomes, Patches, Edits
  <2>3. \A p : ~Writes(x, p) /\ ~Saves(w, p) /\ InPlace(x, p)
    BY <2>1, <2>2 DEF Moves, Writes, Saves, InPlace, Holds
  <2>4. QED
    BY <1>1, <1>2, <2>1, <2>3, ReadsAgree
<1>6. QED
  BY <1>4, <1>5

\* The account that has the partner's e-mail is the partner's own login.
LEMMA ReadHolderAgrees ==
  ASSUME Sound, Agrees, NEW r \in Requests, ReadHolder(r)
  PROVE  Agrees'
<1>1. UNCHANGED <<partner, user, calm>>
  BY DEF ReadHolder, OnlyReads
<1>2. PICK w : w = req[r]
  OBVIOUS
<1>3. PICK x : /\ Become(r, x) /\ x.prow = w.prow /\ x.op = w.op
               /\ x.partner = w.partner /\ x.email = w.email /\ Chosen(w, x)
               /\ Waits(x, "savePartner") \/ Waits(x, "partnerEmail")
  BY <1>2, ReadHolderGoesOn
<1>4. Fits(w) /\ Refers(w) /\ Waits(w, "readHolder") /\ w.op = "updatePartner"
  BY <1>2, Places DEF Sound, ReadHolder, At, Fits, Waits
<1>5. (w.user = None <=> w.row = None) /\ w.prow \in PartnerRows /\ w.prow # None
  BY <1>4, RowsAreSomething DEF Fits, Knows, Waits
<1>6. ASSUME NEW p \in calm
      PROVE  /\ Writes(x, p) => Writes(w, p) /\ UpToDate(x, p)
             /\ Saves(w, p) => Saves(x, p)
             /\ InPlace(x, p)
  <2>1. Settled(p) /\ InPlace(w, p)
    BY <1>2, <1>6 DEF Agrees, Settled
  <2>2. Holds(w) <=> w.row # None
    BY <1>4 DEF Holds, Waits
  <2>3. InPlace(x, p)
    <3>1. CASE x.user = w.user /\ x.row = w.row
      BY <2>1, <2>2, <3>1 DEF InPlace, Holds
    <3>2. CASE x.row = user[x.user]
      BY <3>2 DEF InPlace
    <3>3. QED
      BY <1>3, <3>1, <3>2 DEF Chosen
  <2>4. Writes(x, p) => Writes(w, p) /\ w.partner = p /\ x.partner = p
    BY <1>3 DEF Writes
  <2>5. ~Saves(w, p)
    BY <1>4 DEF Saves, Waits
  <2>6. ASSUME Writes(x, p) PROVE UpToDate(x, p)
    <3>1. UpToDate(w, p) /\ Team(p) # {}
      BY <1>2, <2>1, <2>4, <2>6 DEF Settled
    <3>2. PICK u : u = Primary(p)
      OBVIOUS
    <3>3. u \in Team(p) /\ u \in Users /\ user[u] # None
      BY <3>1, <3>2, PrimaryLeads DEF Team
    <3>4. \A q \in Requests : ~Saves(req[q], p)
      BY <1>2, <2>1, <2>4, <2>5, <2>6 DEF Settled, Saves, Writes
    <3>5. user[u].email = partner[p].email
      BY <2>1, <3>2, <3>4 DEF Settled
    <3>6. w.prow.email = partner[p].email
      BY <1>5, <2>5, <3>1 DEF UpToDate
    <3>7. w.user \in Team(p) /\ w.row # None /\ w.row.email = user[w.user].email
      BY <1>4, <2>2, <3>1 DEF UpToDate, Waits
    <3>8. \A v \in Users : user[v] # None /\ user[v].email = w.prow.email => v = u
      BY <3>3, <3>5, <3>6 DEF Sound, Tables
    <3>9. x.user = u /\ x.row # None /\ x.row.email = user[u].email
      <4>1. CASE x.user = w.user /\ x.row = w.row
        <5>1. UsersWith(w.prow.email) # {}
          BY <3>3, <3>5, <3>6 DEF UsersWith
        <5>2. x.user # w.user \/ x.row # w.row \/ w.row.email = w.prow.email \/ x.user = u
          BY <1>3, <3>8, <5>1 DEF Chosen, UsersWith
        <5>3. w.user \in Users /\ user[w.user] # None
          BY <3>7 DEF Team
        <5>4. w.user = u
          BY <3>7, <3>8, <4>1, <5>2, <5>3
        <5>5. QED
          BY <3>7, <4>1, <5>4
      <4>2. CASE x.user \in UsersWith(w.prow.email)
        <5>1. x.user = u
          BY <3>8, <4>2 DEF UsersWith
        <5>2. (x.row = w.row /\ w.user = u) \/ x.row = user[u]
          BY <1>3, <4>2, <5>1 DEF Chosen
        <5>3. QED
          BY <3>3, <3>7, <5>1, <5>2
      <4>3. QED
        BY <1>3, <4>1, <4>2 DEF Chosen
    <3>10. x.prow.email = user[u].email /\ x.prow.email = partner[p].email
      BY <1>3, <3>5, <3>6
    <3>11. QED
      BY <3>2, <3>3, <3>9, <3>10 DEF UpToDate
  <2>7. QED
    BY <2>3, <2>4, <2>5, <2>6
<1>7. QED
  BY <1>1, <1>2, <1>3, <1>6, ReadsAgree

\* An account that comes is nobody's own login but a new partner's.
LEMMA InsertUndisturbed ==
  ASSUME Sound, NEW p \in Partners, Team(p) # {}, NextUser \in Users,
         partner'[p] = partner[p], NEW row,
         row.partner = p => partner[p] # None,
         user' = [user EXCEPT ![NextUser] = row]
  PROVE  Undisturbed(p)
<1>1. PICK k : k = NextUser
  OBVIOUS
<1>2. \A v \in Users : user[v] # None <=> v < k
  BY <1>1, NextIsFree DEF Sound
<1>3. k \in Users /\ user[k] = None
  BY <1>1, <1>2 DEF Users
<1>4. \A v \in Users : user'[v] = IF v = k THEN row ELSE user[v]
  BY <1>1 DEF Sound, Tables
<1>5. PICK u : u = Primary(p)
  OBVIOUS
<1>6. u \in Team(p) /\ u \in Users /\ u < k
  BY <1>2, <1>5, PrimaryLeads DEF Team
<1>7. Team(p) \subseteq Team(p)' /\ Team(p)' \subseteq Team(p) \cup {k}
  BY <1>3, <1>4 DEF Team
<1>8. u <= k
  BY <1>3, <1>6 DEF Users
<1>9. Primary(p)' = Primary(p)
  BY <1>5, <1>7, <1>8, PrimaryKept
<1>10. \A v \in Team(p) : user'[v].email = user[v].email
  BY <1>3, <1>4 DEF Team
<1>11. ASSUME NEW y, Refers(y), InPlace(y, p) PROVE InPlace(y, p)'
  <2>1. CASE ~Holds(y)
    BY <2>1 DEF InPlace, Holds, Waits
  <2>2. CASE Holds(y)
    <3>1. y.user \in Users /\ user[y.user] # None
      BY <1>11, <2>2 DEF Refers, Holds
    <3>2. user'[y.user] = user[y.user]
      BY <1>3, <1>4, <3>1
    <3>3. QED
      BY <1>11, <3>2 DEF InPlace, Holds, Waits
  <2>3. QED
    BY <2>1, <2>2
<1>12. QED
  BY <1>7, <1>9, <1>10, <1>11 DEF Undisturbed

LEMMA InsertUserAgrees ==
  ASSUME Sound, Agrees, NEW r \in Requests, InsertPartner(r) \/ InsertUser(r)
  PROVE  Agrees'
<1>1. Finish(r) /\ UNCHANGED calm
  BY DEF InsertPartner, InsertUser
<1>2. PICK w : w = req[r]
  OBVIOUS
<1>3. w.steps # <<>> /\ Head(w.steps) \in {"insertPartner", "insertUser"}
  BY <1>2 DEF InsertPartner, InsertUser, At
<1>4. ASSUME NEW p \in calm'
      PROVE  ~Saves(req[r], p) /\ Undisturbed(p)
  <2>1. p \in Partners /\ partner[p] # None /\ Team(p) # {}
    BY <1>1, <1>4 DEF Sound, Agrees, Settled
  <2>2. partner'[p] = partner[p]
    <3>1. CASE InsertPartner(r)
      <4>1. \/ partner' = partner
            \/ \E n, row : partner[n] = None /\ partner' = [partner EXCEPT ![n] = row]
        BY <3>1 DEF InsertPartner, FreePartners
      <4>2. QED
        BY <2>1, <4>1 DEF Sound, Tables
    <3>2. CASE InsertUser(r)
      BY <3>2 DEF InsertUser
    <3>3. QED
      BY <3>1, <3>2
  <2>3. CASE user' = user
    BY <1>2, <1>3, <2>1, <2>2, <2>3, StillUndisturbed DEF Saves, Waits
  <2>4. CASE user' # user
    <3>1. PICK row : /\ NextUser \in Users /\ user' = [user EXCEPT ![NextUser] = row]
      BY <2>4 DEF InsertPartner, InsertUser
    <3>2. Undisturbed(p)
      BY <2>1, <2>2, <3>1, InsertUndisturbed
    <3>3. QED
      BY <1>2, <1>3, <3>2 DEF Saves, Waits
  <2>5. QED
    BY <2>3, <2>4
<1>5. QED
  BY <1>1, <1>4, EndAgrees

\* A partner that nobody was at comes with a login that has its e-mail.
LEMMA InsertBothAgrees ==
  ASSUME Sound, Agrees, NEW r \in Requests, InsertBoth(r)
  PROVE  Agrees'
<1>1. Finish(r)
  BY DEF InsertBoth
<1>2. PICK w : w = req[r]
  OBVIOUS
<1>3. Fits(w) /\ Waits(w, "insertBoth") /\ w.op = "createWithUser"
  BY <1>2, Places DEF Sound, InsertBoth, At, Waits, Fits
<1>4. CASE UNCHANGED <<partner, user, calm>>
  <2>1. ~Waits(req[r], "savePartner")
    BY <1>2, <1>3 DEF Waits
  <2>2. QED
    BY <1>1, <1>4, <2>1, EndingReadAgrees
<1>5. CASE ~UNCHANGED <<partner, user, calm>>
  <2>1. PICK n \in Partners :
          /\ partner[n] = None
          /\ partner' = [partner EXCEPT ![n] = [email |-> w.email, status |-> "active"]]
          /\ user' = [user EXCEPT ![NextUser] = NewUser(w.op, w.email, n)]
          /\ calm' = IF Busy(n) THEN calm ELSE calm \cup {n}
    BY <1>2, <1>5 DEF InsertBoth, FreePartners
  <2>2. NextUser \in Users
    BY <1>5 DEF InsertBoth
  <2>3. PICK k, row, prow : /\ k = NextUser /\ row = NewUser(w.op, w.email, n)
                            /\ prow = [email |-> w.email, status |-> "active"]
    OBVIOUS
  <2>4. /\ row \in UserRows /\ row.partner = n /\ row.role = "partner" /\ row.email = w.email
        /\ prow \in PartnerRows /\ prow.email = w.email
    BY <1>3, <2>3 DEF NewUser, UserRows, PartnerRows, Roles, AccountStatuses, Fits, Asks, Creates
  <2>5. \A v \in Users : user'[v] = IF v = k THEN row ELSE user[v]
    BY <2>1, <2>3 DEF Sound, Tables
  <2>6. \A p \in Partners : partner'[p] = IF p = n THEN prow ELSE partner[p]
    BY <2>1, <2>3 DEF Sound, Tables
  <2>7. ASSUME NEW p \in calm', p # n PROVE Settled(p)'
    <3>1. p \in calm /\ p \in Partners /\ Settled(p) /\ Team(p) # {}
      BY <2>1, <2>7 DEF Sound, Agrees, Settled
    <3>2. partner'[p] = partner[p]
      BY <2>6, <2>7, <3>1
    <3>3. Undisturbed(p)
      BY <2>1, <2>2, <2>3, <2>4, <2>7, <3>1, <3>2, InsertUndisturbed
    <3>4. ~Saves(req[r], p)
      BY <1>2, <1>3 DEF Saves
    <3>5. QED
      BY <1>1, <3>1, <3>3, <3>4, SettledEnd
  <2>8. ASSUME n \in calm' PROVE Settled(n)'
    <3>1. n \notin calm
      BY <2>1 DEF Agrees, Settled
    <3>2. ~Busy(n)
      BY <2>1, <2>8, <3>1
    <3>3. n # None /\ row # None /\ prow # None
      BY <2>4, RowsAreSomething
    <3>4. Team(n) = {}
      BY <2>1, <3>3 DEF Team, Sound, Tables
    <3>5. k \in Users /\ user[k] = None
      BY <2>2, <2>3, NextIsFree DEF Sound, Users
    <3>6. Team(n)' = {k}
      BY <2>4, <2>5, <3>3, <3>4, <3>5 DEF Team
    <3>7. Primary(n)' = k
      <4>1. PICK T : T = Team(n)'
        OBVIOUS
      <4>2. T \in SUBSET Nat /\ k \in T /\ \A v \in T : k <= v
        BY <3>5, <3>6, <4>1 DEF Users
      <4>3. Least(T) = k
        BY <4>2, LeastIs
      <4>4. QED
        BY <4>1, <4>3 DEF Primary, Least
    <3>8. user'[Primary(n)'].email = partner'[n].email /\ partner'[n] # None
      BY <2>4, <2>5, <2>6, <3>3, <3>5, <3>7
    <3>9. ASSUME NEW q \in Requests
          PROVE  ~Writes(req'[q], n) /\ InPlace(req[q], n)'
      <4>1. PICK y : y = req'[q]
        OBVIOUS
      <4>2. y = NoRequest \/ y = req[q]
        BY <1>1, <4>1 DEF Finish, Become, Sound
      <4>3. CASE y = NoRequest
        <5>1. ~Writes(y, n) /\ ~Holds(y)
          BY <4>3 DEF Writes, Holds, NoRequest
        <5>2. QED
          BY <4>1, <5>1 DEF InPlace
      <4>4. CASE y # NoRequest /\ y = req[q]
        <5>1. ~Writes(y, n)
          BY <3>2, <4>4 DEF Busy, About, Writes
        <5>2. Refers(req[q])
          BY <3>9 DEF Sound
        <5>3. ASSUME Holds(y)
              PROVE  n # y.row.partner /\ n # user'[y.user].partner
          <6>1. y.row.partner # n
            BY <2>1, <3>3, <4>4, <5>2, <5>3 DEF Refers, Holds
          <6>2. y.user \in Users /\ user[y.user] # None
            BY <4>4, <5>2, <5>3 DEF Refers, Holds
          <6>3. user'[y.user] = user[y.user]
            BY <2>5, <3>5, <6>2
          <6>4. user[y.user].partner # n
            BY <2>1, <3>3, <6>2 DEF Sound, Tables
          <6>5. QED
            BY <6>1, <6>3, <6>4
        <5>4. InPlace(y, n)'
          BY <5>3 DEF InPlace, Holds, Waits
        <5>5. QED
          BY <4>1, <5>1, <5>4 DEF InPlace
      <4>5. QED
        BY <4>2, <4>3, <4>4
    <3>10. Team(n)' # {}
      BY <3>6
    <3>11. QED
      BY <3>8, <3>9, <3>10 DEF Settled
  <2>9. QED
    BY <2>7, <2>8 DEF Agrees
<1>6. QED
  BY <1>4, <1>5

\* A row that is saved over one of another team, or over one with the same role,
\* team and e-mail.
LEMMA SaveUndisturbed ==
  ASSUME Sound, NEW p \in Partners, Team(p) # {}, partner'[p] = partner[p],
         NEW u \in Users, user[u] # None, NEW row \in UserRows,
         user' = [user EXCEPT ![u] = row],
         \/ p # user[u].partner /\ p # row.partner
         \/ row.email = user[u].email /\ row.partner = user[u].partner /\ row.role = user[u].role
  PROVE  Undisturbed(p)
<1>1. \A v \in Users : user'[v] = IF v = u THEN row ELSE user[v]
  BY DEF Sound, Tables
<1>2. row # None
  BY RowsAreSomething
<1>3. Team(p)' = Team(p)
  BY <1>1, <1>2 DEF Team
<1>4. PICK T, S : T = Team(p) /\ S = Team(p)'
  OBVIOUS
<1>5. Primary(p)' = Primary(p)
  BY <1>3, PrimaryKept
<1>6. \A v \in Team(p) : user'[v].email = user[v].email
  BY <1>1 DEF Team
<1>7. ASSUME NEW y, Refers(y), InPlace(y, p) PROVE InPlace(y, p)'
  <2>1. CASE ~Holds(y)
    BY <2>1 DEF InPlace, Holds, Waits
  <2>2. CASE Holds(y)
    <3>1. y.user \in Users
      BY <1>7, <2>2 DEF Refers, Holds
    <3>2. QED
      BY <1>1, <1>7, <2>2, <3>1 DEF InPlace, Holds, Waits
  <2>3. QED
    BY <2>1, <2>2
<1>8. QED
  BY <1>3, <1>5, <1>6, <1>7 DEF Undisturbed

LEMMA SaveUserAgrees ==
  ASSUME Sound, Agrees, NEW r \in Requests, SaveUser(r)
  PROVE  Agrees'
<1>1. Finish(r) /\ UNCHANGED partner
  BY DEF SaveUser
<1>2. PICK w : w = req[r]
  OBVIOUS
<1>3. /\ Fits(w) /\ Waits(w, "saveUser")
      /\ w.user \in Users /\ user[w.user] # None /\ w.row \in UserRows
  BY <1>2, RowsAreSomething DEF Sound, SaveUser, At, Waits, Fits, Knows, Refers
<1>4. \A p : ~Saves(req[r], p)
  BY <1>2, <1>3 DEF Saves, Waits
<1>5. CASE UNCHANGED <<user, calm>>
  <2>1. ~Waits(req[r], "savePartner")
    BY <1>2, <1>3 DEF Waits
  <2>2. QED
    BY <1>1, <1>5, <2>1, EndingReadAgrees
<1>6. CASE ~UNCHANGED <<user, calm>>
  <2>1. PICK pulled, disturbs :
          /\ pulled = {user[w.user].partner, w.row.partner}
          /\ disturbs <=> \/ w.row.email # user[w.user].email
                          \/ w.row.partner # user[w.user].partner
                          \/ w.row.role # user[w.user].role
          /\ user' = [user EXCEPT ![w.user] = w.row]
          /\ calm' = IF disturbs THEN calm \ pulled ELSE calm
    BY <1>2, <1>6 DEF SaveUser
  <2>2. calm' \subseteq calm
    BY <2>1
  <2>3. ASSUME NEW p \in calm'
        PROVE  ~Saves(req[r], p) /\ Undisturbed(p)
    <3>1. p \in Partners /\ Team(p) # {}
      BY <2>2, <2>3 DEF Sound, Agrees, Settled
    <3>2. \/ p # user[w.user].partner /\ p # w.row.partner
          \/ /\ w.row.email = user[w.user].email /\ w.row.partner = user[w.user].partner
             /\ w.row.role = user[w.user].role
      BY <2>1, <2>3
    <3>3. Undisturbed(p)
      BY <1>1, <1>3, <2>1, <3>1, <3>2, SaveUndisturbed
    <3>4. QED
      BY <1>4, <3>3
  <2>4. QED
    BY <1>1, <2>2, <2>3, EndAgrees
<1>7. QED
  BY <1>5, <1>6

\* The login that an update saves is the partner's own, in the team it was in.
LEMMA SaveLoginAgrees ==
  ASSUME Sound, Agrees, NEW r \in Requests, SaveLogin(r)
  PROVE  Agrees'
<1>1. UNCHANGED partner
  BY DEF SaveLogin
<1>2. PICK w : w = req[r]
  OBVIOUS
<1>3. Fits(w) /\ Refers(w) /\ Waits(w, "saveLogin") /\ w.op = "updatePartner"
  BY <1>2, Places DEF Sound, SaveLogin, At, Fits, Waits
<1>4. CASE Finish(r) /\ UNCHANGED <<user, calm>>
  <2>1. ~Waits(req[r], "savePartner")
    BY <1>2, <1>3 DEF Waits
  <2>2. QED
    BY <1>1, <1>4, <2>1, EndingReadAgrees
<1>5. CASE ~(Finish(r) /\ UNCHANGED <<user, calm>>)
  <2>1. PICK x : /\ Become(r, x) /\ Moves(w, x) /\ Waits(x, "savePartner")
                 /\ x.prow \in PartnerRows /\ x.prow.email = w.email
                 /\ \/ w.user = None /\ UNCHANGED <<user, calm>>
                    \/ /\ w.user # None
                       /\ user' = [user EXCEPT ![w.user] = [w.row EXCEPT !.email = w.email]]
                       /\ calm' = IF w.partner \in calm THEN calm
                                  ELSE calm \ {user[w.user].partner}
    BY <1>2, <1>5, SaveLoginGoesOn
  <2>2. /\ w.user = None <=> w.row = None
        /\ w.row # None => w.row \in UserRows /\ w.user \in Users /\ user[w.user] # None
        /\ w.email \in Emails
    BY <1>3 DEF Fits, Knows, RequestWith, Refers, Asks
  <2>3. ~Holds(x) /\ (Holds(w) <=> w.row # None) /\ \A p : ~Saves(w, p)
    BY <1>3, <2>1 DEF Holds, Saves, Waits
  <2>4. \A p : Writes(w, p) <=> w.partner = p
    BY <1>3 DEF Writes
  <2>5. \A p : Writes(x, p) <=> w.partner = p
    BY <1>3, <2>1 DEF Writes, Moves
  <2>6. \A p \in calm : Settled(p) /\ InPlace(w, p)
    BY <1>2 DEF Agrees, Settled
  <2>7. w.partner \in calm => UpToDate(w, w.partner)
    BY <1>2, <2>4, <2>6 DEF Settled
  <2>8. CASE w.user = None /\ UNCHANGED <<user, calm>>
    <3>1. w.partner \notin calm
      BY <1>3, <2>2, <2>7, <2>8 DEF UpToDate, Waits
    <3>2. \A p \in calm : ~Writes(x, p) /\ ~Saves(w, p) /\ InPlace(x, p)
      BY <2>3, <2>5, <3>1 DEF InPlace
    <3>3. QED
      BY <1>1, <1>2, <2>1, <2>8, <3>2, ReadsAgree
  <2>9. CASE /\ w.user # None
             /\ user' = [user EXCEPT ![w.user] = [w.row EXCEPT !.email = w.email]]
             /\ calm' = IF w.partner \in calm THEN calm
                        ELSE calm \ {user[w.user].partner}
    <3>1. PICK row : row = [w.row EXCEPT !.email = w.email]
      OBVIOUS
    <3>2. /\ row \in UserRows /\ row.email = w.email
          /\ row.partner = w.row.partner /\ row.role = w.row.role
      BY <2>2, <2>9, <3>1 DEF UserRows
    <3>3. /\ user' = [user EXCEPT ![w.user] = row]
          /\ calm' = IF w.partner \in calm THEN calm ELSE calm \ {user[w.user].partner}
      BY <2>9, <3>1
    <3>4. calm' \subseteq calm /\ w.user \in Users /\ user[w.user] # None /\ Holds(w)
      BY <2>2, <2>3, <2>9, <3>3
    <3>5. w.partner \in calm =>
            /\ user[w.user].partner = w.partner /\ w.row.partner = w.partner
            /\ w.row.role = user[w.user].role /\ w.user = Primary(w.partner)
      BY <1>3, <2>6, <2>7, <3>4 DEF UpToDate, InPlace, Team, Waits
    <3>6. ASSUME NEW p \in calm', p # w.partner PROVE Settled(p)'
      <4>1. p \in Partners /\ Settled(p) /\ Team(p) # {} /\ InPlace(w, p)
        BY <2>6, <3>4, <3>6 DEF Sound, Settled
      <4>2. p # user[w.user].partner
        BY <3>3, <3>5, <3>6
      <4>3. p # row.partner
        BY <3>2, <3>4, <4>1, <4>2 DEF InPlace
      <4>4. Undisturbed(p)
        BY <1>1, <3>2, <3>3, <3>4, <4>1, <4>2, <4>3, SaveUndisturbed
      <4>5. ~Writes(x, p) /\ ~Saves(req[r], p)
        BY <1>2, <2>3, <2>5, <3>6
      <4>6. InPlace(x, p)'
        BY <2>3 DEF InPlace, Holds, Waits
      <4>7. QED
        BY <2>1, <4>1, <4>4, <4>5, <4>6, SettledStep
    <3>7. ASSUME w.partner \in calm' PROVE Settled(w.partner)'
      <4>1. PICK p : p = w.partner
        OBVIOUS
      <4>2. /\ p \in Partners /\ Settled(p) /\ partner[p] # None /\ Team(p) # {} /\ p \in calm
            /\ w.row.partner = user[w.user].partner /\ w.row.role = user[w.user].role
            /\ w.user = Primary(p)
        BY <2>6, <3>4, <3>5, <3>7, <4>1 DEF Sound, Settled
      <4>3. \A v \in Users : user'[v] = IF v = w.user THEN row ELSE user[v]
        BY <3>3 DEF Sound, Tables
      <4>4. row # None
        BY <3>2, RowsAreSomething
      <4>5. /\ Team(p)' = Team(p)
            /\ \A v \in Users : user'[v].partner = user[v].partner /\ user'[v].role = user[v].role
        BY <3>2, <3>4, <4>2, <4>3, <4>4 DEF Team
      <4>6. Primary(p)' = w.user
        BY <4>2, <4>5, PrimaryKept
      <4>7. \A q \in Requests : req'[q] = IF q = r THEN x ELSE req[q]
        BY <2>1 DEF Become, Sound
      <4>8. Writes(req[r], p) /\ Saves(x, p)
        BY <1>2, <1>3, <2>1, <2>4, <2>5, <4>1 DEF Saves, Moves, Waits
      <4>9. \A q, s \in Requests : Writes(req'[q], p) /\ Writes(req'[s], p) => q = s
        BY <4>2, <4>7, <4>8 DEF Settled
      <4>10. user'[w.user].email = w.email
        BY <3>2, <3>4, <4>3
      <4>11. UpToDate(x, p)'
        BY <2>1, <2>3, <4>6, <4>8, <4>10 DEF UpToDate, Holds, Saves, Waits
      <4>12. ASSUME NEW q \in Requests
             PROVE  (Writes(req'[q], p) => UpToDate(req[q], p)') /\ InPlace(req[q], p)'
        <5>1. CASE q = r
          <6>1. req'[q] = x
            BY <4>7, <5>1
          <6>2. InPlace(x, p)'
            BY <2>3 DEF InPlace, Holds, Waits
          <6>3. QED
            BY <4>11, <6>1, <6>2 DEF UpToDate, InPlace
        <5>2. CASE q # r
          <6>1. PICK y : y = req[q]
            OBVIOUS
          <6>2. req'[q] = y /\ ~Writes(y, p)
            BY <4>2, <4>7, <4>8, <5>2, <6>1 DEF Settled
          <6>3. InPlace(req[q], p) /\ Refers(req[q])
            BY <4>2, <4>12 DEF Settled, Sound
          <6>4. InPlace(y, p) /\ (Holds(y) => y.user \in Users)
            BY <6>1, <6>3 DEF Refers, Holds
          <6>5. InPlace(y, p)'
            BY <4>5, <6>4 DEF InPlace, Holds, Waits
          <6>6. QED
            BY <6>2, <6>5 DEF InPlace
        <5>3. QED
          BY <5>1, <5>2
      <4>13. \E q \in Requests : Saves(req'[q], p)
        BY <4>7, <4>8
      <4>14. partner'[p] # None /\ Team(p)' # {}
        BY <1>1, <4>2, <4>5
      <4>15. Settled(p)'
        BY <4>9, <4>12, <4>13, <4>14 DEF Settled
      <4>16. QED
        BY <4>1, <4>15 DEF Settled
    <3>8. QED
      BY <3>6, <3>7 DEF Agrees
  <2>10. QED
    BY <2>1, <2>8, <2>9
<1>6. QED
  BY <1>4, <1>5

\* An update that ends leaves the partner with the e-mail of its login.
LEMMA SavePartnerAgrees ==
  ASSUME Sound, Agrees, NEW r \in Requests, SavePartner(r)
  PROVE  Agrees'
<1>1. Finish(r) /\ UNCHANGED user
  BY DEF SavePartner
<1>2. PICK w : w = req[r]
  OBVIOUS
<1>3. /\ Fits(w) /\ Waits(w, "savePartner")
      /\ w.op \in {"updatePartner", "updateFees", "disablePartner"}
  BY <1>2, Places DEF Sound, SavePartner, At, Fits, Waits
<1>4. w.prow \in PartnerRows /\ w.prow # None /\ w.partner \in Partners
  BY <1>3, RowsAreSomething DEF Fits, Knows, Asks, OfPartners, Waits
<1>5. /\ calm' \subseteq calm
      /\ \/ partner' = partner /\ calm' = calm \ {w.partner}
         \/ partner' = [partner EXCEPT ![w.partner] = w.prow]
  BY <1>2 DEF SavePartner
<1>6. ASSUME NEW p \in calm', p # w.partner PROVE Settled(p)'
  <2>1. p \in Partners /\ Settled(p) /\ Team(p) # {}
    BY <1>5, <1>6 DEF Sound, Agrees, Settled
  <2>2. partner'[p] = partner[p]
    BY <1>5, <1>6, <2>1 DEF Sound, Tables
  <2>3. Undisturbed(p)
    BY <1>1, <2>1, <2>2, StillUndisturbed
  <2>4. ~Saves(req[r], p)
    BY <1>2, <1>6 DEF Saves
  <2>5. QED
    BY <1>1, <2>1, <2>3, <2>4, SettledEnd
<1>7. ASSUME w.partner \in calm' PROVE Settled(w.partner)'
  <2>1. PICK p : p = w.partner
    OBVIOUS
  <2>2. p \in Partners /\ Settled(p) /\ Team(p) # {}
    BY <1>5, <1>7, <2>1 DEF Sound, Agrees, Settled
  <2>3. partner'[p] = w.prow
    BY <1>5, <1>7, <2>1, <2>2 DEF Sound, Tables
  <2>4. Writes(w, p) /\ UpToDate(w, p)
    BY <1>2, <1>3, <2>1, <2>2 DEF Writes, Settled
  <2>5. \A q \in Requests : q # r => ~Writes(req[q], p)
    BY <1>2, <2>2, <2>4 DEF Settled
  <2>6. PICK u : u = Primary(p)
    OBVIOUS
  <2>7. user[u].email = w.prow.email
    <3>1. CASE Saves(w, p)
      BY <1>4, <2>4, <2>6, <3>1 DEF UpToDate
    <3>2. CASE ~Saves(w, p)
      <4>1. \A q \in Requests : ~Saves(req[q], p)
        BY <1>2, <2>5, <3>2 DEF Saves, Writes
      <4>2. user[u].email = partner[p].email
        BY <2>2, <2>6, <4>1 DEF Settled
      <4>3. QED
        BY <1>4, <2>4, <3>2, <4>2 DEF UpToDate
    <3>3. QED
      BY <3>1, <3>2
  <2>8. Team(p)' = Team(p)
    BY <1>1 DEF Team
  <2>9. Primary(p)' = u
    BY <2>2, <2>6, <2>8, PrimaryKept
  <2>10. ASSUME NEW q \in Requests
         PROVE  ~Writes(req'[q], p) /\ InPlace(req[q], p)'
    <3>1. PICK y : y = req'[q]
      OBVIOUS
    <3>2. y = NoRequest \/ (q # r /\ y = req[q])
      BY <1>1, <3>1 DEF Finish, Become, Sound
    <3>3. CASE y = NoRequest
      <4>1. ~Writes(y, p) /\ ~Holds(y)
        BY <3>3 DEF Writes, Holds, NoRequest
      <4>2. QED
        BY <3>1, <4>1 DEF InPlace
    <3>4. CASE q # r /\ y = req[q]
      <4>1. ~Writes(y, p)
        BY <2>5, <3>4
      <4>2. InPlace(req[q], p)
        BY <2>2, <2>10 DEF Settled
      <4>3. InPlace(y, p)
        BY <3>4, <4>2
      <4>4. InPlace(y, p)'
        BY <1>1, <4>3 DEF InPlace, Holds, Waits
      <4>5. QED
        BY <3>1, <4>1, <4>4 DEF InPlace
    <3>5. QED
      BY <3>2, <3>3, <3>4
  <2>11. user'[Primary(p)'].email = partner'[p].email /\ partner'[p] # None /\ Team(p)' # {}
    BY <1>1, <1>4, <2>2, <2>3, <2>7, <2>8, <2>9
  <2>12. Settled(p)'
    BY <2>10, <2>11 DEF Settled
  <2>13. QED
    BY <2>1, <2>12 DEF Settled
<1>8. QED
  BY <1>6, <1>7 DEF Agrees

LEMMA FailAgrees ==
  ASSUME Sound, Agrees, NEW r \in Requests, Fail(r)
  PROVE  Agrees'
<1>1. /\ Finish(r) /\ UNCHANGED <<partner, user>>
      /\ calm' = IF At(r, "savePartner") THEN calm \ {req[r].partner} ELSE calm
  BY DEF Fail
<1>2. ASSUME NEW p \in calm'
      PROVE  ~Saves(req[r], p) /\ Undisturbed(p)
  <2>1. p \in Partners /\ Team(p) # {}
    BY <1>1, <1>2 DEF Sound, Agrees, Settled
  <2>2. Undisturbed(p)
    BY <1>1, <2>1, StillUndisturbed
  <2>3. ~Saves(req[r], p)
    BY <1>1, <1>2 DEF Saves, Waits, At
  <2>4. QED
    BY <2>2, <2>3
<1>3. QED
  BY <1>1, <1>2, EndAgrees

LEMMA NextAgrees ==
  ASSUME Sound, Agrees, [Next]_vars
  PROVE  Agrees'
<1>1. CASE UNCHANGED vars
  BY <1>1 DEF vars, Agrees, Settled, UpToDate, InPlace, Team, Primary
<1>2. QED
  BY <1>1, AcceptAgrees, ChecksAgree, ReadPartnerAgrees, ReadLoginAgrees, ReadHolderAgrees,
     ReadRowAgrees, InsertBothAgrees, InsertUserAgrees, SaveLoginAgrees, SavePartnerAgrees,
     SaveUserAgrees, FailAgrees DEF Next, Proceed

LEMMA InitAgrees == Init => Agrees
<1>1. SUFFICES ASSUME Init, NEW p \in calm PROVE Settled(p)
  BY DEF Agrees
<1>2. \A r \in Requests : ~Writes(req[r], p) /\ ~Holds(req[r])
  BY <1>1 DEF Init, NoRequest, Writes, Holds
<1>3. \A r \in Requests : InPlace(req[r], p)
  BY <1>2 DEF InPlace
<1>4. partner[p] # None /\ Team(p) # {} /\ user[Primary(p)].email = partner[p].email
  BY <1>1 DEF Init
<1>5. QED
  BY <1>2, <1>3, <1>4 DEF Settled

LEMMA AgreesFollows == Agrees => LoginFollowsPartner
<1>1. SUFFICES ASSUME Agrees, NEW p \in calm,
                      \A r \in Requests : ~(req[r].op = "updatePartner" /\ At(r, "savePartner")
                                              /\ req[r].partner = p)
               PROVE  user[Primary(p)].email = partner[p].email
  BY DEF LoginFollowsPartner
<1>2. \A r \in Requests : ~Saves(req[r], p)
  BY <1>1 DEF Saves, Waits, At
<1>3. QED
  BY <1>1, <1>2 DEF Agrees, Settled

LEMMA AlwaysAgrees == Spec => []Agrees
<1>1. Init => Sound /\ Agrees
  BY InitSound, InitAgrees
<1>2. (Sound /\ Agrees) /\ [Next]_vars => (Sound /\ Agrees)'
  BY NextSound, NextAgrees
<1>3. QED
  BY <1>1, <1>2, PTL DEF Spec

\* "Keep the linked login account's email in sync": an update finds a partner's own
\* login by the e-mail both have, and saves both with the new one; whatever else is
\* read, held and saved at the same time about other partners and accounts, a
\* partner that nothing has pulled apart and its login have one e-mail.
THEOREM LoginsFollowPartners == Spec => []LoginFollowsPartner
  BY AlwaysAgrees, AgreesFollows, PTL
=============================================================================
