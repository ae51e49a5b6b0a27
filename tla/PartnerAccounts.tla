-------------------------- MODULE PartnerAccounts ---------------------------
(***************************************************************************)
(* Partners, the accounts they sign in with, and the staff that manages    *)
(* both.  PartnersService and UserService read a row, ask whether an       *)
(* e-mail is free, and save whole rows; only the creation of a partner     *)
(* with its login is one transaction.                                      *)
(***************************************************************************)
EXTENDS Naturals, Sequences, FiniteSets

CONSTANTS
  Partners,       \* the ids partners may get
  Emails,
  MaxUsers,       \* accounts are numbered in the order of their creation
  MaxTeam,        \* partner accounts per partner, its own login included
  Requests,       \* requests the server handles concurrently
  MaxRequests,    \* bound on the requests accepted
  None,
  InitialPartner, \* the partners and accounts of a portal that is in use
  InitialUser

Users           == 1 .. MaxUsers
Roles           == {"partner", "staff", "student"}
AccountStatuses == {"active", "suspended", "disabled"}
PartnerRows     == [email: Emails, status: {"active", "disabled"}]
UserRows        == [email: Emails, role: Roles, partner: Partners \cup {None},
                    status: AccountStatuses, isActive: BOOLEAN,
                    temporary: BOOLEAN, mustChange: BOOLEAN]

ASSUME PartnerAssumption ==
  /\ {MaxUsers, MaxTeam, MaxRequests} \subseteq Nat \ {0}
  /\ IsFiniteSet(Partners) /\ IsFiniteSet(Emails) /\ IsFiniteSet(Requests)
  /\ None \notin Partners \cup PartnerRows \cup UserRows \cup Users \cup Emails
  /\ (Partners \cup {None}) \cap (AccountStatuses \cup Roles) = {}
  /\ InitialPartner \in [Partners -> PartnerRows \cup {None}]
  /\ InitialUser \in [Users -> UserRows \cup {None}]
  /\ Requests # {}

\* What every operation leaves behind, a portal in use has: accounts numbered as
\* they came, each with its own e-mail, an existing partner or none, flags that
\* agree; and no team above the cap.
ASSUME PortalAssumption ==
  /\ \E n \in 0 .. MaxUsers : \A u \in Users : InitialUser[u] # None <=> u <= n
  /\ \A u \in Users : InitialUser[u] # None =>
       /\ InitialUser[u].partner # None => InitialPartner[InitialUser[u].partner] # None
       /\ InitialUser[u].temporary => InitialUser[u].mustChange
       /\ InitialUser[u].isActive <=> InitialUser[u].status = "active"
       /\ \A v \in Users : InitialUser[v] # None /\ InitialUser[v].email = InitialUser[u].email
                           => v = u
  /\ \A p \in Partners :
       Cardinality({u \in Users : InitialUser[u] # None /\ InitialUser[u].role = "partner"
                                   /\ InitialUser[u].partner = p}) <= MaxTeam

VARIABLES
  partner,  \* the partners table
  user,     \* the users table; temporary: the password is one the user was given
  req,      \* the request each handler is in the middle of
  accepted, \* the requests accepted
  calm,     \* the partners whose e-mail and login nothing has pulled apart
  moved     \* how many accounts the staff has moved into a partner's team

vars == <<partner, user, req, accepted, calm, moved>>

\* prow, row: the entities the request has read and changed.  change: what the
\* staff asked to change.  linked: the login readLogin came up with.
NoRequest == [op |-> "none", steps |-> <<>>, partner |-> None, user |-> None,
              email |-> None, change |-> None, prow |-> None, row |-> None]

At(r, step)          == req[r].steps # <<>> /\ Head(req[r].steps) = step
Become(r, request)   == req' = [req EXCEPT ![r] = request]
Finish(r)            == Become(r, NoRequest)
Continue(r, request) == Become(r, [request EXCEPT !.steps = Tail(@)])

Team(p)    == {u \in Users : user[u] # None /\ user[u].role = "partner" /\ user[u].partner = p}
Primary(p) == CHOOSE u \in Team(p) : \A v \in Team(p) : u <= v

Program(op, email) ==
  CASE op = "createPartner"  -> <<"partnerEmail", "userEmail", "insertPartner">>
    [] op = "createWithUser" -> <<"partnerEmail", "userEmail", "insertBoth">>
    [] op = "updatePartner"  -> <<"readPartner", "readLogin", "readHolder", "partnerEmail",
                                  "userEmail", "saveLogin", "savePartner">>
    [] op \in {"updateFees", "disablePartner"} -> <<"readPartner", "savePartner">>
    [] op = "welcomePartner" -> <<"readPartner", "readLogin", "readUser", "saveUser">>
    [] op = "changePassword" -> <<"checkUser", "readUser", "saveUser">>
    [] op = "welcomeStaff"   -> <<"checkUser", "readUser", "saveUser">>
    [] op = "updateProfile"  -> <<"readUser", "saveUser">>
    [] op = "invite"         -> <<"countTeam", "userEmail", "insertUser">>
    [] op \in {"createStaff", "createUser"} -> <<"userEmail", "insertUser">>
    [] op \in {"updateMember", "removeMember"} -> <<"readMember", "saveUser">>
    [] op \in {"patchStaff", "patchUser", "removeUser"} ->
         IF email = None THEN <<"readUser", "saveUser">>
         ELSE <<"readUser", "userEmail", "saveUser">>

\* The partners a request is about.
About(request) ==
  {request.partner}
    \cup (IF request.user \in Users /\ user[request.user] # None
          THEN {user[request.user].partner} ELSE {})

Busy(p) == \E r \in Requests : req[r] # NoRequest /\ p \in About(req[r])

Accept(r, request) ==
  /\ req[r] = NoRequest
  /\ accepted < MaxRequests
  /\ accepted' = accepted + 1
  /\ Become(r, [request EXCEPT !.steps = Program(request.op, request.email)])
  /\ calm' = {p \in calm : p \in About(request) => ~Busy(p)}
  /\ UNCHANGED <<partner, user, moved>>

Ask(op, p, u, email, change) ==
  [NoRequest EXCEPT !.op = op, !.partner = p, !.user = u, !.email = email, !.change = change]

-----------------------------------------------------------------------------
(* Who may ask: JwtAuthGuard reads the row again at every request.          *)

MayAuthenticate(row) == row.status = "active" /\ row.isActive

\* A password that was given must be changed first, by everybody but students.
Admitted(u) ==
  /\ user[u] # None
  /\ MayAuthenticate(user[u])
  /\ user[u].mustChange => user[u].role = "student"

StaffRequest(r) ==
  \/ \E e \in Emails : \E op \in {"createPartner", "createWithUser"} :
       Accept(r, Ask(op, None, None, e, None))
  \/ \E e \in Emails : \E op \in {"createStaff", "createUser"} :
       Accept(r, Ask(op, None, None, e, None))
  \/ \E p \in Partners :
       \/ \E e \in Emails : Accept(r, Ask("updatePartner", p, None, e, None))
       \/ \E op \in {"updateFees", "disablePartner", "welcomePartner"} :
            Accept(r, Ask(op, p, None, None, None))
  \/ \E u \in Users :
       \/ \E e \in Emails, op \in {"patchStaff", "patchUser"} : Accept(r, Ask(op, None, u, e, None))
       \/ \E c \in AccountStatuses \cup Partners \cup (Roles \ {"student"}) :
            Accept(r, Ask("patchStaff", None, u, None, c))
       \/ \E c \in Partners \cup Roles : Accept(r, Ask("patchUser", None, u, None, c))
       \/ \E op \in {"removeUser", "welcomeStaff"} : Accept(r, Ask(op, None, u, None, None))

\* A partner's account updates the partner, manages the team and itself.
OwnRequest(r) ==
  \E u \in Users :
    \/ /\ Admitted(u)
       /\ \/ Accept(r, Ask("updateProfile", None, u, None, None))
          \/ /\ user[u].role = "partner" /\ user[u].partner # None
             /\ \E e \in Emails, op \in {"updatePartner", "invite"} :
                  Accept(r, Ask(op, user[u].partner, None, e, None))
    \/ /\ user[u] # None /\ MayAuthenticate(user[u])
       /\ Accept(r, Ask("changePassword", None, u, None, None))

MemberRequest(r) ==
  \E u, v \in Users :
    /\ Admitted(u) /\ user[u].role = "partner" /\ user[u].partner # None
    /\ \/ \E c \in AccountStatuses : Accept(r, Ask("updateMember", user[u].partner, v, None, c))
       \/ Accept(r, Ask("removeMember", user[u].partner, v, None, "disabled"))

OnlyReads == UNCHANGED <<partner, user, accepted, calm, moved>>

-----------------------------------------------------------------------------
(* Partners.                                                               *)

PartnersWith(e) == {p \in Partners : partner[p] # None /\ partner[p].email = e}
UsersWith(e)    == {u \in Users : user[u] # None /\ user[u].email = e}

\* assertPartnerEmailAvailable, assertEmailAvailable.
CheckPartnerEmail(r) ==
  /\ At(r, "partnerEmail")
  /\ IF PartnersWith(req[r].email) \subseteq {req[r].partner}
     THEN Continue(r, req[r]) ELSE Finish(r)
  /\ OnlyReads

CheckUserEmail(r) ==
  /\ At(r, "userEmail")
  /\ IF UsersWith(req[r].email) \subseteq {req[r].user}
     THEN Continue(r, req[r]) ELSE Finish(r)
  /\ OnlyReads

\* Mutant: a member who is disabled leaves a place free.
ActiveTeam(p) == {u \in Team(p) : user[u].isActive}

Counted(p) == Team(p)

\* createPartnerTeamUser counts; it inserts two statements later.
CountTeam(r) ==
  /\ At(r, "countTeam")
  /\ IF Cardinality(Counted(req[r].partner)) >= MaxTeam THEN Finish(r) ELSE Continue(r, req[r])
  /\ OnlyReads

FreePartners == {p \in Partners : partner[p] = None}
NextUser     == Cardinality({u \in Users : user[u] # None}) + 1

\* What each creation inserts: an account created with a password of somebody
\* else's must change it, one of POST /users keeps it.
NewUser(op, e, p) ==
  [email |-> e,
   role |-> CASE op \in {"invite", "createWithUser"} -> "partner"
              [] op = "createStaff" -> "staff" [] op = "createUser" -> "student",
   partner |-> p, status |-> "active", isActive |-> TRUE,
   temporary |-> op # "createUser", mustChange |-> op # "createUser"]

\* The UNIQUE e-mails.
InsertPartner(r) ==
  /\ At(r, "insertPartner")
  /\ IF PartnersWith(req[r].email) = {}
     THEN \E p \in FreePartners :
            partner' = [partner EXCEPT ![p] = [email |-> req[r].email, status |-> "active"]]
     ELSE UNCHANGED partner
  /\ Finish(r)
  /\ UNCHANGED <<user, accepted, calm, moved>>

\* One transaction: both rows or none.  A call that was about the partner before
\* it was there overlaps its creation.
InsertBoth(r) ==
  /\ At(r, "insertBoth")
  /\ IF PartnersWith(req[r].email) = {} /\ UsersWith(req[r].email) = {} /\ NextUser \in Users
     THEN \E p \in FreePartners :
            /\ partner' = [partner EXCEPT ![p] = [email |-> req[r].email, status |-> "active"]]
            /\ user' = [user EXCEPT ![NextUser] = NewUser(req[r].op, req[r].email, p)]
            /\ calm' = IF Busy(p) THEN calm ELSE calm \cup {p}
     ELSE UNCHANGED <<partner, user, calm>>
  /\ Finish(r)
  /\ UNCHANGED <<accepted, moved>>

InsertUser(r) ==
  /\ At(r, "insertUser")
  /\ user' = IF UsersWith(req[r].email) = {} /\ NextUser \in Users
             THEN [user EXCEPT ![NextUser] = NewUser(req[r].op, req[r].email, req[r].partner)]
             ELSE user
  /\ Finish(r)
  /\ UNCHANGED <<partner, accepted, calm, moved>>

\* findOneEntity and what the operation assigns.
ReadPartner(r) ==
  LET row == partner[req[r].partner]
  IN  /\ At(r, "readPartner")
      /\ IF row = None THEN Finish(r)
         ELSE Continue(r, [req[r] EXCEPT !.prow =
                IF req[r].op = "disablePartner" THEN [row EXCEPT !.status = "disabled"] ELSE row])
      /\ OnlyReads

\* findPartnerLoginByPartnerId: any of the partner's logins.
ReadLogin(r) ==
  LET p == req[r].partner
  IN  /\ At(r, "readLogin")
      /\ \E u \in IF Team(p) = {} THEN {None} ELSE Team(p) :
           IF req[r].op = "welcomePartner" /\ u = None THEN Finish(r)
           ELSE Continue(r, [req[r] EXCEPT !.user = u, !.row = IF u = None THEN None ELSE user[u]])
      /\ OnlyReads

\* Mutant: whichever login is found first stands for the partner.
AnyLogin(e, linked) == {linked}

\* update prefers the account that has the partner's e-mail, whoever's it is.
LoginsFor(e, linked) == IF UsersWith(e) = {} THEN {linked} ELSE UsersWith(e)

\* It looks for one when the login it found has another e-mail, and goes on to the
\* partner's save when the e-mail stays as it is.
ReadHolder(r) ==
  LET e == req[r].prow.email
      linked == req[r].user
      found == [u |-> linked, row |-> req[r].row]
      holders == IF linked # None /\ found.row.email = e THEN {found}
                 ELSE {IF u = linked THEN found ELSE [u |-> u, row |-> user[u]] :
                         u \in LoginsFor(e, linked)}
  IN  /\ At(r, "readHolder")
      /\ \E login \in holders :
           LET next == [req[r] EXCEPT !.user = login.u, !.row = login.row]
           IN  IF req[r].email = e
               THEN Become(r, [next EXCEPT !.steps = <<"savePartner">>])
               ELSE Continue(r, next)
      /\ OnlyReads

\* userService.save(primaryLogin); a refusal ends the request before the partner
\* is saved.  An update that overlapped another looks for an e-mail the partner no
\* longer has, and may come up with the login of the partner that has it now.
SaveLogin(r) ==
  LET u == req[r].user
      next == [req[r] EXCEPT !.prow.email = req[r].email]
  IN  /\ At(r, "saveLogin")
      /\ \/ u = None /\ Continue(r, next) /\ UNCHANGED <<user, calm>>
         \/ /\ u # None
            /\ IF UsersWith(req[r].email) \subseteq {u}
               THEN /\ user' = [user EXCEPT ![u] = [req[r].row EXCEPT !.email = req[r].email]]
                    /\ calm' = IF req[r].partner \in calm THEN calm ELSE calm \ {user[u].partner}
                    /\ Continue(r, next)
               ELSE Finish(r) /\ UNCHANGED <<user, calm>>
      /\ UNCHANGED <<partner, accepted, moved>>

\* Refused, it leaves the login with the e-mail the partner did not get.
SavePartner(r) ==
  LET p == req[r].partner
      refused == ~(PartnersWith(req[r].prow.email) \subseteq {p})
  IN  /\ At(r, "savePartner")
      /\ partner' = IF refused THEN partner ELSE [partner EXCEPT ![p] = req[r].prow]
      /\ calm' = IF refused THEN calm \ {p} ELSE calm
      /\ Finish(r)
      /\ UNCHANGED <<user, accepted, moved>>

-----------------------------------------------------------------------------
(* Accounts.                                                               *)

\* Mutant: the flag is left to the next sign-in.
FlagKept(status, flag) == flag

SyncAccountActiveFlag(status, flag) == status = "active"

\* Mutant: a removed account has a status of its own.
Deleted == "deleted"

Disabled == "disabled"

\* Mutant: setPassword leaves the flag as it is.
PasswordOnly(row, given) == [row EXCEPT !.temporary = given]

\* setPassword with its mustChangePassword option.
WithPassword(row, given) == [row EXCEPT !.temporary = given, !.mustChange = given]

WithStatus(row, status) ==
  [row EXCEPT !.status = status, !.isActive = SyncAccountActiveFlag(status, row.isActive)]

\* A change of the status, the role, the partner or the e-mail.
Patched(change, email, row) ==
  CASE change \in AccountStatuses -> WithStatus(row, change)
    [] change \in Roles -> [row EXCEPT !.role = change]
    [] change \in Partners -> [row EXCEPT !.partner = change]
    [] change = None -> IF email = None THEN row ELSE [row EXCEPT !.email = email]

\* The entity a request saves, out of the row it read.
Changed(request, row) ==
  CASE request.op \in {"welcomePartner", "welcomeStaff"} -> WithPassword(row, TRUE)
    [] request.op = "changePassword" -> WithPassword(row, FALSE)
    [] request.op \in {"removeUser", "removeMember"} -> WithStatus(row, Disabled)
    [] OTHER -> Patched(request.change, request.email, row)

\* The handlers that look at an account before setPassword reads it again; the
\* staff's welcome is refused for partners and students.
CheckUser(r) ==
  LET row == user[req[r].user]
  IN  /\ At(r, "checkUser")
      /\ IF row = None \/ (req[r].op = "welcomeStaff" /\ row.role # "staff")
         THEN Finish(r) ELSE Continue(r, req[r])
      /\ OnlyReads

\* Students are not managed via admin users.  Hashing follows setPassword's read.
ReadUser(r) ==
  LET row == user[req[r].user]
  IN  /\ At(r, "readUser")
      /\ IF row = None \/ (req[r].op = "patchStaff" /\ row.role = "student")
         THEN Finish(r)
         ELSE Continue(r, [req[r] EXCEPT !.row = Changed(req[r], row)])
      /\ OnlyReads

\* findPartnerTeamUser: the first account created is not a member.
ReadMember(r) ==
  LET p == req[r].partner
      u == req[r].user
  IN  /\ At(r, "readMember")
      /\ IF u \in Team(p) /\ u # Primary(p)
         THEN Continue(r, [req[r] EXCEPT !.row = Changed(req[r], user[u])])
         ELSE Finish(r)
      /\ OnlyReads

\* save writes the whole row; an e-mail is UNIQUE and a partnerId a foreign key.
SaveUser(r) ==
  LET u == req[r].user
      row == req[r].row
      pulled == {user[u].partner, row.partner}
      disturbs == row.email # user[u].email \/ row.partner # user[u].partner
                    \/ row.role # user[u].role
  IN  /\ At(r, "saveUser")
      /\ IF /\ UsersWith(row.email) \subseteq {u}
            /\ row.partner # None => partner[row.partner] # None
         THEN /\ user' = [user EXCEPT ![u] = row]
              /\ calm' = IF disturbs THEN calm \ pulled ELSE calm
              /\ moved' = IF row.role = "partner" /\ row.partner # None
                               /\ (user[u].partner # row.partner \/ user[u].role # "partner")
                          THEN moved + 1 ELSE moved
         ELSE UNCHANGED <<user, calm, moved>>
      /\ Finish(r)
      /\ UNCHANGED <<partner, accepted>>

\* A statement fails, or the process dies: between the two saves of an update
\* the login has the new e-mail already.
Fail(r) ==
  /\ req[r] # NoRequest
  /\ calm' = IF At(r, "savePartner") THEN calm \ {req[r].partner} ELSE calm
  /\ Finish(r)
  /\ UNCHANGED <<partner, user, accepted, moved>>

-----------------------------------------------------------------------------
Proceed(r) ==
  \/ CheckPartnerEmail(r) \/ CheckUserEmail(r) \/ CountTeam(r)
  \/ InsertPartner(r) \/ InsertBoth(r) \/ InsertUser(r)
  \/ ReadPartner(r) \/ ReadLogin(r) \/ ReadHolder(r)
  \/ SaveLogin(r) \/ SavePartner(r)
  \/ CheckUser(r) \/ ReadUser(r) \/ ReadMember(r) \/ SaveUser(r)

Init ==
  /\ partner = InitialPartner
  /\ user = InitialUser
  /\ req = [r \in Requests |-> NoRequest]
  /\ accepted = 0
  /\ calm = {p \in Partners : /\ partner[p] # None /\ Team(p) # {}
                              /\ user[Primary(p)].email = partner[p].email}
  /\ moved = 0

Next == \E r \in Requests :
  StaffRequest(r) \/ OwnRequest(r) \/ MemberRequest(r) \/ Proceed(r) \/ Fail(r)

Spec == Init /\ [][Next]_vars

-----------------------------------------------------------------------------
(* Properties.                                                             *)

\* The tables and the requests have the shape the entities declare.
TypeOK ==
  /\ partner \in [Partners -> PartnerRows \cup {None}]
  /\ user \in [Users -> UserRows \cup {None}]
  /\ accepted \in 0 .. MaxRequests
  /\ calm \subseteq Partners
  /\ moved \in 0 .. MaxRequests
  /\ \A r \in Requests :
       /\ req[r].prow \in PartnerRows \cup {None}
       /\ req[r].row \in UserRows \cup {None}

\* The cap on a partner's team counts before it inserts: it may be exceeded, but
\* by no more than the invitations handled at the same time and the accounts the
\* staff moves in.
TeamBounded ==
  \A p \in Partners : Cardinality(Team(p)) <= MaxTeam + (Cardinality(Requests) - 1) + moved

\* "Keep the linked login account's email in sync": a partner's own login has the
\* partner's e-mail after every sequence of calls, unless two calls about the
\* partner overlapped, one failed between the two saves, the staff changed the
\* accounts themselves, or such a partner's update took this one's login.
LoginFollowsPartner ==
  \A p \in calm :
    \/ user[Primary(p)].email = partner[p].email
    \/ \E r \in Requests : req[r].op = "updatePartner" /\ At(r, "savePartner") /\ req[r].partner = p

\* Whatever saves a row late, a password that was given to somebody must be changed.
TemporaryMustChange ==
  \A u \in Users : user[u] # None /\ user[u].temporary => user[u].mustChange

\* isActive says what accountStatus says, whoever wrote which last.
FlagFollowsStatus ==
  \A u \in Users : user[u] # None => (user[u].isActive <=> user[u].status = "active")
=============================================================================
