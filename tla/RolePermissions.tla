-------------------------- MODULE RolePermissions ---------------------------
(***************************************************************************)
(* Roles: the permission keys the staff ticks, the grouped permissions a   *)
(* role stores, and what the guard and the user service make of them.      *)
(*                                                                         *)
(* An edit reads the row, changes the entity and saves all of it.  Names   *)
(* are unique, and a default role may be renamed or inserted at boot.      *)
(***************************************************************************)
EXTENDS Container, Functions

CONSTANTS
  Editors,      \* requests the server handles concurrently
  EditedRoles,  \* bound on the roles they are about
  KeyLists,     \* the lists of permission keys that are sent
  People,       \* accounts: their id and their partner, or None
  MaxEdits      \* bound on the requests accepted

VARIABLES
  role,   \* the roles table: a row or None under every name
  edit,   \* the request each editor is in the middle of
  edits   \* the requests accepted

roleVars == <<role, edit, edits>>

-----------------------------------------------------------------------------
(* Keys and permissions.                                                   *)

Key(resource, action, scope) == [resource |-> resource, action |-> action, scope |-> scope]
Wildcard == Key("*", "*", "all")

\* perm(...) of each group of the catalog: which scopes an action comes with.
Offered(resource, all, own, linked) ==
  {Key(resource, a, "all") : a \in all} \cup {Key(resource, a, "own") : a \in own}
    \cup {Key(resource, a, "linked") : a \in linked}

Everything     == {"create", "read", "update", "delete"}
UserKeys       == Offered("users", Everything, {"read", "update"}, {"read"})
RoleKeys       == Offered("roles", Everything, {}, {})
PartnerKeys    == Offered("partners", Everything, {"read", "update"}, {})
AccessCodeKeys == Offered("access_codes", {"create", "read", "delete"}, {}, {"read"})
FinanceKeys    == Offered("finance", Everything, {}, {"read"})
Catalog == UserKeys \cup RoleKeys \cup PartnerKeys \cup AccessCodeKeys \cup FinanceKeys
             \cup {Wildcard}

Resources == {"users", "roles", "partners", "access_codes", "finance"}

Permission(resource, actions, scope) ==
  [resource |-> resource, actions |-> actions, scope |-> scope]

\* Mutant: one permission per resource, with the scope of its first key.
SameResource(p, k) == p.resource = k.resource

SameGroup(p, k) == p.resource = k.resource /\ p.scope = k.scope

AddKey(permissions, k) ==
  IF \E i \in DOMAIN permissions : SameGroup(permissions[i], k)
  THEN [i \in DOMAIN permissions |->
          IF SameGroup(permissions[i], k)
          THEN [permissions[i] EXCEPT !.actions = @ \cup {k.action}] ELSE permissions[i]]
  ELSE Append(permissions, Permission(k.resource, {k.action}, k.scope))

Refused(keys) == keys = <<>> \/ ~(Range(keys) \subseteq Catalog)

ResolvePermissionKeys(keys) ==
  LET added[n \in 0 .. Len(keys)] == IF n = 0 THEN <<>> ELSE AddKey(added[n - 1], keys[n])
  IN  IF Wildcard \in Range(keys) THEN << Permission("*", {"*"}, "all") >>
      ELSE added[Len(keys)]

\* What a role's page shows as granted.
PermissionsToKeys(permissions) ==
  IF \E p \in Range(permissions) : p.resource = "*" /\ "*" \in p.actions THEN {Wildcard}
  ELSE Catalog \cap
         UNION {{Key(p.resource, a, p.scope) : a \in p.actions} : p \in Range(permissions)}

DefaultPermissions ==
  [superadmin |-> << Permission("*", {"*"}, "all") >>,
   admin      |-> << Permission("*", {"*"}, "all") >>,
   manager    |-> << Permission("users", {"create", "read", "update"}, "all"),
                     Permission("roles", {"create", "read", "update"}, "all"),
                     Permission("partners", {"read"}, "all") >>,
   partner    |-> << Permission("users", {"read"}, "linked"),
                     Permission("partners", {"read", "update"}, "own"),
                     Permission("access_codes", {"read"}, "linked"),
                     Permission("finance", {"read"}, "linked") >>,
   student    |-> << Permission("users", {"read", "update"}, "own") >>]

SystemRoles == DOMAIN DefaultPermissions
RoleNames   == SystemRoles \cup {"user", "tutor"}

\* Requests are about these names and send lists; no scope is called None.
ASSUME RolesAssumption ==
  /\ EditedRoles \subseteq RoleNames
  /\ \A keys \in KeyLists : keys \in Seq(Range(keys))
  /\ None \notin {"all", "own", "linked"}

\* ticked is not stored: the keys the permissions were made from.
Row(id, permissions, ticked) == [id |-> id, permissions |-> permissions, ticked |-> ticked]
DefaultRow(name) ==
  Row(0, DefaultPermissions[name], PermissionsToKeys(DefaultPermissions[name]))

-----------------------------------------------------------------------------
(* What a permission lets its holder do.                                   *)

\* resolveScope: the first permission that matches decides.
ScopeOf(permissions, resource, action) ==
  LET matching == {i \in DOMAIN permissions :
                     /\ permissions[i].resource \in {"*", resource}
                     /\ permissions[i].actions \cap {"*", action} # {}}
      first    == CHOOSE i \in matching : \A j \in matching : i <= j
  IN  IF matching = {} THEN None ELSE permissions[first].scope

SatisfiesContext(person, scope, resource) ==
  \/ scope = "all"
  \/ person.partner # None
  \/ scope = "own" /\ resource # "partners"

\* PermissionGuard.
CanActivate(person, permissions, resource, action) ==
  LET scope == ScopeOf(permissions, resource, action)
  IN  scope # None /\ SatisfiesContext(person, scope, resource)

Reaches(scope, person, target) ==
  \/ scope = "all"
  \/ scope = "own" /\ target.id = person.id
  \/ scope = "linked" /\ person.partner # None /\ target.partner = person.partner

\* assertUserAccess, and the filter of the list of users.
MayOpen(person, permissions, target, action) ==
  LET scope == ScopeOf(permissions, "users", action)
  IN  scope # None /\ Reaches(scope, person, target)

Listed(person, permissions) ==
  {t \in People : CanActivate(person, permissions, "users", "read")
                    /\ Reaches(ScopeOf(permissions, "users", "read"), person, t)}

-----------------------------------------------------------------------------
(* Edits.                                                                  *)

NoEdit == [op |-> "none", step |-> "none", name |-> None, id |-> 0, keys |-> None, row |-> None]

Become(e, next) == edit' = [edit EXCEPT ![e] = next]
At(e, op, step) == edit[e].op = op /\ edit[e].step = step
Finish(e)       == Become(e, NoEdit)
OnlyEdit        == UNCHANGED <<role, edits, containerVars>>
Current(e)      == role[edit[e].name] # None /\ role[edit[e].name].id = edit[e].id

\* POST takes any name, PUT and DELETE the id of a role; keys = None: a title alone.
AskEdit(e) ==
  /\ Serves("roles")
  /\ edit[e] = NoEdit /\ edits < MaxEdits
  /\ edits' = edits + 1
  /\ \E name \in EditedRoles :
       \/ \E keys \in KeyLists :
            Become(e, [NoEdit EXCEPT !.op = "create", !.step = "read", !.name = name,
                                     !.id = edits + 1, !.keys = keys])
       \/ /\ role[name] # None
          /\ \/ \E keys \in KeyLists \cup {None} :
                  Become(e, [NoEdit EXCEPT !.op = "update", !.step = "read", !.name = name,
                                           !.id = role[name].id, !.keys = keys])
             \/ Become(e, [NoEdit EXCEPT !.op = "remove", !.step = "read", !.name = name,
                                         !.id = role[name].id])
  /\ UNCHANGED <<role, containerVars>>

\* The look-ups of POST; the keys are resolved before the insert.
CheckNewRole(e) ==
  /\ At(e, "create", "read")
  /\ LET keys == edit[e].keys
     IN  IF role[edit[e].name] # None \/ Refused(keys) THEN Finish(e)
         ELSE Become(e, [edit[e] EXCEPT !.step = "save", !.row =
                           Row(edit[e].id, ResolvePermissionKeys(keys), Range(keys))])
  /\ OnlyEdit

ReadRole(e) ==
  /\ At(e, "update", "read")
  /\ LET keys == edit[e].keys
         row  == role[edit[e].name]
     IN  IF ~Current(e) THEN Finish(e)
         ELSE IF keys = None THEN Become(e, [edit[e] EXCEPT !.step = "save", !.row = row])
         ELSE IF Refused(keys) THEN Finish(e)
         ELSE Become(e, [edit[e] EXCEPT !.step = "save", !.row =
                [row EXCEPT !.permissions = ResolvePermissionKeys(keys), !.ticked = Range(keys)]])
  /\ OnlyEdit

\* TypeORM's save: updates the row with the id, or inserts it if it is gone.
SaveRole(e) ==
  /\ At(e, "create", "save") \/ At(e, "update", "save")
  /\ role' = IF role[edit[e].name] = None \/ Current(e)
             THEN [role EXCEPT ![edit[e].name] = edit[e].row] ELSE role
  /\ Finish(e)
  /\ UNCHANGED <<edits, containerVars>>

CheckRemoval(e) ==
  /\ At(e, "remove", "read")
  /\ IF ~Current(e) \/ edit[e].name \in SystemRoles THEN Finish(e)
     ELSE Become(e, [edit[e] EXCEPT !.step = "delete"])
  /\ OnlyEdit

RemoveRole(e) ==
  /\ At(e, "remove", "delete")
  /\ role' = IF Current(e) THEN [role EXCEPT ![edit[e].name] = None] ELSE role
  /\ Finish(e)
  /\ UNCHANGED <<edits, containerVars>>

\* A statement fails, or the title is taken.
FailEdit(e) ==
  /\ edit[e] # NoEdit
  /\ Finish(e)
  /\ OnlyEdit

EditRoles ==
  \E e \in Editors :
    \/ AskEdit(e) \/ CheckNewRole(e) \/ ReadRole(e) \/ SaveRole(e)
    \/ CheckRemoval(e) \/ RemoveRole(e) \/ FailEdit(e)

-----------------------------------------------------------------------------
(* What boot does to the roles: renames the legacy one, inserts the missing. *)

\* The new name is taken: the save fails, and the boot with it.
RoleClash == role["user"] # None /\ role["student"] # None

MissingRoles == {name \in SystemRoles : role[name] = None}

SyncRoles ==
  \/ /\ role["user"] # None /\ ~RoleClash
     /\ role' = [role EXCEPT !["user"] = None, !["student"] = role["user"]]
  \/ /\ role["user"] = None
     /\ \E name \in MissingRoles : role' = [role EXCEPT ![name] = DefaultRow(name)]

RolesSynced == role["user"] = None /\ MissingRoles = {}

-----------------------------------------------------------------------------
(* Properties.                                                             *)

TickedFor(row, resource, action) ==
  {k.scope : k \in {k \in row.ticked : k.resource \in {"*", resource}
                                         /\ k.action \in {"*", action}}}

\* A row does what was ticked for it: its page shows the ticked keys, the guard finds
\* a scope for an action just when one was ticked and finds a ticked one, a user it
\* may open is within a ticked scope, and is in the list.
DoesAsTicked(row) ==
  /\ PermissionsToKeys(row.permissions) =
       (IF Wildcard \in row.ticked THEN {Wildcard} ELSE row.ticked)
  /\ \A resource \in Resources, action \in Everything :
       LET scope == ScopeOf(row.permissions, resource, action)
       IN  IF scope = None THEN TickedFor(row, resource, action) = {}
           ELSE scope \in TickedFor(row, resource, action)
  /\ \A person \in People, target \in People :
       MayOpen(person, row.permissions, target, "read") =>
         /\ \E scope \in TickedFor(row, "users", "read") : Reaches(scope, person, target)
         /\ target \in Listed(person, row.permissions)

\* A role does what was ticked for it, whatever edits and boots came between.
ScopeWasTicked ==
  \A name \in RoleNames : role[name] # None => DoesAsTicked(role[name])
=============================================================================
