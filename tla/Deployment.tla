----------------------------- MODULE Deployment -----------------------------
(***************************************************************************)
(* The container from start to start: migrations, boot, one service at     *)
(* work, crashes.  What the process remembers dies with it; the database   *)
(* and the bucket stay.                                                    *)
(***************************************************************************)
EXTENDS Migrations, RolePermissions, Messaging, Media

\* A scenario is a database, whether the default roles are in it, and a workload.
CONSTANT Scenarios

ASSUME DeploymentAssumption ==
  \A s \in Scenarios : /\ s.recorded \subseteq All
                       /\ s.workload \in Workloads
                       /\ s.roles \in BOOLEAN

ASSUME NoneAssumption == None \notin All \cup {"sent"}

\* A database is one that migrations and synchronize made, none of them cut short.
ASSUME DatabaseAssumption ==
  \A s \in Scenarios : Intact(s.schema, s.recorded, {})

vars == <<containerVars, migrationVars, roleVars, messageVars, mediaVars>>

ServiceVars == <<roleVars, messageVars, mediaVars>>
RunnerVars  == <<recorded, running, todo, undo, interrupted>>

Migrating == Migrate /\ UNCHANGED ServiceVars

-----------------------------------------------------------------------------
(* Boot: every service's onModuleInit, then the server listens.  They look *)
(* for what is missing, so a boot that was cut short is simply repeated.   *)

Booting == phase = "booting"
SeedFacts(table, facts) ==
  /\ Booting /\ Has(table) /\ ~(facts \subseteq schema)
  /\ schema' = schema \cup facts
  /\ UNCHANGED <<RunnerVars, containerVars, ServiceVars>>

BootRoles ==
  /\ Booting /\ Has("roles")
  /\ SyncRoles
  /\ UNCHANGED <<edit, edits, containerVars, migrationVars, messageVars, mediaVars>>

SeedSettings   == SeedFacts("system_settings", {"fee and flags"})
SeedSuperadmin == role["superadmin"] # None /\ SeedFacts("users", {"superadmin"})
SeedCourseCategories ==
  SeedFacts("course_categories", {"general category", "other categories"})

BootTables == {"roles", "users", "system_settings", "course_categories"}
Seeded     == {"fee and flags", "superadmin", "general category", "other categories"}

\* A query fails: the process exits.
BootFails ==
  /\ Booting
  /\ RoleClash \/ ~(BootTables \subseteq schema)
  /\ phase' = "stopped"
  /\ UNCHANGED <<workload, crashes, migrationVars, ServiceVars>>

Listen ==
  /\ Booting /\ RolesSynced /\ BootTables \cup Seeded \subseteq schema
  /\ phase' = "serving"
  /\ IF workload = "messages" THEN env' \in Environments ELSE UNCHANGED env
  /\ IF workload = "media" THEN InitMedia ELSE UNCHANGED <<bucket, ready>>
  /\ UNCHANGED <<workload, crashes, migrationVars, roleVars, message, outcome,
                 ensuring, upload, removals>>

Boot == BootRoles \/ SeedSettings \/ SeedSuperadmin \/ SeedCourseCategories
          \/ BootFails \/ Listen

-----------------------------------------------------------------------------
Serve ==
  \/ EditRoles /\ UNCHANGED <<migrationVars, messageVars, mediaVars>>
  \/ DeliverMessages /\ UNCHANGED <<migrationVars, roleVars, mediaVars>>
  \/ StoreMedia /\ UNCHANGED <<migrationVars, roleVars, messageVars>>

\* The process is killed; the database rolls its open transaction back.  A server
\* may stop for good reasons and is not counted.
Crash ==
  /\ phase # "stopped"
  /\ IF phase = "serving" THEN UNCHANGED crashes
     ELSE crashes < MaxCrashes /\ crashes' = crashes + 1
  /\ RollBack(undo)
  /\ edit' = [e \in Editors |-> NoEdit]
  /\ env' = None /\ message' = NoMessage /\ outcome' = NoOutcome
  /\ ready' = FALSE /\ ensuring' = "none" /\ upload' = [u \in Uploads |-> "idle"]
  /\ UNCHANGED <<workload, role, edits, bucket, removals>>

Init ==
  /\ phase = "stopped" /\ crashes = 0
  /\ \E s \in Scenarios :
       /\ workload = s.workload /\ schema = s.schema /\ recorded = s.recorded
       /\ role = [name \in RoleNames |->
                    IF s.roles /\ name \in SystemRoles THEN DefaultRow(name) ELSE None]
  /\ running = None /\ todo = <<>> /\ undo = None /\ interrupted = {}
  /\ edit = [e \in Editors |-> NoEdit] /\ edits = 0
  /\ env = None /\ message = NoMessage /\ outcome = NoOutcome
  /\ bucket = FALSE /\ ready = FALSE /\ ensuring = "none"
  /\ upload = [u \in Uploads |-> "idle"] /\ removals = 0

Next == Migrating \/ Boot \/ Serve \/ Crash

Spec == Init /\ [][Next]_vars

\* The platform starts a container that stopped, and the scripts run on.
FairSpec == Spec /\ WF_vars(Migrating) /\ WF_vars(Boot)

-----------------------------------------------------------------------------
(* Properties.                                                             *)

\* Nothing but the operator's hand helps: access codes that are in use twice, a
\* first migration that died half-way, or a role called "user" beside "student".
Blocked == Has("linked duplicates") \/ HalfBootstrapped \/ RoleClash

\* Again and again the server serves, whenever migrations and boots are cut short.
ServesInTheEnd == []<>(phase = "serving" \/ Blocked)
=============================================================================
