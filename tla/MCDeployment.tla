---------------------------- MODULE MCDeployment ----------------------------
(***************************************************************************)
(* A small instance of Deployment for TLC.                                 *)
(***************************************************************************)
EXTENDS Deployment

CONSTANTS e1, e2, u1, u2

Scenario(work, facts, done, roles) ==
  [workload |-> work, schema |-> facts, recorded |-> done, roles |-> roles]

Before(m) == {Order[i] : i \in {i \in 1 .. Len(Order) : \E j \in 1 .. Len(Order) :
                                  Order[j] = m /\ i < j}}

\* A database that synchronize made before the first migration was written.
Old == BootstrapTables \cup
  {"users => codes", "codes unique per partner", "codes.partner required", "codes => partners",
   "inactive not disabled", "payments.user required", "payments => users",
   "videos.duration text", "paid not onboarded", "unused duplicates"}
  \cup {CoursePartner[i] : i \in DOMAIN CoursePartner}

\* One whose categories got the ids of an earlier version of their migration.
UpTo10 == BootstrapTables \cup
  {"users.accountStatus", "users => codes", "codes unique", "codes => partners",
   "payments => users", "videos.details", "newsletter_subscribers", "codes.exportedAt",
   "course_categories", "general category", "other categories", "courses.category",
   "courses.category required", "courses => categories", "fee and flags", "superadmin"}

UpToDate(work) == Scenario(work, UpTo10 \cup {"videos.resourceType"}, All, TRUE)

SmallScenarios ==
  {Scenario("migrate", {}, {}, FALSE),
   Scenario("migrate", Old, {}, TRUE),
   Scenario("migrate", Old \cup {"linked duplicates"}, {}, TRUE),
   Scenario("migrate", UpTo10 \cup {"placeholder ids"}, Before("realCategoryIds"), TRUE)}
  \cup {UpToDate(work) : work \in Workloads \ {"migrate"}}

SmallKeyLists ==
  {<<Key("users", "read", "own"), Key("users", "read", "linked")>>,
   <<Key("users", "update", "all"), Key("partners", "read", "own"), Key("users", "read", "linked"),
     Key("users", "read", "all")>>,
   <<Key("finance", "read", "own")>>,
   <<Key("roles", "read", "all"), Wildcard>>}

SmallPeople == {[id |-> 1, partner |-> "p"], [id |-> 2, partner |-> "p"], [id |-> 3, partner |-> None]}
=============================================================================
