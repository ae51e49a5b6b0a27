----------------------------- MODULE Migrations -----------------------------
(***************************************************************************)
(* The migrations the container runs before the server: each one a list of *)
(* statements chosen from what it finds, then a row that records it.       *)
(*                                                                         *)
(* TypeORM opens one transaction for all pending migrations, but a DDL     *)
(* statement of MySQL commits what came before it and is never undone;     *)
(* after the first one every statement commits on its own.                 *)
(*                                                                         *)
(* The database is the set of facts that some migration creates, removes   *)
(* or depends on.  A name with => is a foreign key.                        *)
(***************************************************************************)
EXTENDS Container

VARIABLES
  schema,       \* the facts that hold of the database
  recorded,     \* the rows of the migrations table
  running,      \* the migration being run, or None
  todo,         \* the statements it has yet to run
  undo,         \* what a rollback restores, or None outside a transaction
  interrupted   \* the migrations that failed or were killed half-way

migrationVars == <<schema, recorded, running, todo, undo, interrupted>>

\* The migrations in the order of their timestamps.
Order == <<"schema", "accountStatus", "paymentUser", "detachCourses", "videoDetails",
           "uniqueCode", "codePartner", "newsletter", "exportedAt", "categories",
           "realCategoryIds", "activatePaid", "resourceType">>
All == {Order[i] : i \in 1 .. Len(Order)}

\* A statement fails unless the facts it needs hold and those it excludes do not.
Statement(ddl, needs, excludes, gains, loses) ==
  [ddl |-> ddl, needs |-> needs, excludes |-> excludes, gains |-> gains, loses |-> loses]
Create(table, needs, with)  == Statement(TRUE, needs, {table}, {table} \cup with, {})
Alter(table, needs, gains, loses) ==
  Statement(TRUE, {table} \cup needs \cup loses, gains, gains, loses)
Write(needs, gains, loses)  == Statement(FALSE, needs, {}, gains, loses)

When(condition, statements) == IF condition THEN statements ELSE <<>>
Has(fact)                   == fact \in schema

-----------------------------------------------------------------------------
(* What the up() of every migration sends, given the database it finds.    *)

\* The tables nothing refers to before users, then users.
FirstTables ==
  << Create("roles", {}, {}), Create("partners", {}, {}),
     Create("system_settings", {}, {}), Create("payment_webhook_events", {}, {}),
     Create("courses", {}, {}),
     Create("users", {"roles", "partners"}, {"users.accountStatus"}),
     Create("access_codes", {"partners", "users"},
            {"codes unique", "codes.partner required", "codes => partners"}),
     Alter("users", {"access_codes"}, {"users => codes"}, {}) >>

LastTables ==
  << Create("course_videos", {"courses"}, {"videos.details"}),
     Create("payment_transactions", {"users", "partners", "courses"}, {"payments => users"}),
     Create("course_enrollments", {"users", "courses", "payment_transactions"}, {}),
     Create("notifications", {"users"}, {}),
     Create("otps", {"users"}, {}) >>

UpSchema == When(~Has("users"), FirstTables \o LastTables)

UpAccountStatus ==
  When(Has("users") /\ ~Has("users.accountStatus"),
       << Alter("users", {}, {"users.accountStatus"}, {}),
          Write({}, {}, {"inactive not disabled"}) >>)

\* A column that is nullable already ends it, the foreign key there or not.
UpPaymentUser ==
  When(Has("payments.user required"),
       When(Has("payments => users"),
            << Alter("payment_transactions", {}, {}, {"payments => users"}) >>)
       \o << Alter("payment_transactions", {}, {}, {"payments.user required"}),
             Alter("payment_transactions", {"users"}, {"payments => users"}, {}) >>)

CoursePartner == <<"courses => partners", "courses.commissionValue",
                   "courses.commissionType", "courses.partner">>

DropFromCourses(fact) == When(Has(fact), << Alter("courses", {}, {}, {fact}) >>)

UpDetachCourses ==
  DropFromCourses(CoursePartner[1]) \o DropFromCourses(CoursePartner[2])
    \o DropFromCourses(CoursePartner[3]) \o DropFromCourses(CoursePartner[4])

UpVideoDetails ==
  When(Has("course_videos"),
       When(Has("videos.duration text"),
            << Alter("course_videos", {}, {}, {"videos.duration text"}) >>)
       \o When(~Has("videos.details"),
               << Alter("course_videos", {}, {"videos.details"}, {}) >>))

\* Unused duplicates are deleted; the error for the others is its own statement.
UpUniqueCode ==
  When(Has("access_codes"),
       << Write({}, {}, {"unused duplicates"}),
          Statement(FALSE, {}, {"linked duplicates"}, {}, {}) >>
       \o When(Has("codes unique per partner"),
               << Alter("access_codes", {}, {}, {"codes unique per partner"}) >>)
       \o When(~Has("codes unique"),
               << Alter("access_codes", {}, {"codes unique"}, {}) >>))

\* Mutant: the foreign key comes back only with the column it was dropped for.
PartnerKeyOnce ==
  When(Has("codes.partner required"),
       << Alter("access_codes", {}, {}, {"codes => partners"}),
          Alter("access_codes", {}, {}, {"codes.partner required"}),
          Alter("access_codes", {"partners"}, {"codes => partners"}, {}) >>)

UpCodePartner ==
  When(Has("access_codes"),
       When(Has("codes => partners"),
            << Alter("access_codes", {}, {}, {"codes => partners"}) >>)
       \o When(Has("codes.partner required"),
               << Alter("access_codes", {}, {}, {"codes.partner required"}) >>)
       \o << Alter("access_codes", {"partners"}, {"codes => partners"}, {}) >>)

UpNewsletter == << Statement(TRUE, {}, {}, {"newsletter_subscribers"}, {}) >>

UpExportedAt ==
  When(~Has("codes.exportedAt"), << Alter("access_codes", {}, {"codes.exportedAt"}, {}) >>)

\* The five categories it inserts or updates by their slugs, General first.
SeedCategories == << Write({"course_categories"}, {"general category"}, {}),
                     Write({"course_categories"}, {"other categories"}, {}) >>

CategoryTable    == Create("course_categories", {}, {})
CategoryOfCourse ==
  When(Has("courses") /\ ~Has("courses.category"),
       << Alter("courses", {}, {"courses.category", "uncategorised courses"}, {}) >>)
  \o << Write({"courses.category", "general category"}, {}, {"uncategorised courses"}),
        Statement(TRUE, {"courses.category"}, {"uncategorised courses"},
                  {"courses.category required"}, {}) >>
  \o When(~Has("courses => categories"),
          << Statement(TRUE, {"courses.category", "course_categories"},
               {"courses => categories", "dangling courses"}, {"courses => categories"}, {}) >>)

\* Mutant: the table is created whether it is there or not.
CategoriesFromScratch == << CategoryTable >> \o SeedCategories \o CategoryOfCourse

UpCategories ==
  When(~Has("course_categories"), << CategoryTable >>) \o SeedCategories \o CategoryOfCourse

\* The courses get the new id before the category does: if the courses had it
\* already, the category gets another one and they are left with nothing.
UpRealCategoryIds ==
  When(Has("placeholder ids"),
       When(Has("courses => categories"),
            << Alter("courses", {}, {}, {"courses => categories"}) >>)
       \o << Write({}, {"dangling courses"}, {}),
             Write({}, {}, {"placeholder ids"}
                       \cup (IF Has("dangling courses") THEN {} ELSE {"dangling courses"})),
             Statement(TRUE, {}, {"courses => categories", "dangling courses"},
                       {"courses => categories"}, {}) >>)

UpActivatePaid == << Write({"users", "payment_transactions"}, {}, {"paid not onboarded"}) >>

UpResourceType ==
  When(Has("course_videos") /\ ~Has("videos.resourceType"),
       << Alter("course_videos", {}, {"videos.resourceType"}, {}) >>)

Up(m) ==
  CASE m = "schema"        -> UpSchema        [] m = "accountStatus"   -> UpAccountStatus
    [] m = "paymentUser"   -> UpPaymentUser   [] m = "detachCourses"   -> UpDetachCourses
    [] m = "videoDetails"  -> UpVideoDetails  [] m = "uniqueCode"      -> UpUniqueCode
    [] m = "codePartner"   -> UpCodePartner   [] m = "newsletter"      -> UpNewsletter
    [] m = "exportedAt"    -> UpExportedAt    [] m = "categories"      -> UpCategories
    [] m = "realCategoryIds" -> UpRealCategoryIds
    [] m = "activatePaid"  -> UpActivatePaid  [] m = "resourceType"    -> UpResourceType

-----------------------------------------------------------------------------
(* The migration runner.                                                   *)

\* The first migration in the order that has no row.
NextPending(i) == Order[i] \notin recorded /\ \A j \in 1 .. i - 1 : Order[j] \in recorded

\* The transaction begins with the first migration and ends with the last.
BeginMigrations ==
  /\ phase = "stopped"
  /\ phase' = "migrating"
  /\ undo' = [schema |-> schema, recorded |-> recorded]
  /\ running' = None
  /\ UNCHANGED <<schema, recorded, todo, interrupted, workload, crashes>>

BeginMigration ==
  /\ phase = "migrating" /\ running = None
  /\ \E i \in DOMAIN Order : /\ NextPending(i)
                            /\ running' = Order[i]
                            /\ todo' = Up(Order[i])
  /\ UNCHANGED <<schema, recorded, undo, interrupted, containerVars>>

\* The connection closes: an open transaction is rolled back.
RollBack(open) ==
  /\ phase' = "stopped"
  /\ schema' = IF open = None THEN schema ELSE open.schema
  /\ recorded' = IF open = None THEN recorded ELSE open.recorded
  /\ undo' = None /\ running' = None /\ todo' = <<>>
  /\ interrupted' = interrupted \cup ({running} \ {None})

\* A DDL statement commits first, even if it then fails.
RunStatement ==
  /\ phase = "migrating" /\ todo # <<>>
  /\ LET s    == Head(todo)
         open == IF s.ddl THEN None ELSE undo
     IN  IF s.needs \subseteq schema /\ s.excludes \cap schema = {}
         THEN /\ schema' = (schema \ s.loses) \cup s.gains
              /\ todo' = Tail(todo)
              /\ undo' = open
              /\ UNCHANGED <<recorded, running, interrupted, phase>>
         ELSE RollBack(open)
  /\ UNCHANGED <<workload, crashes>>

RecordMigration ==
  /\ running # None /\ todo = <<>>
  /\ recorded' = recorded \cup {running}
  /\ running' = None
  /\ UNCHANGED <<schema, todo, undo, interrupted, containerVars>>

CommitMigrations ==
  /\ phase = "migrating" /\ running = None
  /\ All \subseteq recorded
  /\ undo' = None
  /\ phase' = "booting"
  /\ UNCHANGED <<schema, recorded, running, todo, interrupted, workload, crashes>>

Migrate ==
  BeginMigrations \/ BeginMigration \/ RunStatement \/ RecordMigration \/ CommitMigrations

-----------------------------------------------------------------------------
(* Properties.                                                             *)

BootstrapTables ==
  {"roles", "partners", "system_settings", "payment_webhook_events", "courses", "users",
   "access_codes", "course_videos", "payment_transactions", "course_enrollments",
   "notifications", "otps"}

\* What a migration is for: the facts it leaves, and those it leaves none of.
Leaves(m) ==
  CASE m = "schema"        -> BootstrapTables
    [] m = "accountStatus" -> {"users.accountStatus"}
    [] m = "paymentUser"   -> {"payments => users"}
    [] m = "detachCourses" -> {}
    [] m = "videoDetails"  -> {"videos.details"}
    [] m = "uniqueCode"    -> {"codes unique"}
    [] m = "codePartner"   -> {"codes => partners"}
    [] m = "newsletter"    -> {"newsletter_subscribers"}
    [] m = "exportedAt"    -> {"codes.exportedAt"}
    [] m = "categories"    -> {"general category", "other categories", "courses.category required"}
    [] m = "realCategoryIds" -> {"courses => categories"}
    [] m = "activatePaid"  -> {}
    [] m = "resourceType"  -> {"videos.resourceType"}

Ends(m) ==
  CASE m = "accountStatus" -> {"inactive not disabled"}
    [] m = "paymentUser"   -> {"payments.user required"}
    [] m = "detachCourses" -> {CoursePartner[i] : i \in DOMAIN CoursePartner}
    [] m = "videoDetails"  -> {"videos.duration text"}
    [] m = "uniqueCode"    -> {"codes unique per partner", "unused duplicates", "linked duplicates"}
    [] m = "codePartner"   -> {"codes.partner required"}
    [] m = "categories"    -> {"uncategorised courses"}
    [] m = "realCategoryIds" -> {"placeholder ids", "dangling courses"}
    [] m = "activatePaid"  -> {"paid not onboarded"}
    [] OTHER               -> {}

\* The migrations that take what they find of their own work for all of it.
Fragile == {"schema", "accountStatus", "paymentUser", "realCategoryIds"}
Spoiled == interrupted \cap Fragile

HalfBootstrapped == BootstrapTables \cap schema \notin {{}, BootstrapTables}

\* What migrations make of a database, whole or in pieces: done has been recorded,
\* and those of broken that are fragile may have stopped half-way.
Intact(facts, done, broken) ==
  /\ done \subseteq All /\ (done = {} \/ "schema" \in done)
  /\ \A m \in done \ (broken \cap Fragile) : Leaves(m) \subseteq facts /\ Ends(m) \cap facts = {}
  /\ "schema" \notin broken => ("users" \in facts => BootstrapTables \subseteq facts)
  /\ "accountStatus" \notin broken =>
       ("users" \notin facts \/ "users.accountStatus" \in facts => "inactive not disabled" \notin facts)
  /\ "paymentUser" \notin broken =>
       ("payment_transactions" \in facts =>
          "payments.user required" \in facts \/ "payments => users" \in facts)
  /\ "realCategoryIds" \notin broken =>
       /\ "courses => categories" \in facts => "dangling courses" \notin facts
       /\ "categories" \in done => "courses => categories" \in facts

\* A recorded migration has done its work, however often the container died
\* while migrating - unless it is one of the four that do not survive it.
RecordedIsApplied ==
  \A m \in recorded \ Spoiled :
    "schema" \notin Spoiled => Leaves(m) \subseteq schema /\ Ends(m) \cap schema = {}
=============================================================================
