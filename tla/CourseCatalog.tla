--------------------------- MODULE CourseCatalog ----------------------------
(***************************************************************************)
(* The catalogue the staff edits while students buy from it: courses with  *)
(* their slugs, categories and videos.                                     *)
(*                                                                         *)
(* Every statement runs on its own.  A handler reads a row, changes the    *)
(* entity and saves all of it: the save inserts the row again if it is     *)
(* gone, and overwrites what others saved since the read.  Only the        *)
(* database's UNIQUE slugs and foreign keys stand between two handlers.    *)
(***************************************************************************)
EXTENDS Naturals, Sequences, FiniteSets

CONSTANTS
  Courses,       \* the ids courses may get
  Videos,        \* the ids videos may get
  Categories,    \* the ids categories may get
  Requests,      \* requests the server handles concurrently
  None,
  InitialCourse, \* the courses of a catalogue that is in use
  InitialVideo,  \* the course of each of its videos
  General,       \* the id of the category the migration inserted
  MaxSuffix,     \* bound on the numbers put behind a slug
  MaxRequests    \* bound on the requests accepted

\* A slug is a base with a number: 1 is the base alone, n stands for base-n.
SlugsOf(bases) == bases \X (1 .. MaxSuffix)
CourseSlugs    == SlugsOf({"title"})
CategorySlugs  == SlugsOf({"general", "office"})
GeneralSlug    == <<"general", 1>>

Statuses   == {"draft", "published", "disabled"}
CourseRows == [status: Statuses, slug: CourseSlugs, category: Categories]
CategoryRows == [slug: CategorySlugs, isDefault: BOOLEAN]

\* What CourseCategoriesSeedService looks for at every start.
Seeds == << [slug |-> GeneralSlug, isDefault |-> TRUE],
            [slug |-> <<"office", 1>>, isDefault |-> FALSE] >>

VARIABLES
  course,    \* the courses table: a row or None under every id
  video,     \* the course of each row of course_videos
  category,  \* the course_categories table
  enrolled,  \* the courses that enrolments point at
  paid,      \* the courses that payment rows point at
  taken,     \* the ids handed out so far: an id is never drawn twice
  seeded,    \* how many seeds this start has done: it listens after the last
  req,       \* the request each handler is in the middle of
  accepted   \* the requests accepted

rows == <<course, video, category, enrolled, paid>>
vars == <<rows, taken, seeded, req, accepted>>

ASSUME CatalogAssumption ==
  /\ {MaxSuffix, MaxRequests} \subseteq Nat \ {0}
  /\ IsFiniteSet(Courses) /\ IsFiniteSet(Videos) /\ IsFiniteSet(Categories)
  /\ General \in Categories
  /\ None \notin Courses \cup CourseRows \cup CategoryRows
  /\ InitialCourse \in [Courses -> CourseRows \cup {None}]
  /\ InitialVideo \in [Videos -> Courses \cup {None}]
  /\ \A c \in Courses : InitialCourse[c] # None => InitialCourse[c].category = General
  /\ \A v \in Videos : InitialVideo[v] # None => InitialCourse[InitialVideo[v]] # None

\* steps: the statements the request has yet to run.  id: the row it is about.
\* row: the entity it read and changed.  base, n: the slug it is trying.
\* category: the category asked for.  sold: was the course sold at the beginning?
NoRequest == [op |-> "none", steps |-> <<>>, id |-> None, row |-> None,
              category |-> None, base |-> None, n |-> 1, sold |-> FALSE]

Program(op, cat, base) ==
  CASE op = "create"   -> <<"slug", "category", "insert">>
    [] op = "update" /\ cat = None /\ base = None -> <<"read", "save">>
    [] op = "update" /\ cat # None /\ base = None -> <<"read", "category", "save">>
    [] op = "update" /\ cat = None /\ base # None -> <<"read", "slug", "save">>
    [] op = "update" /\ cat # None /\ base # None -> <<"read", "category", "slug", "save">>
    [] op \in Statuses -> <<"read", "save">>
    [] op = "remove"   -> <<"read", "enrollments", "payments", "videos", "delete">>
    [] op = "buy"      -> <<"published", "sell">>
    [] op = "addVideo" -> <<"read", "insertVideo">>
    [] op = "editVideo"      -> <<"readVideo", "saveVideo">>
    [] op = "dropVideo"      -> <<"readVideo", "deleteVideo">>
    [] op = "newCategory"    -> <<"categorySlug", "insertCategory">>
    [] op = "editCategory"   -> <<"readCategory", "categorySlug", "saveCategory">>
    [] op = "dropCategory"   -> <<"readCategory", "general", "moveCourses", "deleteCategory">>

At(r, step)        == req[r].steps # <<>> /\ Head(req[r].steps) = step
Id(r)              == req[r].id
Image(r)           == req[r].row
Become(r, request) == req' = [req EXCEPT ![r] = request]
Finish(r)          == Become(r, NoRequest)
Continue(r, request) == Become(r, [request EXCEPT !.steps = Tail(@)])
Sold(c)            == c \in enrolled \cup paid

-----------------------------------------------------------------------------
(* Requests.                                                               *)

Listening == seeded = Len(Seeds)

Accept(r, op, id, cat, base) ==
  /\ Listening
  /\ req[r] = NoRequest
  /\ accepted < MaxRequests
  /\ accepted' = accepted + 1
  /\ Become(r, [NoRequest EXCEPT !.op = op, !.steps = Program(op, cat, base),
                  !.id = id, !.category = cat, !.base = base,
                  !.sold = id \in Courses /\ Sold(id)])
  /\ UNCHANGED <<rows, taken, seeded>>

\* Creating asks for a category or leaves it to the General one; an update may
\* change the category, the title and with it the slug, or other columns alone.
CourseRequest(r) ==
  \/ \E cat \in Categories \cup {None} : Accept(r, "create", None, cat, "title")
  \/ \E c \in Courses :
       \/ \E cat \in Categories \cup {None}, base \in {"title", None} :
            Accept(r, "update", c, cat, base)
       \/ \E op \in Statuses \cup {"remove", "buy"} : Accept(r, op, c, None, None)

VideoRequest(r) ==
  \/ \E c \in Courses : Accept(r, "addVideo", c, None, None)
  \/ \E v \in Videos, op \in {"editVideo", "dropVideo"} : Accept(r, op, v, None, None)

CategoryRequest(r) ==
  \/ \E base \in {"general", "office"} : Accept(r, "newCategory", None, None, base)
  \/ \E k \in Categories :
       \/ \E base \in {"general", "office", None} : Accept(r, "editCategory", k, None, base)
       \/ Accept(r, "dropCategory", k, None, None)

\* A statement fails: the request ends with an error.
Fail(r) == /\ req[r] # NoRequest
           /\ Finish(r)
           /\ UNCHANGED <<rows, taken, seeded, accepted>>

\* The statement reads: it changes the request alone.
OnlyReads == UNCHANGED <<rows, taken, seeded, accepted>>

-----------------------------------------------------------------------------
(* Courses.                                                                *)

\* findCourseById.
ReadCourse(r) ==
  LET row == course[Id(r)]
  IN  /\ At(r, "read")
      /\ IF row = None THEN Finish(r)
         ELSE Continue(r, [req[r] EXCEPT !.row =
                IF req[r].op \in Statuses THEN [row EXCEPT !.status = req[r].op] ELSE row])
      /\ OnlyReads

\* Mutant: a course may be left without a category.
NewUncategorised(r, k) == [status |-> "draft", slug |-> <<req[r].base, req[r].n>>,
                           category |-> req[r].category]

NewCourse(r, k) == [status |-> "draft", slug |-> <<req[r].base, req[r].n>>, category |-> k]

\* assertCategoryExists or getGeneralCategory; createCourse makes its entity here.
ReadCategoryOfCourse(r) ==
  LET asked == req[r].category
      found == {k \in Categories : category[k] # None
                  /\ (IF asked = None THEN category[k].slug = GeneralSlug ELSE k = asked)}
  IN  /\ At(r, "category")
      /\ \/ found = {} /\ Finish(r)
         \/ \E k \in found :
              Continue(r, [req[r] EXCEPT !.row =
                IF req[r].op = "create" THEN NewCourse(r, k) ELSE [Image(r) EXCEPT !.category = k]])
      /\ OnlyReads

\* Mutant: the loop looks for the same slug again.
SameCandidate(n) == n

NextCandidate(n) == n + 1

\* One round of generateUniqueSlug: is the candidate another row's slug?
TrySlug(r, table, ids, named) ==
  LET slug == <<req[r].base, req[r].n>>
  IN  IF \E i \in ids \ {Id(r)} : table[i] # None /\ table[i].slug = slug
      THEN /\ NextCandidate(req[r].n) <= MaxSuffix
           /\ Become(r, [req[r] EXCEPT !.n = NextCandidate(@)])
      ELSE Continue(r, IF named THEN [req[r] EXCEPT !.row.slug = slug] ELSE req[r])

ResolveSlug(r) ==
  /\ At(r, "slug")
  /\ TrySlug(r, course, Courses, req[r].op = "update")
  /\ OnlyReads

\* The constraints of the courses table.
CanSaveCourse(c, row) ==
  /\ category[row.category] # None
  /\ \A other \in Courses \ {c} : course[other] # None => course[other].slug # row.slug

InsertCourse(r) ==
  /\ At(r, "insert")
  /\ IF \E c \in Courses \ taken : CanSaveCourse(c, Image(r))
     THEN \E c \in Courses \ taken :
            course' = [course EXCEPT ![c] = Image(r)] /\ taken' = taken \cup {c}
     ELSE UNCHANGED <<course, taken>>
  /\ Finish(r)
  /\ UNCHANGED <<video, category, enrolled, paid, seeded, accepted>>

\* TypeORM's save writes the whole entity, or inserts it if it is gone.
SaveCourse(r) ==
  /\ At(r, "save")
  /\ course' = IF CanSaveCourse(Id(r), Image(r))
               THEN [course EXCEPT ![Id(r)] = Image(r)] ELSE course
  /\ Finish(r)
  /\ UNCHANGED <<video, category, enrolled, paid, taken, seeded, accepted>>

\* Mutant: nobody counts the payments of a course nobody is enrolled in.
CountsEnrollmentsOnly(r, step) == IF step = "enrollments" THEN enrolled ELSE {}

Counted(r, step) == IF step = "enrollments" THEN enrolled ELSE paid

CountSales(r) ==
  /\ \E step \in {"enrollments", "payments"} :
       /\ At(r, step)
       /\ IF Id(r) \in Counted(r, step) THEN Finish(r) ELSE Continue(r, req[r])
  /\ OnlyReads

DropVideos(r) ==
  /\ At(r, "videos")
  /\ video' = [v \in Videos |-> IF video[v] = Id(r) THEN None ELSE video[v]]
  /\ Continue(r, req[r])
  /\ UNCHANGED <<course, category, enrolled, paid, taken, seeded, accepted>>

\* Mutant: the payment rows do not refer to the courses table.
ReferredByContent(c) == (\E v \in Videos : video[v] = c) \/ c \in enrolled

\* The foreign keys to the courses table: none of them cascades.
Referred(c) == (\E v \in Videos : video[v] = c) \/ Sold(c)

DeleteCourse(r) ==
  /\ At(r, "delete")
  /\ course' = IF Referred(Id(r)) THEN course ELSE [course EXCEPT ![Id(r)] = None]
  /\ Finish(r)
  /\ UNCHANGED <<video, category, enrolled, paid, taken, seeded, accepted>>

-----------------------------------------------------------------------------
(* Sales: what the payment handlers read and insert.                       *)

\* findPublishedCourse.
ReadPublished(r) ==
  /\ At(r, "published")
  /\ IF course[Id(r)] # None /\ course[Id(r)].status = "published"
     THEN Continue(r, req[r]) ELSE Finish(r)
  /\ OnlyReads

\* A cart's payment row points at its first course alone.
Sell(r) ==
  /\ At(r, "sell")
  /\ IF course[Id(r)] = None THEN UNCHANGED <<enrolled, paid>>
     ELSE /\ enrolled' = enrolled \cup {Id(r)}
          /\ paid' \in {paid, paid \cup {Id(r)}}
  /\ Finish(r)
  /\ UNCHANGED <<course, video, category, taken, seeded, accepted>>

\* recordFailedPayment takes the course from the checkout and reads no course.
RecordFailedPayment(c) ==
  /\ Listening
  /\ course[c] # None
  /\ paid' = paid \cup {c}
  /\ UNCHANGED <<course, video, category, enrolled, taken, seeded, req, accepted>>

-----------------------------------------------------------------------------
(* Videos.                                                                 *)

InsertVideo(r) ==
  /\ At(r, "insertVideo")
  /\ IF course[Id(r)] # None /\ Videos \ taken # {}
     THEN \E v \in Videos \ taken :
            video' = [video EXCEPT ![v] = Id(r)] /\ taken' = taken \cup {v}
     ELSE UNCHANGED <<video, taken>>
  /\ Finish(r)
  /\ UNCHANGED <<course, category, enrolled, paid, seeded, accepted>>

\* findCourseVideo; the course in the path is the video's own.
ReadVideo(r) ==
  /\ At(r, "readVideo")
  /\ IF video[Id(r)] = None THEN Finish(r)
     ELSE Continue(r, [req[r] EXCEPT !.row = video[Id(r)]])
  /\ OnlyReads

SaveVideo(r) ==
  /\ At(r, "saveVideo")
  /\ video' = IF course[Image(r)] = None THEN video ELSE [video EXCEPT ![Id(r)] = Image(r)]
  /\ Finish(r)
  /\ UNCHANGED <<course, category, enrolled, paid, taken, seeded, accepted>>

DeleteVideo(r) ==
  /\ At(r, "deleteVideo")
  /\ video' = [video EXCEPT ![Id(r)] = None]
  /\ Finish(r)
  /\ UNCHANGED <<course, category, enrolled, paid, taken, seeded, accepted>>

-----------------------------------------------------------------------------
(* Categories.                                                             *)

CategoryHandlerUnchanged == UNCHANGED <<video, enrolled, paid, seeded, accepted>>

\* Mutant: a category's own flag is all that protects it from a new slug.
RefusesNothing(r, row) == FALSE

\* update refuses a slug of its own for the default category, remove to remove it.
Refuses(r, row) ==
  \/ req[r].op = "editCategory" /\ row.isDefault /\ req[r].base \notin {None, "general"}
  \/ req[r].op = "dropCategory" /\ (row.isDefault \/ row.slug = GeneralSlug)

\* assertCategoryExists; an update that keeps the slug goes straight to the save.
ReadCategory(r) ==
  LET row   == category[Id(r)]
      keeps == req[r].op = "editCategory"
                 /\ (req[r].base = None \/ <<req[r].base, 1>> = row.slug)
      next  == [req[r] EXCEPT !.row = row]
  IN  /\ At(r, "readCategory")
      /\ IF row = None THEN Finish(r)
         ELSE IF Refuses(r, row) THEN Finish(r)
         ELSE Continue(r, IF keeps THEN [next EXCEPT !.steps = Tail(@)] ELSE next)
      /\ OnlyReads

ResolveCategorySlug(r) ==
  /\ At(r, "categorySlug")
  /\ TrySlug(r, category, Categories, req[r].op = "editCategory")
  /\ OnlyReads

CanSaveCategory(k, row) ==
  \A other \in Categories \ {k} : category[other] # None => category[other].slug # row.slug

InsertCategory(r) ==
  LET row == [slug |-> <<req[r].base, req[r].n>>, isDefault |-> FALSE]
  IN  /\ At(r, "insertCategory")
      /\ IF \E k \in Categories \ taken : CanSaveCategory(k, row)
         THEN \E k \in Categories \ taken :
                category' = [category EXCEPT ![k] = row] /\ taken' = taken \cup {k}
         ELSE UNCHANGED <<category, taken>>
      /\ Finish(r)
      /\ UNCHANGED course /\ CategoryHandlerUnchanged

SaveCategory(r) ==
  /\ At(r, "saveCategory")
  /\ category' = IF CanSaveCategory(Id(r), Image(r))
                 THEN [category EXCEPT ![Id(r)] = Image(r)] ELSE category
  /\ Finish(r)
  /\ UNCHANGED <<course, taken>> /\ CategoryHandlerUnchanged

\* getGeneralCategory: the courses will move to the category found now.
ReadGeneral(r) ==
  /\ At(r, "general")
  /\ \/ \E k \in Categories :
          /\ category[k] # None /\ category[k].slug = GeneralSlug
          /\ Continue(r, [req[r] EXCEPT !.category = k])
     \/ /\ \A k \in Categories : category[k] # None => category[k].slug # GeneralSlug
        /\ Finish(r)
  /\ OnlyReads

MoveCourses(r) ==
  LET moved(row) == IF row # None /\ row.category = Id(r)
                    THEN [row EXCEPT !.category = req[r].category] ELSE row
  IN  /\ At(r, "moveCourses")
      /\ IF category[req[r].category] = None
         THEN Finish(r) /\ UNCHANGED course
         ELSE /\ course' = [c \in Courses |-> moved(course[c])]
              /\ Continue(r, req[r])
      /\ UNCHANGED <<category, taken>> /\ CategoryHandlerUnchanged

\* onDelete: RESTRICT.
DeleteCategory(r) ==
  /\ At(r, "deleteCategory")
  /\ category' = IF \E c \in Courses : course[c] # None /\ course[c].category = Id(r)
                 THEN category ELSE [category EXCEPT ![Id(r)] = None]
  /\ Finish(r)
  /\ UNCHANGED <<course, taken>> /\ CategoryHandlerUnchanged

-----------------------------------------------------------------------------
(* Starts.                                                                 *)

\* The process dies, with every request it was handling.
Restart ==
  /\ seeded' = 0
  /\ req' = [r \in Requests |-> NoRequest]
  /\ UNCHANGED <<rows, taken, accepted>>

\* Mutant: the seed only inserts what is missing.
SeedMissing(row, seed) == row

Seeded(row, seed) == [row EXCEPT !.isDefault = seed.isDefault]

\* One round of onModuleInit's loop; nothing is served before the last.
Seed ==
  /\ ~Listening
  /\ LET seed  == Seeds[seeded + 1]
         found == {k \in Categories : category[k] # None /\ category[k].slug = seed.slug}
     IN  IF found # {}
         THEN /\ category' = [k \in Categories |->
                   IF k \in found THEN Seeded(category[k], seed) ELSE category[k]]
              /\ UNCHANGED taken
         ELSE \E k \in Categories \ taken :
                /\ category' = [category EXCEPT ![k] = seed]
                /\ taken' = taken \cup {k}
  /\ seeded' = seeded + 1
  /\ UNCHANGED <<course, video, enrolled, paid, req, accepted>>

-----------------------------------------------------------------------------
Proceed(r) ==
  \/ ReadCourse(r) \/ ReadCategoryOfCourse(r) \/ ResolveSlug(r)
  \/ InsertCourse(r) \/ SaveCourse(r)
  \/ CountSales(r) \/ DropVideos(r) \/ DeleteCourse(r)
  \/ ReadPublished(r) \/ Sell(r)
  \/ InsertVideo(r) \/ ReadVideo(r) \/ SaveVideo(r) \/ DeleteVideo(r)
  \/ ReadCategory(r) \/ ResolveCategorySlug(r) \/ InsertCategory(r) \/ SaveCategory(r)
  \/ ReadGeneral(r) \/ MoveCourses(r) \/ DeleteCategory(r)

InUse(table) == {i \in DOMAIN table : table[i] # None}

Init ==
  /\ course = InitialCourse
  /\ video = InitialVideo
  /\ category = [k \in Categories |->
                   IF k = General THEN [slug |-> GeneralSlug, isDefault |-> TRUE] ELSE None]
  /\ enrolled = {} /\ paid = {}
  /\ taken = InUse(InitialCourse) \cup InUse(InitialVideo) \cup {General}
  /\ seeded = 0
  /\ req = [r \in Requests |-> NoRequest]
  /\ accepted = 0

Next ==
  \/ \E r \in Requests : \/ CourseRequest(r) \/ VideoRequest(r) \/ CategoryRequest(r)
                        \/ Proceed(r) \/ Fail(r)
  \/ \E c \in Courses : RecordFailedPayment(c)
  \/ Restart
  \/ Seed

Spec     == Init /\ [][Next]_vars
FairSpec == Spec /\ \A r \in Requests : WF_vars(Proceed(r))

-----------------------------------------------------------------------------
(* Properties.                                                             *)

\* The tables and the requests have the shape the entities declare.
TypeOK ==
  /\ course \in [Courses -> CourseRows \cup {None}]
  /\ video \in [Videos -> Courses \cup {None}]
  /\ category \in [Categories -> CategoryRows \cup {None}]
  /\ enrolled \subseteq Courses /\ paid \subseteq Courses
  /\ taken \subseteq Courses \cup Videos \cup Categories
  /\ seeded \in 0 .. Len(Seeds)
  /\ accepted \in 0 .. MaxRequests
  /\ \A r \in Requests :
       /\ req[r].row \in CourseRows \cup CategoryRows \cup Courses \cup {None}
       /\ req[r].n \in 1 .. MaxSuffix

\* A course that was sold is still in the catalogue, whatever is removed, saved
\* late or inserted again, and no row refers to one that is gone.
NothingDangles ==
  /\ \A c \in Courses : Sold(c) => course[c] # None
  /\ \A v \in Videos : video[v] # None => course[video[v]] # None
  /\ \A c \in Courses : course[c] # None => category[course[c].category] # None

\* removeCourse deletes the videos before it tries to delete the course: a course
\* that was sold before the removal was asked for never gets that far.
RemovalSparesSold ==
  \A r \in Requests : At(r, "videos") \/ At(r, "delete") => ~req[r].sold

\* While requests are served there is one default category, and it is the one
\* createCourse and remove find by the slug "general".
GeneralIsTheDefault ==
  /\ category[General] # None
  /\ \A k \in Categories : category[k] # None =>
       (category[k].isDefault <=> k = General) /\ (category[k].slug = GeneralSlug <=> k = General)

\* Every request ends: the search for a free slug does too.
RequestsEnd == \A r \in Requests : req[r] # NoRequest ~> req[r] = NoRequest
=============================================================================
