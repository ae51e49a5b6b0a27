------------------------ MODULE CourseCatalogProofs -------------------------
(***************************************************************************)
(* What CourseCatalog keeps true for every catalogue and every number of   *)
(* requests handled at the same time.                                      *)
(*                                                                         *)
(* A request's memory is what its handler read steps ago.  Fits says what  *)
(* it may still rely on then, none of which another request can change:    *)
(* which statements are left, that a late save writes a whole row, and     *)
(* that an edit of a category knows whether it is the General one.         *)
(***************************************************************************)
EXTENDS CourseCatalog, TLAPS

Waits(x, step) == x.steps # <<>> /\ Head(x.steps) = step

\* What is left of an update that changes the slug.
Renaming == {<<"read", "category", "slug", "save">>, <<"read", "slug", "save">>,
             <<"category", "slug", "save">>, <<"slug", "save">>}

\* The statements an operation may have left.
Planned(op, steps) ==
  \/ op = "none" /\ steps = <<>>
  \/ op = "create" /\ steps \in {<<"slug", "category", "insert">>, <<"category", "insert">>,
                                  <<"insert">>}
  \/ op = "update" /\ steps \in {<<"read", "category", "save">>, <<"read", "save">>,
                                  <<"category", "save">>, <<"save">>} \cup Renaming
  \/ op \in Statuses /\ steps \in {<<"read", "save">>, <<"save">>}
  \/ op = "remove" /\ steps \in {<<"read", "enrollments", "payments", "videos", "delete">>,
                                  <<"enrollments", "payments", "videos", "delete">>,
                                  <<"payments", "videos", "delete">>, <<"videos", "delete">>,
                                  <<"delete">>}
  \/ op = "buy" /\ steps \in {<<"published", "sell">>, <<"sell">>}
  \/ op = "addVideo" /\ steps \in {<<"read", "insertVideo">>, <<"insertVideo">>}
  \/ op = "editVideo" /\ steps \in {<<"readVideo", "saveVideo">>, <<"saveVideo">>}
  \/ op = "dropVideo" /\ steps \in {<<"readVideo", "deleteVideo">>, <<"deleteVideo">>}
  \/ op = "newCategory" /\ steps \in {<<"categorySlug", "insertCategory">>, <<"insertCategory">>}
  \/ op = "editCategory" /\ steps \in {<<"readCategory", "categorySlug", "saveCategory">>,
                                        <<"categorySlug", "saveCategory">>, <<"saveCategory">>}
  \/ op = "dropCategory" /\ steps \in {<<"readCategory", "general", "moveCourses",
                                         "deleteCategory">>,
                                        <<"general", "moveCourses", "deleteCategory">>,
                                        <<"moveCourses", "deleteCategory">>,
                                        <<"deleteCategory">>}

LEMMA Tails ==
  ASSUME NEW steps
  PROVE  /\ steps = <<"slug", "category", "insert">> => Tail(steps) = <<"category", "insert">>
         /\ steps = <<"category", "insert">> => Tail(steps) = <<"insert">>
         /\ steps = <<"read", "category", "slug", "save">> =>
                Tail(steps) = <<"category", "slug", "save">>
         /\ steps = <<"read", "category", "save">> => Tail(steps) = <<"category", "save">>
         /\ steps = <<"read", "slug", "save">> => Tail(steps) = <<"slug", "save">>
         /\ steps = <<"read", "save">> => Tail(steps) = <<"save">>
         /\ steps = <<"category", "slug", "save">> => Tail(steps) = <<"slug", "save">>
         /\ steps = <<"category", "save">> => Tail(steps) = <<"save">>
         /\ steps = <<"slug", "save">> => Tail(steps) = <<"save">>
         /\ steps = <<"read", "enrollments", "payments", "videos", "delete">> =>
                Tail(steps) = <<"enrollments", "payments", "videos", "delete">>
         /\ steps = <<"enrollments", "payments", "videos", "delete">> =>
                Tail(steps) = <<"payments", "videos", "delete">>
         /\ steps = <<"payments", "videos", "delete">> => Tail(steps) = <<"videos", "delete">>
         /\ steps = <<"videos", "delete">> => Tail(steps) = <<"delete">>
         /\ steps = <<"published", "sell">> => Tail(steps) = <<"sell">>
         /\ steps = <<"read", "insertVideo">> => Tail(steps) = <<"insertVideo">>
         /\ steps = <<"readVideo", "saveVideo">> => Tail(steps) = <<"saveVideo">>
         /\ steps = <<"readVideo", "deleteVideo">> => Tail(steps) = <<"deleteVideo">>
         /\ steps = <<"categorySlug", "insertCategory">> => Tail(steps) = <<"insertCategory">>
         /\ steps = <<"readCategory", "categorySlug", "saveCategory">> =>
                Tail(steps) = <<"categorySlug", "saveCategory">>
         /\ steps = <<"categorySlug", "saveCategory">> => Tail(steps) = <<"saveCategory">>
         /\ steps = <<"readCategory", "general", "moveCourses", "deleteCategory">> =>
                Tail(steps) = <<"general", "moveCourses", "deleteCategory">>
         /\ steps = <<"general", "moveCourses", "deleteCategory">> =>
                Tail(steps) = <<"moveCourses", "deleteCategory">>
         /\ steps = <<"moveCourses", "deleteCategory">> => Tail(steps) = <<"deleteCategory">>
<1>1. steps = <<"slug", "category", "insert">> => Tail(steps) = <<"category", "insert">>
  OBVIOUS
<1>2. steps = <<"category", "insert">> => Tail(steps) = <<"insert">>
  OBVIOUS
<1>3. steps = <<"read", "category", "slug", "save">> => Tail(steps) = <<"category", "slug", "save">>
  OBVIOUS
<1>4. steps = <<"read", "category", "save">> => Tail(steps) = <<"category", "save">>
  OBVIOUS
<1>5. steps = <<"read", "slug", "save">> => Tail(steps) = <<"slug", "save">>
  OBVIOUS
<1>6. steps = <<"read", "save">> => Tail(steps) = <<"save">>
  OBVIOUS
<1>7. steps = <<"category", "slug", "save">> => Tail(steps) = <<"slug", "save">>
  OBVIOUS
<1>8. steps = <<"category", "save">> => Tail(steps) = <<"save">>
  OBVIOUS
<1>9. steps = <<"slug", "save">> => Tail(steps) = <<"save">>
  OBVIOUS
<1>10. steps = <<"read", "enrollments", "payments", "videos", "delete">> =>
           Tail(steps) = <<"enrollments", "payments", "videos", "delete">>
  OBVIOUS
<1>11. steps = <<"enrollments", "payments", "videos", "delete">> =>
           Tail(steps) = <<"payments", "videos", "delete">>
  OBVIOUS
<1>12. steps = <<"payments", "videos", "delete">> => Tail(steps) = <<"videos", "delete">>
  OBVIOUS
<1>13. steps = <<"videos", "delete">> => Tail(steps) = <<"delete">>
  OBVIOUS
<1>14. steps = <<"published", "sell">> => Tail(steps) = <<"sell">>
  OBVIOUS
<1>15. steps = <<"read", "insertVideo">> => Tail(steps) = <<"insertVideo">>
  OBVIOUS
<1>16. steps = <<"readVideo", "saveVideo">> => Tail(steps) = <<"saveVideo">>
  OBVIOUS
<1>17. steps = <<"readVideo", "deleteVideo">> => Tail(steps) = <<"deleteVideo">>
  OBVIOUS
<1>18. steps = <<"categorySlug", "insertCategory">> => Tail(steps) = <<"insertCategory">>
  OBVIOUS
<1>19. steps = <<"readCategory", "categorySlug", "saveCategory">> =>
           Tail(steps) = <<"categorySlug", "saveCategory">>
  OBVIOUS
<1>20. steps = <<"categorySlug", "saveCategory">> => Tail(steps) = <<"saveCategory">>
  OBVIOUS
<1>21. steps = <<"readCategory", "general", "moveCourses", "deleteCategory">> =>
           Tail(steps) = <<"general", "moveCourses", "deleteCategory">>
  OBVIOUS
<1>22. steps = <<"general", "moveCourses", "deleteCategory">> =>
           Tail(steps) = <<"moveCourses", "deleteCategory">>
  OBVIOUS
<1>23. steps = <<"moveCourses", "deleteCategory">> => Tail(steps) = <<"deleteCategory">>
  OBVIOUS
<1>24. QED
  BY <1>1, <1>2, <1>3, <1>4, <1>5, <1>6, <1>7, <1>8, <1>9, <1>10, <1>11, <1>12, <1>13, <1>14, <1>15, <1>16, <1>17, <1>18, <1>19, <1>20, <1>21, <1>22, <1>23

LastSteps == {"insert", "save", "delete", "sell", "insertVideo", "saveVideo", "deleteVideo",
              "insertCategory", "saveCategory", "deleteCategory"}

\* What is left after a statement that is not the last is a plan as well.
LEMMA Onward ==
  ASSUME NEW op, NEW steps, Planned(op, steps), steps # <<>>, Head(steps) \notin LastSteps
  PROVE  Planned(op, Tail(steps)) /\ Tail(steps) # <<>>
<1>1. CASE op = "create"
  BY <1>1, Tails DEF Planned, LastSteps, Statuses
<1>2. CASE op = "update"
  <2>1. CASE steps \in {<<"read", "category", "save">>, <<"read", "save">>,
                       <<"category", "save">>, <<"save">>}
    <3>1. Tail(steps) \in {<<"category", "save">>, <<"save">>}
      BY <2>1, Tails DEF LastSteps
    <3>2. \A t \in {<<"category", "save">>, <<"save">>} : Planned("update", t) /\ t # <<>>
      BY DEF Planned
    <3>3. QED
      BY <1>2, <3>1, <3>2
  <2>2. CASE steps \in Renaming
    <3>1. Tail(steps) \in {<<"category", "slug", "save">>, <<"slug", "save">>, <<"save">>}
      BY <2>2, Tails DEF Renaming
    <3>2. \A t \in {<<"category", "slug", "save">>, <<"slug", "save">>, <<"save">>} :
            Planned("update", t) /\ t # <<>>
      BY DEF Planned, Renaming
    <3>3. QED
      BY <1>2, <3>1, <3>2
  <2>3. QED
    BY <1>2, <2>1, <2>2 DEF Planned, Statuses
<1>3. CASE op \in Statuses
  BY <1>3, Tails DEF Planned, LastSteps, Statuses
<1>4. CASE op = "remove"
  BY <1>4, Tails DEF Planned, LastSteps, Statuses
<1>5. CASE op \in {"buy", "addVideo", "editVideo", "dropVideo"}
  BY <1>5, Tails DEF Planned, LastSteps, Statuses
<1>6. CASE op = "newCategory"
  BY <1>6, Tails DEF Planned, LastSteps, Statuses
<1>7. CASE op = "editCategory"
  BY <1>7, Tails DEF Planned, LastSteps, Statuses
<1>8. CASE op = "dropCategory"
  <2>1. steps \in {<<"readCategory", "general", "moveCourses", "deleteCategory">>,
                  <<"general", "moveCourses", "deleteCategory">>,
                  <<"moveCourses", "deleteCategory">>}
    BY <1>8 DEF Planned, LastSteps, Statuses
  <2>2. Tail(steps) \in {<<"general", "moveCourses", "deleteCategory">>,
                        <<"moveCourses", "deleteCategory">>, <<"deleteCategory">>}
    BY <2>1, Tails
  <2>3. QED
    BY <1>8, <2>2 DEF Planned
<1>9. QED
  BY <1>1, <1>2, <1>3, <1>4, <1>5, <1>6, <1>7, <1>8 DEF Planned

\* Which operations run a statement, and what comes next.
LEMMA Places ==
  ASSUME NEW op, NEW steps, Planned(op, steps), steps # <<>>
  PROVE  /\ Head(steps) = "read" =>
              /\ op \in {"update", "remove", "addVideo"} \cup Statuses
              /\ op \in Statuses => Head(Tail(steps)) = "save"
              /\ op = "remove" => Head(Tail(steps)) = "enrollments"
         /\ Head(steps) \in {"slug", "category", "insert", "save"} =>
              op \in {"create", "update"} \cup Statuses
         /\ Head(steps) \in {"slug", "category"} => op \in {"create", "update"}
         /\ Head(steps) = "insert" => op = "create"
         /\ Head(steps) = "save" => op \in {"update"} \cup Statuses
         /\ Head(steps) \in {"enrollments", "payments", "videos", "delete"} => op = "remove"
         /\ Head(steps) = "enrollments" => Head(Tail(steps)) = "payments"
         /\ Head(steps) \in {"published", "sell"} => op = "buy"
         /\ Head(steps) = "insertVideo" => op = "addVideo"
         /\ Head(steps) = "readVideo" => op \in {"editVideo", "dropVideo"}
         /\ Head(steps) = "saveVideo" => op = "editVideo"
         /\ Head(steps) = "deleteVideo" => op = "dropVideo"
         /\ Head(steps) = "readCategory" => op \in {"editCategory", "dropCategory"}
         /\ Head(steps) = "categorySlug" => op \in {"newCategory", "editCategory"}
         /\ Head(steps) = "insertCategory" => op = "newCategory"
         /\ Head(steps) = "saveCategory" => op = "editCategory"
         /\ Head(steps) \in {"general", "moveCourses", "deleteCategory"} => op = "dropCategory"
         /\ op = "editCategory" /\ Head(steps) = "readCategory" =>
              Head(Tail(steps)) = "categorySlug"
         /\ op = "editCategory" /\ Head(steps) = "categorySlug" =>
              Head(Tail(steps)) = "saveCategory"
         /\ op = "dropCategory" /\ Head(steps) = "readCategory" => Head(Tail(steps)) = "general"
         /\ op = "create" /\ Head(steps) = "slug" => Head(Tail(steps)) = "category"
         /\ op = "dropCategory" /\ Head(steps) = "moveCourses" =>
              Head(Tail(steps)) = "deleteCategory"
<1>1. CASE op = "create"
  BY <1>1, Tails DEF Planned, Statuses
<1>2. CASE op = "update"
  BY <1>2, Tails DEF Planned, Renaming, Statuses
<1>3. CASE op \in Statuses
  BY <1>3, Tails DEF Planned, Statuses
<1>4. CASE op = "remove"
  BY <1>4, Tails DEF Planned, Statuses
<1>5. CASE op \in {"buy", "addVideo", "editVideo", "dropVideo"}
  BY <1>5, Tails DEF Planned, Statuses
<1>6. CASE op \in {"newCategory", "editCategory"}
  BY <1>6, Tails DEF Planned, Statuses
<1>7. CASE op = "dropCategory"
  BY <1>7, Tails DEF Planned, Statuses
<1>8. QED
  BY <1>1, <1>2, <1>3, <1>4, <1>5, <1>6, <1>7 DEF Planned

LEMMA RenamesLate ==
  ASSUME NEW steps, Planned("update", steps), steps # <<>>,
         Head(steps) = "slug" \/ Tail(steps) \in Renaming
  PROVE  steps \in Renaming
<1>1. SUFFICES ASSUME steps \in {<<"read", "category", "save">>, <<"read", "save">>,
                                 <<"category", "save">>, <<"save">>}
               PROVE  FALSE
  BY DEF Planned, Statuses
<1>2. CASE steps \in {<<"read", "category", "save">>, <<"read", "save">>, <<"category", "save">>}
  <2>1. Tail(steps) \in {<<"category", "save">>, <<"save">>}
    BY <1>2, Tails
  <2>2. Head(steps) # "slug"
    BY <1>2
  <2>3. \A t \in {<<"category", "save">>, <<"save">>} : t \notin Renaming
    BY DEF Renaming
  <2>4. QED
    BY <2>1, <2>2, <2>3
<1>3. CASE steps = <<"save">>
  <2>1. Head(steps) # "slug" /\ Tail(steps) = <<>>
    BY <1>3
  <2>2. <<>> \notin Renaming
    BY DEF Renaming
  <2>3. QED
    BY <2>1, <2>2
<1>4. QED
  BY <1>1, <1>2, <1>3

-----------------------------------------------------------------------------
(* What a request may rely on.                                             *)

RequestWith(op, steps) ==
  [op: {op}, steps: {steps}, id: Courses \cup Videos \cup Categories \cup {None},
   row: CourseRows \cup CategoryRows \cup Courses \cup {None},
   category: Categories \cup {None}, base: {"title", "general", "office", None},
   n: 1 .. MaxSuffix, sold: BOOLEAN]

\* The ids and names a request came with.
Asks(x) ==
  /\ x.op \in {"update", "remove", "buy", "addVideo"} \cup Statuses => x.id \in Courses
  /\ x.op \in {"editVideo", "dropVideo"} => x.id \in Videos
  /\ x.op \in {"editCategory", "dropCategory"} => x.id \in Categories
  /\ x.op = "create" => x.base = "title"
  /\ x.op = "update" /\ x.steps \in Renaming => x.base = "title"
  /\ x.op = "newCategory" => x.base \in {"general", "office"}
  /\ x.op = "editCategory" => x.base \in {"general", "office", None}

\* What it has read: a late save writes a whole row, and an edit or a removal of a
\* category knows whether it is about the General one.
Knows(x) ==
  /\ Waits(x, "insert") => x.row \in CourseRows
  /\ x.op \in {"update"} \cup Statuses /\ ~Waits(x, "read") => x.row \in CourseRows
  /\ Waits(x, "saveVideo") => x.row \in Courses
  /\ Waits(x, "categorySlug") => x.base \in {"general", "office"}
  /\ x.op = "editCategory" /\ ~Waits(x, "readCategory") =>
       /\ x.row \in CategoryRows
       /\ x.row.isDefault <=> x.id = General
       /\ x.id = General => x.row.slug = GeneralSlug /\ Waits(x, "saveCategory")
  /\ x.op = "dropCategory" /\ ~Waits(x, "readCategory") => x.id # General
  /\ Waits(x, "moveCourses") => x.category \in Categories

Fits(x) == x \in RequestWith(x.op, x.steps) /\ Planned(x.op, x.steps) /\ Asks(x) /\ Knows(x)

LEMMA Sizes == MaxSuffix \in Nat \ {0} /\ MaxRequests \in Nat \ {0}
  BY CatalogAssumption

LEMMA NoRequestFits == Fits(NoRequest)
<1>1. NoRequest \in RequestWith(NoRequest.op, NoRequest.steps)
  <2>1. 1 \in 1 .. MaxSuffix
    BY Sizes
  <2>2. QED
    BY <2>1 DEF NoRequest, RequestWith
<1>2. NoRequest.op = "none" /\ NoRequest.steps = <<>>
  BY DEF NoRequest
<1>3. Planned("none", <<>>)
  BY DEF Planned
<1>4. Asks(NoRequest)
  BY <1>2 DEF Asks, Statuses
<1>5. Knows(NoRequest)
  BY <1>2 DEF Knows, Waits, Statuses
<1>6. QED
  BY <1>1, <1>2, <1>3, <1>4, <1>5 DEF Fits

\* What an operation has to know follows from what it is and where it stands.
LEMMA KnowsCourse ==
  ASSUME NEW x, Planned(x.op, x.steps), x.steps # <<>>,
         x.op \in {"create", "update"} \cup Statuses, x.row \in CourseRows
  PROVE  Knows(x)
<1>1. Head(x.steps) \notin {"saveVideo", "categorySlug", "moveCourses"}
  BY Places DEF Statuses
<1>2. QED
  BY <1>1 DEF Knows, Waits, Statuses

LEMMA KnowsNothing ==
  ASSUME NEW x, Planned(x.op, x.steps), x.steps # <<>>,
         x.op \in {"remove", "buy", "addVideo", "dropVideo"}
  PROVE  Knows(x)
<1>1. Head(x.steps) \notin {"insert", "saveVideo", "categorySlug", "moveCourses"}
  BY Places DEF Statuses
<1>2. QED
  BY <1>1 DEF Knows, Waits, Statuses

LEMMA KnowsVideo ==
  ASSUME NEW x, Planned(x.op, x.steps), x.steps # <<>>, x.op = "editVideo", x.row \in Courses
  PROVE  Knows(x)
<1>1. Head(x.steps) \notin {"insert", "categorySlug", "moveCourses"}
  BY Places
<1>2. QED
  BY <1>1 DEF Knows, Waits, Statuses

LEMMA KnowsNewCategory ==
  ASSUME NEW x, Planned(x.op, x.steps), x.steps # <<>>, x.op = "newCategory",
         x.base \in {"general", "office"}
  PROVE  Knows(x)
<1>1. Head(x.steps) \notin {"insert", "saveVideo", "moveCourses"}
  BY Places
<1>2. QED
  BY <1>1 DEF Knows, Waits, Statuses

LEMMA KnowsEdited ==
  ASSUME NEW x, Planned(x.op, x.steps), x.steps # <<>>, x.op = "editCategory",
         Waits(x, "categorySlug") => x.base \in {"general", "office"},
         x.row \in CategoryRows, x.row.isDefault <=> x.id = General,
         x.id = General => x.row.slug = GeneralSlug /\ Waits(x, "saveCategory")
  PROVE  Knows(x)
<1>1. Head(x.steps) \notin {"insert", "saveVideo", "moveCourses"}
  BY Places
<1>2. QED
  BY <1>1 DEF Knows, Waits, Statuses

LEMMA KnowsDropped ==
  ASSUME NEW x, Planned(x.op, x.steps), x.steps # <<>>, x.op = "dropCategory",
         Waits(x, "readCategory") \/ x.id # General,
         Waits(x, "moveCourses") => x.category \in Categories
  PROVE  Knows(x)
<1>1. Head(x.steps) \notin {"insert", "saveVideo", "categorySlug"}
  BY Places
<1>2. QED
  BY <1>1 DEF Knows, Waits, Statuses

\* What the tables, and the catalogue as a whole, keep.
Sells(x) ==
  x.op = "remove" /\ x.sold =>
    \/ (Waits(x, "read") \/ Waits(x, "enrollments")) /\ Sold(x.id)
    \/ Waits(x, "payments") /\ x.id \in paid

Tables ==
  /\ course \in [Courses -> CourseRows \cup {None}]
  /\ video \in [Videos -> Courses \cup {None}]
  /\ category \in [Categories -> CategoryRows \cup {None}]
  /\ enrolled \subseteq Courses /\ paid \subseteq Courses
  /\ taken \subseteq Courses \cup Videos \cup Categories
  /\ seeded \in 0 .. Len(Seeds)
  /\ accepted \in 0 .. MaxRequests

Catalogue == Tables /\ General \in taken /\ NothingDangles /\ GeneralIsTheDefault

Sound ==
  /\ Catalogue
  /\ req = [r \in Requests |-> req[r]]
  /\ \A r \in Requests : Fits(req[r]) /\ Sells(req[r])

LEMMA FitsFinish ==
  ASSUME Sound, NEW r \in Requests, Finish(r)
  PROVE  \A q \in Requests : Fits(req'[q]) /\ req' = [p \in Requests |-> req'[p]]
  BY NoRequestFits DEF Sound, Finish, Become

LEMMA FitsBecome ==
  ASSUME Sound, NEW r \in Requests, NEW x, Fits(x), Become(r, x)
  PROVE  /\ \A q \in Requests : Fits(req'[q])
         /\ req' = [p \in Requests |-> req'[p]]
         /\ req'[r] = x /\ \A q \in Requests \ {r} : req'[q] = req[q]
  BY DEF Sound, Become

\* What the statement of a handler leaves of its request.
Leaves(r) == \E x : Fits(x) /\ Become(r, x) /\ Sells(x)'

LEMMA FinishLeaves ==
  ASSUME NEW r \in Requests, Finish(r)
  PROVE  Leaves(r)
<1>1. Sells(NoRequest)'
  BY DEF Sells, NoRequest
<1>2. QED
  BY <1>1, NoRequestFits DEF Leaves, Finish

\* x is y with the first of w's statements done.
Moves(w, y, x) ==
  /\ x \in RequestWith(x.op, x.steps) /\ Asks(x) /\ Planned(x.op, x.steps)
  /\ x.steps # <<>> /\ x.steps = Tail(w.steps)
  /\ x.op = w.op /\ x.base = w.base /\ x.id = w.id
  /\ x.row = y.row /\ x.category = y.category /\ x.sold = w.sold

LEMMA ContinueMoves ==
  ASSUME NEW r \in Requests, Fits(req[r]), req[r].steps # <<>>,
         Head(req[r].steps) \notin LastSteps,
         NEW y, y \in RequestWith(req[r].op, req[r].steps),
         y.base = req[r].base, y.id = req[r].id, y.sold = req[r].sold, Continue(r, y)
  PROVE  \E x : Become(r, x) /\ Moves(req[r], y, x)
<1>1. PICK w : w = req[r]
  OBVIOUS
<1>2. PICK x : x = [y EXCEPT !.steps = Tail(@)]
  OBVIOUS
<1>3. y \in RequestWith(w.op, w.steps) /\ y.base = w.base /\ y.id = w.id /\ y.sold = w.sold
  BY <1>1
<1>4. /\ x \in RequestWith(x.op, x.steps) /\ x.steps = Tail(w.steps)
      /\ x.op = w.op /\ x.base = w.base /\ x.id = w.id
      /\ x.row = y.row /\ x.category = y.category /\ x.sold = w.sold
  BY <1>2, <1>3 DEF RequestWith
<1>5. Planned(x.op, x.steps) /\ x.steps # <<>>
  BY <1>1, <1>4, Onward DEF Fits
<1>6. Asks(x)
  BY <1>1, <1>4, RenamesLate DEF Fits, Asks
<1>7. Become(r, x)
  BY <1>2 DEF Continue
<1>8. QED
  BY <1>1, <1>4, <1>5, <1>6, <1>7 DEF Moves

LEMMA ReadCourseLeaves ==
  ASSUME Sound, NEW r \in Requests, ReadCourse(r)
  PROVE  Leaves(r)
<1>1. CASE Finish(r)
  BY <1>1, FinishLeaves
<1>2. CASE course[Id(r)] # None /\ ~Finish(r)
  <2>1. Fits(req[r]) /\ req[r].steps # <<>> /\ Head(req[r].steps) = "read"
    BY DEF Sound, ReadCourse, At
  <2>2. course[Id(r)] \in CourseRows
    BY <1>2, <2>1, Places DEF Sound, Catalogue, Tables, Fits, Asks, Id
  <2>3. PICK row \in CourseRows : Continue(r, [req[r] EXCEPT !.row = row])
    BY <1>2, <2>2 DEF ReadCourse, CourseRows
  <2>4. PICK y : y = [req[r] EXCEPT !.row = row]
    OBVIOUS
  <2>5. /\ y \in RequestWith(req[r].op, req[r].steps) /\ y.base = req[r].base
        /\ y.id = req[r].id /\ y.row = row /\ y.sold = req[r].sold
    BY <2>1, <2>4 DEF Fits, RequestWith
  <2>6. PICK x : Become(r, x) /\ Moves(req[r], y, x)
    BY <2>1, <2>3, <2>4, <2>5, ContinueMoves DEF LastSteps
  <2>7. x.op \in {"update", "remove", "addVideo"} \cup Statuses /\ x.row \in CourseRows
    BY <2>1, <2>5, <2>6, Places DEF Fits, Moves
  <2>8. Knows(x)
    BY <2>6, <2>7, KnowsCourse, KnowsNothing DEF Moves
  <2>9. Sells(x)'
    <3>1. SUFFICES ASSUME x.op = "remove", x.sold
                   PROVE  Waits(x, "enrollments") /\ Sold(x.id)'
      BY DEF Sells
    <3>2. Sold(req[r].id)
      BY <2>1, <2>6, <3>1 DEF Sound, Sells, Waits, Moves, Sold
    <3>3. Waits(x, "enrollments")
      BY <2>1, <2>6, <3>1, Places DEF Fits, Waits, Moves
    <3>4. QED
      BY <2>6, <3>2, <3>3 DEF Sold, ReadCourse, OnlyReads, rows, Moves
  <2>10. QED
    BY <2>6, <2>8, <2>9 DEF Fits, Leaves, Moves
<1>3. QED
  BY <1>1, <1>2 DEF ReadCourse

LEMMA ReadCategoryOfCourseLeaves ==
  ASSUME Sound, NEW r \in Requests, ReadCategoryOfCourse(r)
  PROVE  Leaves(r)
<1>1. CASE Finish(r)
  BY <1>1, FinishLeaves
<1>2. CASE ~Finish(r)
  <2>1. /\ Fits(req[r]) /\ req[r].steps # <<>> /\ Head(req[r].steps) = "category"
        /\ req[r].op \in {"create", "update"}
    BY Places DEF Sound, ReadCategoryOfCourse, At, Fits
  <2>2. PICK k \in Categories : Continue(r, [req[r] EXCEPT !.row =
          IF req[r].op = "create" THEN NewCourse(r, k) ELSE [Image(r) EXCEPT !.category = k]])
    BY <1>2 DEF ReadCategoryOfCourse
  <2>3. ASSUME req[r].op = "create" PROVE NewCourse(r, k) \in CourseRows
    BY <2>1, <2>3 DEF Fits, Asks, RequestWith, NewCourse, CourseRows, CourseSlugs, SlugsOf, Statuses
  <2>4. ASSUME req[r].op = "update" PROVE [Image(r) EXCEPT !.category = k] \in CourseRows
    <3>1. req[r].row \in CourseRows
      BY <2>1, <2>4 DEF Fits, Knows, Waits
    <3>2. QED
      BY <3>1 DEF Image, CourseRows
  <2>5. PICK row \in CourseRows : Continue(r, [req[r] EXCEPT !.row = row])
    BY <2>1, <2>2, <2>3, <2>4
  <2>6. PICK y : y = [req[r] EXCEPT !.row = row]
    OBVIOUS
  <2>7. /\ y \in RequestWith(req[r].op, req[r].steps) /\ y.base = req[r].base
        /\ y.id = req[r].id /\ y.row = row /\ y.sold = req[r].sold
    BY <2>1, <2>6 DEF Fits, RequestWith
  <2>8. PICK x : Become(r, x) /\ Moves(req[r], y, x)
    BY <2>1, <2>5, <2>6, <2>7, ContinueMoves DEF LastSteps
  <2>9. Knows(x)
    BY <2>1, <2>7, <2>8, KnowsCourse DEF Moves
  <2>10. Sells(x)'
    BY <2>1, <2>8 DEF Sells, Moves
  <2>11. QED
    BY <2>8, <2>9, <2>10 DEF Fits, Leaves, Moves
<1>3. QED
  BY <1>1, <1>2

\* A search for a slug goes on with the next candidate or ends with a free one.
LEMMA Tries ==
  ASSUME NEW r \in Requests, NEW table, NEW ids, NEW named \in BOOLEAN, TrySlug(r, table, ids, named),
         req[r] \in RequestWith(req[r].op, req[r].steps)
  PROVE  \/ \E n \in 1 .. MaxSuffix : Become(r, [req[r] EXCEPT !.n = n])
         \/ Continue(r, IF named THEN [req[r] EXCEPT !.row.slug = <<req[r].base, req[r].n>>]
                        ELSE req[r])
<1>1. req[r].n + 1 <= MaxSuffix => NextCandidate(req[r].n) \in 1 .. MaxSuffix
  BY Sizes DEF RequestWith, NextCandidate
<1>2. [req[r] EXCEPT !.n = NextCandidate(@)] = [req[r] EXCEPT !.n = NextCandidate(req[r].n)]
  OBVIOUS
<1>3. QED
  BY <1>1, <1>2 DEF TrySlug, NextCandidate

\* The number of the candidate is nothing a request relies on.
LEMMA RetryLeaves ==
  ASSUME Sound, NEW r \in Requests, req[r].op # "remove",
         NEW n \in 1 .. MaxSuffix, Become(r, [req[r] EXCEPT !.n = n])
  PROVE  Leaves(r)
<1>1. PICK w : w = req[r]
  OBVIOUS
<1>2. PICK x : x = [w EXCEPT !.n = n]
  OBVIOUS
<1>3. Fits(w)
  BY <1>1 DEF Sound
<1>4. /\ x \in RequestWith(x.op, x.steps) /\ x.op = w.op /\ x.steps = w.steps
      /\ x.id = w.id /\ x.row = w.row /\ x.category = w.category /\ x.base = w.base
  BY <1>2, <1>3 DEF Fits, RequestWith
<1>5. Planned(x.op, x.steps)
  BY <1>3, <1>4 DEF Fits
<1>6. Asks(x)
  BY <1>3, <1>4 DEF Fits, Asks
<1>7. Knows(x)
  BY <1>3, <1>4 DEF Fits, Knows, Waits
<1>8. Sells(x)'
  BY <1>1, <1>4 DEF Sells
<1>9. QED
  BY <1>1, <1>2, <1>4, <1>5, <1>6, <1>7, <1>8 DEF Fits, Leaves

LEMMA ResolveSlugLeaves ==
  ASSUME Sound, NEW r \in Requests, ResolveSlug(r)
  PROVE  Leaves(r)
<1>1. /\ Fits(req[r]) /\ req[r].steps # <<>> /\ Head(req[r].steps) = "slug"
      /\ req[r].op \in {"create", "update"}
  BY Places DEF Sound, ResolveSlug, At, Fits
<1>2. \/ \E n \in 1 .. MaxSuffix : Become(r, [req[r] EXCEPT !.n = n])
      \/ Continue(r, IF req[r].op = "update"
                     THEN [req[r] EXCEPT !.row.slug = <<req[r].base, req[r].n>>] ELSE req[r])
  BY <1>1, Tries DEF ResolveSlug, Fits
<1>3. CASE \E n \in 1 .. MaxSuffix : Become(r, [req[r] EXCEPT !.n = n])
  BY <1>1, <1>3, RetryLeaves
<1>4. CASE req[r].op = "create" /\ Continue(r, req[r])
  <2>1. req[r] \in RequestWith(req[r].op, req[r].steps)
    BY <1>1 DEF Fits
  <2>2. PICK x : Become(r, x) /\ Moves(req[r], req[r], x)
    BY <1>1, <1>4, <2>1, ContinueMoves DEF LastSteps
  <2>3. x.op = "create" /\ Head(x.steps) = "category"
    BY <1>1, <1>4, <2>2, Places DEF Fits, Moves
  <2>4. Knows(x) /\ Sells(x)'
    BY <2>3 DEF Knows, Waits, Sells, Statuses
  <2>5. QED
    BY <2>2, <2>4 DEF Fits, Leaves, Moves
<1>5. CASE /\ req[r].op = "update"
           /\ Continue(r, [req[r] EXCEPT !.row.slug = <<req[r].base, req[r].n>>])
  <2>1. req[r].row \in CourseRows /\ req[r].steps \in Renaming
    BY <1>1, <1>5, RenamesLate DEF Fits, Knows, Waits
  <2>2. req[r].base = "title" /\ req[r].n \in 1 .. MaxSuffix
    BY <1>1, <1>5, <2>1 DEF Fits, Asks, RequestWith
  <2>3. PICK y : y = [req[r] EXCEPT !.row.slug = <<req[r].base, req[r].n>>]
    OBVIOUS
  <2>4. PICK row : row = [req[r].row EXCEPT !.slug = <<"title", req[r].n>>]
    OBVIOUS
  <2>5. row \in CourseRows
    BY <2>1, <2>2, <2>4 DEF CourseRows, CourseSlugs, SlugsOf
  <2>6. y = [req[r] EXCEPT !.row = row]
    BY <1>1, <2>2, <2>3, <2>4 DEF Fits, RequestWith
  <2>7. /\ y \in RequestWith(req[r].op, req[r].steps) /\ y.base = req[r].base
        /\ y.id = req[r].id /\ y.row = row /\ y.sold = req[r].sold
    BY <1>1, <2>5, <2>6 DEF Fits, RequestWith
  <2>8. PICK x : Become(r, x) /\ Moves(req[r], y, x)
    BY <1>1, <1>5, <2>3, <2>7, ContinueMoves DEF LastSteps
  <2>9. Knows(x)
    BY <1>1, <2>5, <2>7, <2>8, KnowsCourse DEF Moves
  <2>10. Sells(x)'
    BY <1>1, <2>8 DEF Sells, Moves
  <2>11. QED
    BY <2>8, <2>9, <2>10 DEF Fits, Leaves, Moves
<1>6. QED
  BY <1>1, <1>2, <1>3, <1>4, <1>5

LEMMA ResolveCategorySlugLeaves ==
  ASSUME Sound, NEW r \in Requests, ResolveCategorySlug(r)
  PROVE  Leaves(r)
<1>1. /\ Fits(req[r]) /\ req[r].steps # <<>> /\ Head(req[r].steps) = "categorySlug"
      /\ req[r].op \in {"newCategory", "editCategory"}
  BY Places DEF Sound, ResolveCategorySlug, At, Fits
<1>2. \/ \E n \in 1 .. MaxSuffix : Become(r, [req[r] EXCEPT !.n = n])
      \/ Continue(r, IF req[r].op = "editCategory"
                     THEN [req[r] EXCEPT !.row.slug = <<req[r].base, req[r].n>>] ELSE req[r])
  BY <1>1, Tries DEF ResolveCategorySlug, Fits
<1>3. CASE \E n \in 1 .. MaxSuffix : Become(r, [req[r] EXCEPT !.n = n])
  BY <1>1, <1>3, RetryLeaves
<1>4. CASE req[r].op = "newCategory" /\ Continue(r, req[r])
  <2>1. req[r] \in RequestWith(req[r].op, req[r].steps)
    BY <1>1 DEF Fits
  <2>2. PICK x : Become(r, x) /\ Moves(req[r], req[r], x)
    BY <1>1, <1>4, <2>1, ContinueMoves DEF LastSteps
  <2>3. x.op = "newCategory" /\ x.base \in {"general", "office"}
    BY <1>4, <2>2 DEF Moves, Asks
  <2>4. Knows(x) /\ Sells(x)'
    BY <2>2, <2>3, KnowsNewCategory DEF Sells, Moves
  <2>5. QED
    BY <2>2, <2>4 DEF Fits, Leaves, Moves
<1>5. CASE /\ req[r].op = "editCategory"
           /\ Continue(r, [req[r] EXCEPT !.row.slug = <<req[r].base, req[r].n>>])
  <2>1. /\ req[r].row \in CategoryRows /\ req[r].base \in {"general", "office"}
        /\ req[r].row.isDefault <=> req[r].id = General
        /\ req[r].id # General /\ req[r].n \in 1 .. MaxSuffix
    BY <1>1, <1>5 DEF Fits, Knows, Waits, RequestWith
  <2>2. PICK y : y = [req[r] EXCEPT !.row.slug = <<req[r].base, req[r].n>>]
    OBVIOUS
  <2>3. PICK row : row = [req[r].row EXCEPT !.slug = <<req[r].base, req[r].n>>]
    OBVIOUS
  <2>4. row \in CategoryRows /\ row.isDefault = req[r].row.isDefault
    BY <2>1, <2>3 DEF CategoryRows, CategorySlugs, SlugsOf
  <2>5. y = [req[r] EXCEPT !.row = row]
    BY <1>1, <2>2, <2>3 DEF Fits, RequestWith
  <2>6. /\ y \in RequestWith(req[r].op, req[r].steps) /\ y.base = req[r].base
        /\ y.id = req[r].id /\ y.row = row /\ y.sold = req[r].sold
    BY <1>1, <2>4, <2>5 DEF Fits, RequestWith
  <2>7. PICK x : Become(r, x) /\ Moves(req[r], y, x)
    BY <1>1, <1>5, <2>2, <2>6, ContinueMoves DEF LastSteps
  <2>8. Knows(x)
    BY <1>5, <2>1, <2>4, <2>6, <2>7, KnowsEdited DEF Moves
  <2>9. Sells(x)'
    BY <1>5, <2>7 DEF Sells, Moves
  <2>10. QED
    BY <2>7, <2>8, <2>9 DEF Fits, Leaves, Moves
<1>6. QED
  BY <1>1, <1>2, <1>3, <1>4, <1>5

LEMMA CountSalesLeaves ==
  ASSUME Sound, NEW r \in Requests, CountSales(r)
  PROVE  Leaves(r)
<1>1. CASE Finish(r)
  BY <1>1, FinishLeaves
<1>2. CASE ~Finish(r)
  <2>1. /\ Fits(req[r]) /\ req[r].steps # <<>> /\ Sells(req[r])
        /\ Head(req[r].steps) \in {"enrollments", "payments"} /\ req[r].op = "remove"
    BY Places DEF Sound, CountSales, At, Fits
  <2>2. req[r] \in RequestWith(req[r].op, req[r].steps) /\ Continue(r, req[r])
    BY <1>2, <2>1 DEF Fits, CountSales
  <2>3. PICK x : Become(r, x) /\ Moves(req[r], req[r], x)
    BY <2>1, <2>2, ContinueMoves DEF LastSteps
  <2>4. Knows(x)
    BY <2>1, <2>3, KnowsNothing DEF Moves
  <2>5. CASE Head(req[r].steps) = "enrollments"
    <3>1. req[r].id \notin enrolled
      BY <1>2, <2>5 DEF CountSales, At, Counted, Id
    <3>2. Waits(x, "payments")
      BY <2>1, <2>3, <2>5, Places DEF Fits, Waits, Moves
    <3>3. req[r].sold => req[r].id \in paid
      BY <2>1, <2>5, <3>1 DEF Sells, Waits, Sold
    <3>4. Sells(x)'
      BY <2>3, <3>2, <3>3 DEF Sells, Moves, CountSales, OnlyReads, rows
    <3>5. QED
      BY <2>3, <2>4, <3>4 DEF Fits, Leaves, Moves
  <2>6. CASE Head(req[r].steps) = "payments"
    <3>1. req[r].id \notin paid
      BY <1>2, <2>6 DEF CountSales, At, Counted, Id
    <3>2. ~req[r].sold
      BY <2>1, <2>6, <3>1 DEF Sells, Waits
    <3>3. Sells(x)'
      BY <2>3, <3>2 DEF Sells, Moves
    <3>4. QED
      BY <2>3, <2>4, <3>3 DEF Fits, Leaves, Moves
  <2>7. QED
    BY <2>1, <2>5, <2>6
<1>3. QED
  BY <1>1, <1>2

LEMMA DropVideosLeaves ==
  ASSUME Sound, NEW r \in Requests, DropVideos(r)
  PROVE  Leaves(r)
<1>1. /\ Fits(req[r]) /\ req[r].steps # <<>> /\ Sells(req[r])
      /\ Head(req[r].steps) = "videos" /\ req[r].op = "remove"
  BY Places DEF Sound, DropVideos, At, Fits
<1>2. req[r] \in RequestWith(req[r].op, req[r].steps) /\ Continue(r, req[r])
  BY <1>1 DEF Fits, DropVideos
<1>3. PICK x : Become(r, x) /\ Moves(req[r], req[r], x)
  BY <1>1, <1>2, ContinueMoves DEF LastSteps
<1>4. Knows(x)
  BY <1>1, <1>3, KnowsNothing DEF Moves
<1>5. Sells(x)'
  BY <1>1, <1>3 DEF Sells, Waits, Moves
<1>6. QED
  BY <1>3, <1>4, <1>5 DEF Fits, Leaves, Moves

LEMMA ReadPublishedLeaves ==
  ASSUME Sound, NEW r \in Requests, ReadPublished(r)
  PROVE  Leaves(r)
<1>1. CASE Finish(r)
  BY <1>1, FinishLeaves
<1>2. CASE Continue(r, req[r])
  <2>1. /\ Fits(req[r]) /\ req[r].steps # <<>> /\ req[r].op = "buy"
        /\ Head(req[r].steps) = "published"
    BY Places DEF Sound, ReadPublished, At, Fits
  <2>2. req[r] \in RequestWith(req[r].op, req[r].steps)
    BY <2>1 DEF Fits
  <2>3. PICK x : Become(r, x) /\ Moves(req[r], req[r], x)
    BY <1>2, <2>1, <2>2, ContinueMoves DEF LastSteps
  <2>4. Knows(x) /\ Sells(x)'
    BY <2>1, <2>3, KnowsNothing DEF Moves, Sells
  <2>5. QED
    BY <2>3, <2>4 DEF Fits, Leaves, Moves
<1>3. QED
  BY <1>1, <1>2 DEF ReadPublished

LEMMA ReadVideoLeaves ==
  ASSUME Sound, NEW r \in Requests, ReadVideo(r)
  PROVE  Leaves(r)
<1>1. CASE Finish(r)
  BY <1>1, FinishLeaves
<1>2. CASE ~Finish(r)
  <2>1. /\ Fits(req[r]) /\ req[r].steps # <<>> /\ Head(req[r].steps) = "readVideo"
        /\ req[r].op \in {"editVideo", "dropVideo"}
    BY Places DEF Sound, ReadVideo, At, Fits
  <2>2. req[r].id \in Videos
    BY <2>1 DEF Fits, Asks
  <2>3. video[req[r].id] \in Courses
    BY <1>2, <2>2 DEF ReadVideo, Id, Sound, Catalogue, Tables
  <2>4. PICK row \in Courses : Continue(r, [req[r] EXCEPT !.row = row])
    BY <1>2, <2>3 DEF ReadVideo, Id
  <2>5. PICK y : y = [req[r] EXCEPT !.row = row]
    OBVIOUS
  <2>6. /\ y \in RequestWith(req[r].op, req[r].steps) /\ y.base = req[r].base
        /\ y.id = req[r].id /\ y.row = row /\ y.sold = req[r].sold
    BY <2>1, <2>5 DEF Fits, RequestWith
  <2>7. PICK x : Become(r, x) /\ Moves(req[r], y, x)
    BY <2>1, <2>4, <2>5, <2>6, ContinueMoves DEF LastSteps
  <2>8. Knows(x) /\ Sells(x)'
    BY <2>1, <2>6, <2>7, KnowsVideo, KnowsNothing DEF Moves, Sells
  <2>9. QED
    BY <2>7, <2>8 DEF Fits, Leaves, Moves
<1>3. QED
  BY <1>1, <1>2

\* An edit that keeps the slug skips the search for one.
LEMMA KeepingLeaves ==
  ASSUME Sound, NEW r \in Requests, req[r].op = "editCategory",
         req[r].steps = <<"readCategory", "categorySlug", "saveCategory">>,
         NEW row \in CategoryRows, row.isDefault <=> req[r].id = General,
         req[r].id = General => row.slug = GeneralSlug,
         Continue(r, [[req[r] EXCEPT !.row = row] EXCEPT !.steps = Tail(@)])
  PROVE  Leaves(r)
<1>1. PICK w : w = req[r]
  OBVIOUS
<1>2. Fits(w)
  BY <1>1 DEF Sound
<1>3. PICK z : z = [w EXCEPT !.row = row]
  OBVIOUS
<1>4. PICK y : y = [z EXCEPT !.steps = Tail(@)]
  OBVIOUS
<1>5. PICK x : x = [y EXCEPT !.steps = Tail(@)]
  OBVIOUS
<1>6. z \in RequestWith(w.op, w.steps) /\ z.row = row /\ z.id = w.id /\ z.base = w.base
  BY <1>2, <1>3 DEF Fits, RequestWith
<1>7. /\ y \in RequestWith(w.op, Tail(w.steps)) /\ y.row = row /\ y.id = w.id /\ y.base = w.base
      /\ y.op = w.op /\ y.steps = Tail(w.steps)
  BY <1>4, <1>6 DEF RequestWith
<1>8. /\ x \in RequestWith(w.op, Tail(Tail(w.steps))) /\ x.row = row /\ x.id = w.id
      /\ x.base = w.base /\ x.op = w.op /\ x.steps = Tail(Tail(w.steps))
  BY <1>5, <1>7 DEF RequestWith
<1>9. x.steps = <<"saveCategory">> /\ x.op = "editCategory"
  BY <1>1, <1>8, Tails
<1>10. Planned(x.op, x.steps) /\ x.steps # <<>> /\ Waits(x, "saveCategory")
  BY <1>9 DEF Planned, Waits
<1>11. Asks(x)
  BY <1>1, <1>2, <1>8 DEF Fits, Asks, Statuses
<1>12. Knows(x)
  BY <1>1, <1>8, <1>9, <1>10, KnowsEdited DEF Waits
<1>13. Become(r, x)
  BY <1>1, <1>3, <1>4, <1>5 DEF Continue
<1>14. Sells(x)'
  BY <1>9 DEF Sells
<1>15. QED
  BY <1>8, <1>10, <1>11, <1>12, <1>13, <1>14 DEF Fits, Leaves

LEMMA ReadCategoryLeaves ==
  ASSUME Sound, NEW r \in Requests, ReadCategory(r)
  PROVE  Leaves(r)
<1>1. CASE Finish(r)
  BY <1>1, FinishLeaves
<1>2. CASE ~Finish(r)
  <2>1. /\ Fits(req[r]) /\ req[r].steps # <<>> /\ Head(req[r].steps) = "readCategory"
        /\ req[r].op \in {"editCategory", "dropCategory"}
    BY Places DEF Sound, ReadCategory, At, Fits
  <2>2. req[r].id \in Categories
    BY <2>1 DEF Fits, Asks
  <2>3. category[req[r].id] # None /\ ~Refuses(r, category[req[r].id])
    BY <1>2 DEF ReadCategory, Id
  <2>4. PICK row : row = category[req[r].id]
    OBVIOUS
  <2>5. /\ row \in CategoryRows
        /\ row.isDefault <=> req[r].id = General
        /\ row.slug = GeneralSlug <=> req[r].id = General
    BY <2>2, <2>3, <2>4 DEF Sound, Catalogue, Tables, GeneralIsTheDefault
  <2>6. CASE /\ req[r].op = "editCategory" /\ (req[r].base = None \/ <<req[r].base, 1>> = row.slug)
    <3>1. req[r].steps = <<"readCategory", "categorySlug", "saveCategory">>
      BY <2>1, <2>6 DEF Fits, Planned, Statuses
    <3>2. Continue(r, [[req[r] EXCEPT !.row = row] EXCEPT !.steps = Tail(@)])
      BY <1>2, <2>4, <2>6 DEF ReadCategory, Id
    <3>3. QED
      BY <2>5, <2>6, <3>1, <3>2, KeepingLeaves
  <2>7. CASE ~(/\ req[r].op = "editCategory"
               /\ (req[r].base = None \/ <<req[r].base, 1>> = row.slug))
    <3>1. Continue(r, [req[r] EXCEPT !.row = row])
      BY <1>2, <2>4, <2>7 DEF ReadCategory, Id
    <3>2. PICK y : y = [req[r] EXCEPT !.row = row]
      OBVIOUS
    <3>3. /\ y \in RequestWith(req[r].op, req[r].steps) /\ y.base = req[r].base
          /\ y.id = req[r].id /\ y.row = row /\ y.sold = req[r].sold
      BY <2>1, <2>5, <3>2 DEF Fits, RequestWith
    <3>4. PICK x : Become(r, x) /\ Moves(req[r], y, x)
      BY <2>1, <3>1, <3>2, <3>3, ContinueMoves DEF LastSteps
    <3>5. CASE req[r].op = "editCategory"
      <4>1. req[r].base \in {"general", "office"}
        BY <2>1, <2>7, <3>5 DEF Fits, Asks
      <4>2. req[r].id # General
        BY <2>3, <2>4, <2>5, <2>7, <3>5, <4>1 DEF Refuses, GeneralSlug
      <4>3. Knows(x)
        BY <2>5, <3>3, <3>4, <3>5, <4>1, <4>2, KnowsEdited DEF Moves
      <4>4. QED
        BY <3>4, <3>5, <4>3 DEF Fits, Leaves, Moves, Sells
    <3>6. CASE req[r].op = "dropCategory"
      <4>1. req[r].id # General
        BY <2>3, <2>4, <2>5, <3>6 DEF Refuses
      <4>2. ~Waits(x, "moveCourses")
        BY <2>1, <3>4, <3>6, Places DEF Fits, Moves, Waits
      <4>3. Knows(x)
        BY <3>4, <3>6, <4>1, <4>2, KnowsDropped DEF Moves
      <4>4. QED
        BY <3>4, <3>6, <4>3 DEF Fits, Leaves, Moves, Sells
    <3>7. QED
      BY <2>1, <3>5, <3>6
  <2>8. QED
    BY <2>6, <2>7
<1>3. QED
  BY <1>1, <1>2

LEMMA ReadGeneralLeaves ==
  ASSUME Sound, NEW r \in Requests, ReadGeneral(r)
  PROVE  Leaves(r)
<1>1. CASE Finish(r)
  BY <1>1, FinishLeaves
<1>2. CASE ~Finish(r)
  <2>1. /\ Fits(req[r]) /\ req[r].steps # <<>> /\ Head(req[r].steps) = "general"
        /\ req[r].op = "dropCategory"
    BY Places DEF Sound, ReadGeneral, At, Fits
  <2>2. PICK k \in Categories : Continue(r, [req[r] EXCEPT !.category = k])
    BY <1>2 DEF ReadGeneral
  <2>3. PICK y : y = [req[r] EXCEPT !.category = k]
    OBVIOUS
  <2>4. /\ y \in RequestWith(req[r].op, req[r].steps) /\ y.base = req[r].base
        /\ y.id = req[r].id /\ y.category = k /\ y.sold = req[r].sold
    BY <2>1, <2>3 DEF Fits, RequestWith
  <2>5. PICK x : Become(r, x) /\ Moves(req[r], y, x)
    BY <2>1, <2>2, <2>3, <2>4, ContinueMoves DEF LastSteps
  <2>6. req[r].id # General
    BY <2>1 DEF Fits, Knows, Waits
  <2>7. Knows(x)
    BY <2>1, <2>4, <2>5, <2>6, KnowsDropped DEF Moves
  <2>8. QED
    BY <2>1, <2>5, <2>7 DEF Fits, Leaves, Moves, Sells
<1>3. QED
  BY <1>1, <1>2

LEMMA MoveCoursesLeaves ==
  ASSUME Sound, NEW r \in Requests, MoveCourses(r)
  PROVE  Leaves(r)
<1>1. CASE Finish(r)
  BY <1>1, FinishLeaves
<1>2. CASE Continue(r, req[r])
  <2>1. /\ Fits(req[r]) /\ req[r].steps # <<>> /\ Head(req[r].steps) = "moveCourses"
        /\ req[r].op = "dropCategory"
    BY Places DEF Sound, MoveCourses, At, Fits
  <2>2. req[r] \in RequestWith(req[r].op, req[r].steps)
    BY <2>1 DEF Fits
  <2>3. PICK x : Become(r, x) /\ Moves(req[r], req[r], x)
    BY <1>2, <2>1, <2>2, ContinueMoves DEF LastSteps
  <2>4. req[r].id # General
    BY <2>1 DEF Fits, Knows, Waits
  <2>5. ~Waits(x, "moveCourses")
    BY <2>1, <2>3, Places DEF Fits, Moves, Waits
  <2>6. Knows(x)
    BY <2>1, <2>3, <2>4, <2>5, KnowsDropped DEF Moves
  <2>7. QED
    BY <2>1, <2>3, <2>6 DEF Fits, Leaves, Moves, Sells
<1>3. QED
  BY <1>1, <1>2 DEF MoveCourses

\* What a request may come with.
Comes(op, id, cat, base) ==
  \/ op = "create" /\ id = None /\ cat \in Categories \cup {None} /\ base = "title"
  \/ op = "update" /\ id \in Courses /\ cat \in Categories \cup {None} /\ base \in {"title", None}
  \/ op \in Statuses \cup {"remove", "buy", "addVideo"} /\ id \in Courses /\ cat = None /\ base = None
  \/ op \in {"editVideo", "dropVideo"} /\ id \in Videos /\ cat = None /\ base = None
  \/ op = "newCategory" /\ id = None /\ cat = None /\ base \in {"general", "office"}
  \/ op = "editCategory" /\ id \in Categories /\ cat = None /\ base \in {"general", "office", None}
  \/ op = "dropCategory" /\ id \in Categories /\ cat = None /\ base = None

\* Every request starts at the beginning of its plan.
LEMMA Starts ==
  ASSUME NEW op, NEW id, NEW cat, NEW base, Comes(op, id, cat, base),
         NEW steps, steps = Program(op, cat, base)
  PROVE  /\ Planned(op, steps) /\ steps # <<>>
         /\ op = "create" => Head(steps) = "slug"
         /\ op \in {"update", "remove", "addVideo"} \cup Statuses => Head(steps) = "read"
         /\ op = "buy" => Head(steps) = "published"
         /\ op \in {"editVideo", "dropVideo"} => Head(steps) = "readVideo"
         /\ op = "newCategory" => Head(steps) = "categorySlug"
         /\ op \in {"editCategory", "dropCategory"} => Head(steps) = "readCategory"
         /\ op = "update" /\ steps \in Renaming => base = "title"
<1>1. CASE op = "create"
  BY <1>1 DEF Program, Planned, Statuses
<1>2. CASE op = "update"
  <2>1. base \in {"title", None}
    BY <1>2 DEF Comes, Statuses
  <2>2. CASE base = None
    <3>1. steps \in {<<"read", "save">>, <<"read", "category", "save">>}
      BY <1>2, <2>2 DEF Program, Statuses
    <3>2. \A t \in {<<"read", "save">>, <<"read", "category", "save">>} :
            Planned("update", t) /\ t # <<>> /\ Head(t) = "read" /\ t \notin Renaming
      BY DEF Planned, Renaming
    <3>3. QED
      BY <1>2, <3>1, <3>2 DEF Statuses
  <2>3. CASE base = "title" /\ base # None
    <3>1. steps \in {<<"read", "slug", "save">>, <<"read", "category", "slug", "save">>}
      BY <1>2, <2>3 DEF Program, Statuses
    <3>2. \A t \in {<<"read", "slug", "save">>, <<"read", "category", "slug", "save">>} :
            Planned("update", t) /\ t # <<>> /\ Head(t) = "read"
      BY DEF Planned, Renaming
    <3>3. QED
      BY <1>2, <2>3, <3>1, <3>2 DEF Statuses
  <2>4. QED
    BY <2>1, <2>2, <2>3
<1>3. CASE op \in Statuses
  <2>1. steps = <<"read", "save">>
    BY <1>3 DEF Program, Statuses
  <2>2. Planned(op, <<"read", "save">>)
    BY <1>3 DEF Planned
  <2>3. QED
    BY <1>3, <2>1, <2>2 DEF Statuses
<1>4. CASE op = "remove"
  BY <1>4 DEF Program, Planned, Statuses
<1>5. CASE op \in {"buy", "addVideo"}
  <2>1. CASE op = "buy"
    <3>1. steps = <<"published", "sell">>
      BY <2>1 DEF Program, Statuses
    <3>2. QED
      BY <2>1, <3>1 DEF Planned, Statuses
  <2>2. CASE op = "addVideo"
    <3>1. steps = <<"read", "insertVideo">>
      BY <2>2 DEF Program, Statuses
    <3>2. QED
      BY <2>2, <3>1 DEF Planned, Statuses
  <2>3. QED
    BY <1>5, <2>1, <2>2
<1>6. CASE op \in {"editVideo", "dropVideo"}
  <2>1. CASE op = "editVideo"
    <3>1. steps = <<"readVideo", "saveVideo">>
      BY <2>1 DEF Program, Statuses
    <3>2. QED
      BY <2>1, <3>1 DEF Planned, Statuses
  <2>2. CASE op = "dropVideo"
    <3>1. steps = <<"readVideo", "deleteVideo">>
      BY <2>2 DEF Program, Statuses
    <3>2. QED
      BY <2>2, <3>1 DEF Planned, Statuses
  <2>3. QED
    BY <1>6, <2>1, <2>2
<1>7. CASE op = "newCategory"
  <2>1. steps = <<"categorySlug", "insertCategory">>
    BY <1>7 DEF Program, Statuses
  <2>2. QED
    BY <1>7, <2>1 DEF Planned, Statuses
<1>8. CASE op = "editCategory"
  BY <1>8 DEF Program, Planned, Statuses
<1>9. CASE op = "dropCategory"
  BY <1>9 DEF Program, Planned, Statuses
<1>10. QED
  BY <1>1, <1>2, <1>3, <1>4, <1>5, <1>6, <1>7, <1>8, <1>9 DEF Comes

LEMMA AcceptLeaves ==
  ASSUME Sound, NEW r \in Requests, NEW op, NEW id, NEW cat, NEW base,
         Comes(op, id, cat, base), Accept(r, op, id, cat, base)
  PROVE  Leaves(r)
<1>1. PICK steps : steps = Program(op, cat, base)
  OBVIOUS
<1>2. PICK sold \in BOOLEAN : sold = (id \in Courses /\ Sold(id))
  OBVIOUS
<1>3. PICK x : x = [NoRequest EXCEPT !.op = op, !.steps = steps, !.id = id, !.category = cat,
                                     !.base = base, !.sold = sold]
  OBVIOUS
<1>4. Become(r, x)
  BY <1>1, <1>2, <1>3 DEF Accept
<1>5. /\ id \in Courses \cup Videos \cup Categories \cup {None}
      /\ cat \in Categories \cup {None}
      /\ base \in {"title", "general", "office", None}
  BY DEF Comes
<1>6. 1 \in 1 .. MaxSuffix
  BY Sizes
<1>7. /\ x \in RequestWith(x.op, x.steps) /\ x.op = op /\ x.steps = steps /\ x.id = id
      /\ x.category = cat /\ x.base = base /\ x.sold = sold
  BY <1>3, <1>5, <1>6 DEF RequestWith, NoRequest
<1>8. Planned(x.op, x.steps) /\ x.steps # <<>>
  BY <1>1, <1>7, Starts
<1>9. Asks(x)
  <2>1. op = "update" /\ steps \in Renaming => base = "title"
    BY <1>1, Starts
  <2>2. QED
    BY <1>7, <2>1 DEF Asks, Comes, Statuses
<1>10. Knows(x)
  <2>1. CASE op = "create"
    BY <1>1, <1>7, <2>1, Starts DEF Knows, Waits, Statuses
  <2>2. CASE op \in {"update"} \cup Statuses
    BY <1>1, <1>7, <2>2, Starts DEF Knows, Waits, Statuses
  <2>3. CASE op \in {"remove", "buy", "addVideo", "dropVideo"}
    BY <1>7, <1>8, <2>3, KnowsNothing
  <2>4. CASE op \in {"editVideo", "editCategory", "dropCategory"}
    BY <1>1, <1>7, <2>4, Starts DEF Knows, Waits, Statuses
  <2>5. CASE op = "newCategory"
    BY <1>7, <1>8, <1>9, <2>5, KnowsNewCategory DEF Asks
  <2>6. QED
    BY <2>1, <2>2, <2>3, <2>4, <2>5 DEF Comes
<1>11. Sells(x)'
  <2>1. SUFFICES ASSUME op = "remove", sold
                 PROVE  Waits(x, "read") /\ Sold(id)'
    BY <1>7 DEF Sells
  <2>2. Waits(x, "read")
    BY <1>1, <1>7, <2>1, Starts DEF Waits
  <2>3. QED
    BY <1>2, <2>1, <2>2 DEF Accept, Sold, rows
<1>12. QED
  BY <1>4, <1>7, <1>8, <1>9, <1>10, <1>11 DEF Fits, Leaves

LEMMA RequestLeaves ==
  ASSUME Sound, NEW r \in Requests, CourseRequest(r) \/ VideoRequest(r) \/ CategoryRequest(r)
  PROVE  /\ Leaves(r) /\ UNCHANGED <<rows, taken, seeded>>
         /\ accepted' = accepted + 1 /\ accepted < MaxRequests
<1>1. PICK op, id, cat, base : Comes(op, id, cat, base) /\ Accept(r, op, id, cat, base)
  <2>1. ASSUME NEW cat \in Categories \cup {None} PROVE Comes("create", None, cat, "title")
    BY DEF Comes
  <2>2. ASSUME NEW c \in Courses, NEW cat \in Categories \cup {None}, NEW base \in {"title", None}
        PROVE  Comes("update", c, cat, base)
    BY DEF Comes
  <2>3. ASSUME NEW c \in Courses, NEW op \in Statuses \cup {"remove", "buy", "addVideo"}
        PROVE  Comes(op, c, None, None)
    BY DEF Comes
  <2>4. ASSUME NEW v \in Videos, NEW op \in {"editVideo", "dropVideo"} PROVE Comes(op, v, None, None)
    BY DEF Comes
  <2>5. ASSUME NEW base \in {"general", "office"} PROVE Comes("newCategory", None, None, base)
    BY DEF Comes
  <2>6. ASSUME NEW k \in Categories, NEW base \in {"general", "office", None}
        PROVE  Comes("editCategory", k, None, base)
    BY DEF Comes
  <2>7. ASSUME NEW k \in Categories PROVE Comes("dropCategory", k, None, None)
    BY DEF Comes
  <2>8. CASE CourseRequest(r)
    BY <2>1, <2>2, <2>3, <2>8 DEF CourseRequest
  <2>9. CASE VideoRequest(r)
    BY <2>3, <2>4, <2>9 DEF VideoRequest
  <2>10. CASE CategoryRequest(r)
    BY <2>5, <2>6, <2>7, <2>10 DEF CategoryRequest
  <2>11. QED
    BY <2>8, <2>9, <2>10
<1>2. QED
  BY <1>1, AcceptLeaves DEF Accept

-----------------------------------------------------------------------------
(* Every step keeps the tables sound.                                      *)

\* Sales are only ever added.
LEMMA SellsStays ==
  ASSUME NEW x, Sells(x), enrolled \subseteq enrolled', paid \subseteq paid'
  PROVE  Sells(x)'
  BY DEF Sells, Sold

LEMMA LeavesAll ==
  ASSUME Sound, NEW r \in Requests, Leaves(r), enrolled \subseteq enrolled', paid \subseteq paid'
  PROVE  /\ req' = [q \in Requests |-> req'[q]]
         /\ \A q \in Requests : Fits(req'[q]) /\ Sells(req[q])'
<1>1. PICK x : Fits(x) /\ Become(r, x) /\ Sells(x)'
  BY DEF Leaves
<1>2. /\ req' = [q \in Requests |-> req'[q]]
      /\ req'[r] = x /\ \A q \in Requests \ {r} : req'[q] = req[q]
  BY <1>1, FitsBecome
<1>3. ASSUME NEW q \in Requests PROVE Fits(req'[q]) /\ Sells(req[q])'
  <2>1. CASE q = r
    BY <1>1, <1>2, <2>1 DEF Sells, Sold, Waits
  <2>2. CASE q # r
    <3>1. PICK w : w = req[q]
      OBVIOUS
    <3>2. Fits(w) /\ Sells(w)'
      BY <3>1, SellsStays DEF Sound
    <3>3. req'[q] = w
      BY <1>2, <2>2, <3>1
    <3>4. QED
      BY <3>2, <3>3 DEF Sells, Sold, Waits
  <2>3. QED
    BY <2>1, <2>2
<1>4. QED
  BY <1>2, <1>3

LEMMA NothingChanges ==
  ASSUME Catalogue, UNCHANGED <<rows, taken, seeded>>, accepted' \in 0 .. MaxRequests
  PROVE  Catalogue'
<1>1. Tables' /\ (General \in taken)'
  BY DEF Catalogue, Tables, rows
<1>2. NothingDangles' /\ GeneralIsTheDefault'
  BY DEF Catalogue, NothingDangles, GeneralIsTheDefault, Sold, rows
<1>3. QED
  BY <1>1, <1>2 DEF Catalogue

\* A course keeps its category, and goes only if no row refers to it.
LEMMA CoursesChange ==
  ASSUME Catalogue, UNCHANGED <<video, category, enrolled, paid, seeded, accepted>>,
         taken \subseteq taken', taken' \subseteq Courses \cup Videos \cup Categories,
         course' \in [Courses -> CourseRows \cup {None}],
         \A c \in Courses : course'[c] # None => category[course'[c].category] # None,
         \A c \in Courses : course[c] # None /\ course'[c] = None => ~Referred(c)
  PROVE  Catalogue'
<1>1. Tables' /\ (General \in taken)'
  BY DEF Catalogue, Tables
<1>2. NothingDangles'
  <2>1. \A c \in Courses : Sold(c)' => course'[c] # None
    BY DEF Catalogue, NothingDangles, Referred, Sold
  <2>2. \A v \in Videos : video'[v] # None => course'[video'[v]] # None
    BY DEF Catalogue, Tables, NothingDangles, Referred
  <2>3. QED
    BY <2>1, <2>2 DEF NothingDangles
<1>3. GeneralIsTheDefault'
  BY DEF Catalogue, GeneralIsTheDefault
<1>4. QED
  BY <1>1, <1>2, <1>3 DEF Catalogue

LEMMA VideosChange ==
  ASSUME Catalogue, UNCHANGED <<course, category, enrolled, paid, seeded, accepted>>,
         taken \subseteq taken', taken' \subseteq Courses \cup Videos \cup Categories,
         video' \in [Videos -> Courses \cup {None}],
         \A v \in Videos : video'[v] # None => course[video'[v]] # None
  PROVE  Catalogue'
<1>1. Tables' /\ (General \in taken)'
  BY DEF Catalogue, Tables
<1>2. NothingDangles' /\ GeneralIsTheDefault'
  BY DEF Catalogue, NothingDangles, GeneralIsTheDefault, Sold
<1>3. QED
  BY <1>1, <1>2 DEF Catalogue

LEMMA SalesChange ==
  ASSUME Catalogue, UNCHANGED <<course, video, category, taken, seeded, accepted>>,
         enrolled' \subseteq Courses, paid' \subseteq Courses,
         \A c \in enrolled' \cup paid' : course[c] # None
  PROVE  Catalogue'
<1>1. Tables' /\ (General \in taken)'
  BY DEF Catalogue, Tables
<1>2. NothingDangles' /\ GeneralIsTheDefault'
  BY DEF Catalogue, NothingDangles, GeneralIsTheDefault, Sold
<1>3. QED
  BY <1>1, <1>2 DEF Catalogue

\* The categories courses are in stay, and the General one stays the default.
LEMMA CategoriesChange ==
  ASSUME Catalogue, UNCHANGED <<course, video, enrolled, paid, accepted>>,
         seeded' \in 0 .. Len(Seeds),
         taken \subseteq taken', taken' \subseteq Courses \cup Videos \cup Categories,
         category' \in [Categories -> CategoryRows \cup {None}],
         \A c \in Courses : course[c] # None => category'[course[c].category] # None,
         GeneralIsTheDefault'
  PROVE  Catalogue'
<1>1. Tables' /\ (General \in taken)'
  BY DEF Catalogue, Tables
<1>2. NothingDangles'
  BY DEF Catalogue, NothingDangles, Sold
<1>3. QED
  BY <1>1, <1>2 DEF Catalogue

LEMMA InsertCourseKeeps ==
  ASSUME Sound, NEW r \in Requests, InsertCourse(r)
  PROVE  Catalogue'
<1>1. req[r].row \in CourseRows
  BY DEF Sound, Fits, Knows, Waits, InsertCourse, At
<1>2. CASE UNCHANGED <<course, taken>>
  BY <1>2, NothingChanges DEF Sound, Catalogue, Tables, InsertCourse, rows
<1>3. ASSUME NEW c \in Courses, course' = [course EXCEPT ![c] = req[r].row],
             taken' = taken \cup {c}, category[req[r].row.category] # None
      PROVE  Catalogue'
  <2>1. course' \in [Courses -> CourseRows \cup {None}]
    BY <1>1, <1>3 DEF Sound, Catalogue, Tables
  <2>2. \A d \in Courses : course'[d] # None => category[course'[d].category] # None
    BY <1>3 DEF Sound, Catalogue, Tables, NothingDangles
  <2>3. \A d \in Courses : course'[d] = None => course[d] = None
    BY <1>1, <1>3, CatalogAssumption DEF Sound, Catalogue, Tables
  <2>4. taken \subseteq taken' /\ taken' \subseteq Courses \cup Videos \cup Categories
    BY <1>3 DEF Sound, Catalogue, Tables
  <2>5. QED
    BY <2>1, <2>2, <2>3, <2>4, CoursesChange DEF Sound, InsertCourse
<1>4. QED
  BY <1>2, <1>3 DEF InsertCourse, CanSaveCourse, Image

LEMMA SaveCourseKeeps ==
  ASSUME Sound, NEW r \in Requests, SaveCourse(r)
  PROVE  Catalogue'
<1>1. Fits(req[r]) /\ req[r].steps # <<>> /\ Head(req[r].steps) = "save"
  BY DEF Sound, SaveCourse, At
<1>2. req[r].row \in CourseRows /\ req[r].id \in Courses
  BY <1>1, Places DEF Fits, Knows, Waits, Asks
<1>3. CASE UNCHANGED course
  BY <1>3, NothingChanges DEF Sound, Catalogue, Tables, SaveCourse, rows
<1>4. CASE /\ course' = [course EXCEPT ![req[r].id] = req[r].row]
           /\ category[req[r].row.category] # None
  <2>1. course' \in [Courses -> CourseRows \cup {None}]
    BY <1>2, <1>4 DEF Sound, Catalogue, Tables
  <2>2. \A d \in Courses : course'[d] # None => category[course'[d].category] # None
    BY <1>4 DEF Sound, Catalogue, Tables, NothingDangles
  <2>3. \A d \in Courses : course'[d] = None => course[d] = None
    BY <1>2, <1>4, CatalogAssumption DEF Sound, Catalogue, Tables
  <2>4. taken \subseteq taken' /\ taken' \subseteq Courses \cup Videos \cup Categories
    BY DEF Sound, Catalogue, Tables, SaveCourse
  <2>5. QED
    BY <2>1, <2>2, <2>3, <2>4, CoursesChange DEF Sound, SaveCourse
<1>5. QED
  BY <1>3, <1>4 DEF SaveCourse, CanSaveCourse, Image, Id

LEMMA DeleteCourseKeeps ==
  ASSUME Sound, NEW r \in Requests, DeleteCourse(r)
  PROVE  Catalogue'
<1>1. CASE UNCHANGED course
  BY <1>1, NothingChanges DEF Sound, Catalogue, Tables, DeleteCourse, rows
<1>2. CASE ~Referred(req[r].id) /\ course' = [course EXCEPT ![req[r].id] = None]
  <2>1. course' \in [Courses -> CourseRows \cup {None}]
    BY <1>2 DEF Sound, Catalogue, Tables
  <2>2. \A d \in Courses : course'[d] # None => category[course'[d].category] # None
    BY <1>2 DEF Sound, Catalogue, Tables, NothingDangles
  <2>3. \A d \in Courses : course[d] # None /\ course'[d] = None => d = req[r].id
    BY <1>2 DEF Sound, Catalogue, Tables
  <2>4. taken \subseteq taken' /\ taken' \subseteq Courses \cup Videos \cup Categories
    BY DEF Sound, Catalogue, Tables, DeleteCourse
  <2>5. \A d \in Courses : course[d] # None /\ course'[d] = None => ~Referred(d)
    BY <1>2, <2>3
  <2>6. QED
    BY <2>1, <2>2, <2>4, <2>5, CoursesChange DEF Sound, DeleteCourse
<1>3. QED
  BY <1>1, <1>2 DEF DeleteCourse, Id

LEMMA MoveCoursesKeeps ==
  ASSUME Sound, NEW r \in Requests, MoveCourses(r)
  PROVE  Catalogue'
<1>1. req[r].category \in Categories
  BY DEF Sound, Fits, Knows, Waits, MoveCourses, At
<1>2. CASE UNCHANGED course
  BY <1>2, NothingChanges DEF Sound, Catalogue, Tables, MoveCourses, CategoryHandlerUnchanged, rows
<1>3. CASE /\ category[req[r].category] # None
           /\ course' = [c \in Courses |->
                IF course[c] # None /\ course[c].category = req[r].id
                THEN [course[c] EXCEPT !.category = req[r].category] ELSE course[c]]
  <2>1. ASSUME NEW c \in Courses
        PROVE  /\ course'[c] \in CourseRows \cup {None}
               /\ course'[c] # None => category[course'[c].category] # None
               /\ course'[c] = None => course[c] = None
    <3>1. course[c] \in CourseRows \cup {None}
      BY DEF Sound, Catalogue, Tables
    <3>2. CASE course[c] # None /\ course[c].category = req[r].id
      <4>1. course'[c] = [course[c] EXCEPT !.category = req[r].category]
        BY <1>3, <3>2
      <4>2. course'[c] \in CourseRows /\ course'[c].category = req[r].category
        BY <1>1, <3>1, <3>2, <4>1 DEF CourseRows
      <4>3. QED
        BY <1>3, <4>2, CatalogAssumption
    <3>3. CASE ~(course[c] # None /\ course[c].category = req[r].id)
      <4>1. course'[c] = course[c]
        BY <1>3, <3>3
      <4>2. QED
        BY <3>1, <4>1 DEF Sound, Catalogue, NothingDangles
    <3>4. QED
      BY <3>2, <3>3
  <2>2. course' \in [Courses -> CourseRows \cup {None}]
    BY <1>3, <2>1
  <2>3. taken \subseteq taken' /\ taken' \subseteq Courses \cup Videos \cup Categories
    BY DEF Sound, Catalogue, Tables, MoveCourses
  <2>4. QED
    BY <2>1, <2>2, <2>3, CoursesChange DEF Sound, MoveCourses, CategoryHandlerUnchanged
<1>4. QED
  BY <1>2, <1>3 DEF MoveCourses, Id

LEMMA DropVideosKeeps ==
  ASSUME Sound, NEW r \in Requests, DropVideos(r)
  PROVE  Catalogue'
<1>1. video' \in [Videos -> Courses \cup {None}]
  BY DEF Sound, Catalogue, Tables, DropVideos
<1>2. \A v \in Videos : video'[v] # None => course[video'[v]] # None
  BY DEF Sound, Catalogue, NothingDangles, DropVideos
<1>3. QED
  BY <1>1, <1>2, VideosChange DEF Sound, Catalogue, Tables, DropVideos

LEMMA InsertVideoKeeps ==
  ASSUME Sound, NEW r \in Requests, InsertVideo(r)
  PROVE  Catalogue'
<1>1. Fits(req[r]) /\ req[r].steps # <<>> /\ Head(req[r].steps) = "insertVideo"
  BY DEF Sound, InsertVideo, At
<1>2. req[r].id \in Courses
  BY <1>1, Places DEF Fits, Asks
<1>3. CASE UNCHANGED <<video, taken>>
  BY <1>3, NothingChanges DEF Sound, Catalogue, Tables, InsertVideo, rows
<1>4. ASSUME course[req[r].id] # None, NEW v \in Videos,
             video' = [video EXCEPT ![v] = req[r].id], taken' = taken \cup {v}
      PROVE  Catalogue'
  <2>1. video' \in [Videos -> Courses \cup {None}]
    BY <1>2, <1>4 DEF Sound, Catalogue, Tables
  <2>2. \A w \in Videos : video'[w] # None => course[video'[w]] # None
    BY <1>4 DEF Sound, Catalogue, Tables, NothingDangles
  <2>3. taken \subseteq taken' /\ taken' \subseteq Courses \cup Videos \cup Categories
    BY <1>4 DEF Sound, Catalogue, Tables
  <2>4. QED
    BY <2>1, <2>2, <2>3, VideosChange DEF Sound, InsertVideo
<1>5. QED
  BY <1>3, <1>4 DEF InsertVideo, Id

LEMMA SaveVideoKeeps ==
  ASSUME Sound, NEW r \in Requests, SaveVideo(r)
  PROVE  Catalogue'
<1>1. req[r].row \in Courses
  BY DEF Sound, Fits, Knows, Waits, SaveVideo, At
<1>2. video' \in [Videos -> Courses \cup {None}]
  BY <1>1 DEF Sound, Catalogue, Tables, SaveVideo, Image
<1>3. \A v \in Videos : video'[v] # None => course[video'[v]] # None
  BY DEF Sound, Catalogue, Tables, NothingDangles, SaveVideo, Image, Id
<1>4. QED
  BY <1>2, <1>3, VideosChange DEF Sound, Catalogue, Tables, SaveVideo

LEMMA DeleteVideoKeeps ==
  ASSUME Sound, NEW r \in Requests, DeleteVideo(r)
  PROVE  Catalogue'
<1>1. video' \in [Videos -> Courses \cup {None}]
  BY DEF Sound, Catalogue, Tables, DeleteVideo
<1>2. \A v \in Videos : video'[v] # None => course[video'[v]] # None
  BY DEF Sound, Catalogue, Tables, NothingDangles, DeleteVideo
<1>3. QED
  BY <1>1, <1>2, VideosChange DEF Sound, Catalogue, Tables, DeleteVideo

LEMMA SellKeeps ==
  ASSUME Sound, NEW r \in Requests, Sell(r)
  PROVE  Catalogue' /\ enrolled \subseteq enrolled' /\ paid \subseteq paid'
<1>1. Fits(req[r]) /\ req[r].steps # <<>> /\ Head(req[r].steps) = "sell"
  BY DEF Sound, Sell, At
<1>2. req[r].id \in Courses
  BY <1>1, Places DEF Fits, Asks
<1>3. /\ enrolled' \subseteq Courses /\ paid' \subseteq Courses
      /\ enrolled \subseteq enrolled' /\ paid \subseteq paid'
  BY <1>2 DEF Sound, Catalogue, Tables, Sell, Id
<1>4. \A c \in enrolled' \cup paid' : course[c] # None
  BY <1>3 DEF Sound, Catalogue, Tables, NothingDangles, Sold, Sell, Id
<1>5. QED
  BY <1>3, <1>4, SalesChange DEF Sound, Sell

LEMMA InsertCategoryKeeps ==
  ASSUME Sound, NEW r \in Requests, InsertCategory(r)
  PROVE  Catalogue'
<1>1. Fits(req[r]) /\ req[r].steps # <<>> /\ Head(req[r].steps) = "insertCategory"
  BY DEF Sound, InsertCategory, At
<1>2. PICK row : row = [slug |-> <<req[r].base, req[r].n>>, isDefault |-> FALSE]
  OBVIOUS
<1>3. row \in CategoryRows /\ ~row.isDefault /\ row # None
  <2>1. req[r].base \in {"general", "office"} /\ req[r].n \in 1 .. MaxSuffix
    BY <1>1, Places DEF Fits, Asks, RequestWith
  <2>2. row \in CategoryRows /\ ~row.isDefault
    BY <1>2, <2>1 DEF CategoryRows, CategorySlugs, SlugsOf
  <2>3. QED
    BY <2>2, CatalogAssumption
<1>4. CASE UNCHANGED <<category, taken>>
  BY <1>4, NothingChanges DEF Sound, Catalogue, Tables, InsertCategory, CategoryHandlerUnchanged, rows
<1>5. ASSUME NEW free \in Categories \ taken, CanSaveCategory(free, row),
             NEW k \in Categories \ taken,
             category' = [category EXCEPT ![k] = row], taken' = taken \cup {k}
      PROVE  Catalogue'
  <2>1. k # General /\ free # General /\ General \in Categories
    BY <1>5, CatalogAssumption DEF Sound, Catalogue
  <2>2. row.slug # GeneralSlug
    BY <1>5, <2>1 DEF Sound, Catalogue, GeneralIsTheDefault, CanSaveCategory
  <2>3. category' \in [Categories -> CategoryRows \cup {None}]
    BY <1>3, <1>5 DEF Sound, Catalogue, Tables
  <2>4. \A c \in Courses : course[c] # None => category'[course[c].category] # None
    BY <1>3, <1>5 DEF Sound, Catalogue, Tables, NothingDangles
  <2>5. GeneralIsTheDefault'
    BY <1>3, <1>5, <2>1, <2>2 DEF Sound, Catalogue, Tables, GeneralIsTheDefault
  <2>6. taken \subseteq taken' /\ taken' \subseteq Courses \cup Videos \cup Categories
    BY <1>5 DEF Sound, Catalogue, Tables
  <2>7. QED
    BY <2>3, <2>4, <2>5, <2>6, CategoriesChange
      DEF Sound, Catalogue, Tables, InsertCategory, CategoryHandlerUnchanged
<1>6. QED
  BY <1>2, <1>4, <1>5 DEF InsertCategory

LEMMA SaveCategoryKeeps ==
  ASSUME Sound, NEW r \in Requests, SaveCategory(r)
  PROVE  Catalogue'
<1>1. Fits(req[r]) /\ req[r].steps # <<>> /\ Head(req[r].steps) = "saveCategory"
  BY DEF Sound, SaveCategory, At
<1>2. req[r].op = "editCategory" /\ req[r].id \in Categories
  BY <1>1, Places DEF Fits, Asks
<1>3. PICK k \in Categories : k = req[r].id
  BY <1>2
<1>4. PICK row : row = req[r].row
  OBVIOUS
<1>5. /\ row \in CategoryRows /\ row # None
      /\ row.isDefault <=> k = General
      /\ k = General => row.slug = GeneralSlug
  BY <1>1, <1>2, <1>3, <1>4, CatalogAssumption DEF Fits, Knows, Waits
<1>6. CASE UNCHANGED category
  BY <1>6, NothingChanges DEF Sound, Catalogue, Tables, SaveCategory, CategoryHandlerUnchanged, rows
<1>7. CASE CanSaveCategory(k, row) /\ category' = [category EXCEPT ![k] = row]
  <2>1. k # General => row.slug # GeneralSlug
    BY <1>7, CatalogAssumption DEF Sound, Catalogue, GeneralIsTheDefault, CanSaveCategory
  <2>2. category' \in [Categories -> CategoryRows \cup {None}]
    BY <1>5, <1>7 DEF Sound, Catalogue, Tables
  <2>3. \A c \in Courses : course[c] # None => category'[course[c].category] # None
    BY <1>5, <1>7 DEF Sound, Catalogue, Tables, NothingDangles
  <2>4. GeneralIsTheDefault'
    BY <1>5, <1>7, <2>1, CatalogAssumption DEF Sound, Catalogue, Tables, GeneralIsTheDefault
  <2>5. taken \subseteq taken' /\ taken' \subseteq Courses \cup Videos \cup Categories
    BY DEF Sound, Catalogue, Tables, SaveCategory
  <2>6. QED
    BY <2>2, <2>3, <2>4, <2>5, CategoriesChange
      DEF Sound, Catalogue, Tables, SaveCategory, CategoryHandlerUnchanged
<1>8. QED
  BY <1>3, <1>4, <1>6, <1>7 DEF SaveCategory, Id, Image

LEMMA DeleteCategoryKeeps ==
  ASSUME Sound, NEW r \in Requests, DeleteCategory(r)
  PROVE  Catalogue'
<1>1. Fits(req[r]) /\ req[r].steps # <<>> /\ Head(req[r].steps) = "deleteCategory"
  BY DEF Sound, DeleteCategory, At
<1>2. req[r].op = "dropCategory" /\ req[r].id # General
  BY <1>1, Places DEF Fits, Knows, Waits
<1>3. CASE UNCHANGED category
  BY <1>3, NothingChanges DEF Sound, Catalogue, Tables, DeleteCategory, CategoryHandlerUnchanged, rows
<1>4. CASE /\ \A c \in Courses : course[c] # None => course[c].category # req[r].id
           /\ category' = [category EXCEPT ![req[r].id] = None]
  <2>1. category' \in [Categories -> CategoryRows \cup {None}]
    BY <1>4 DEF Sound, Catalogue, Tables
  <2>2. \A c \in Courses : course[c] # None => category'[course[c].category] # None
    BY <1>4 DEF Sound, Catalogue, Tables, NothingDangles
  <2>3. GeneralIsTheDefault'
    BY <1>2, <1>4, CatalogAssumption DEF Sound, Catalogue, Tables, GeneralIsTheDefault
  <2>4. taken \subseteq taken' /\ taken' \subseteq Courses \cup Videos \cup Categories
    BY DEF Sound, Catalogue, Tables, DeleteCategory
  <2>5. QED
    BY <2>1, <2>2, <2>3, <2>4, CategoriesChange
      DEF Sound, Catalogue, Tables, DeleteCategory, CategoryHandlerUnchanged
<1>5. QED
  BY <1>3, <1>4 DEF DeleteCategory, Id

LEMMA SeedList ==
  /\ Len(Seeds) = 2
  /\ Seeds[1] = [slug |-> GeneralSlug, isDefault |-> TRUE]
  /\ Seeds[2] = [slug |-> <<"office", 1>>, isDefault |-> FALSE]
  /\ GeneralSlug # <<"office", 1>>
  /\ Seeds[1] \in CategoryRows /\ Seeds[2] \in CategoryRows
<1>1. /\ Len(Seeds) = 2
      /\ Seeds[1] = [slug |-> GeneralSlug, isDefault |-> TRUE]
      /\ Seeds[2] = [slug |-> <<"office", 1>>, isDefault |-> FALSE]
  BY DEF Seeds
<1>2. GeneralSlug \in CategorySlugs /\ <<"office", 1>> \in CategorySlugs
  BY Sizes DEF GeneralSlug, CategorySlugs, SlugsOf
<1>3. GeneralSlug # <<"office", 1>>
  BY DEF GeneralSlug
<1>4. QED
  BY <1>1, <1>2, <1>3 DEF CategoryRows

LEMMA SeedKeeps ==
  ASSUME Catalogue, Seed
  PROVE  Catalogue'
<1>1. seeded \in {0, 1} /\ seeded + 1 \in 0 .. Len(Seeds)
  BY SeedList DEF Catalogue, Tables, Seed, Listening
<1>2. PICK seed : seed = Seeds[seeded + 1]
  OBVIOUS
<1>3. /\ seed \in CategoryRows /\ seed # None
      /\ seed.isDefault <=> seeded = 0
      /\ seed.slug = GeneralSlug <=> seeded = 0
  <2>1. CASE seeded = 0
    <3>1. seed = Seeds[1]
      BY <1>2, <2>1
    <3>2. seed \in CategoryRows
      BY <3>1, SeedList
    <3>3. seed # None
      BY <3>2, CatalogAssumption
    <3>4. QED
      BY <2>1, <3>1, <3>2, <3>3, SeedList
  <2>2. CASE seeded = 1
    <3>1. seed = Seeds[2]
      BY <1>2, <2>2
    <3>2. seed \in CategoryRows
      BY <3>1, SeedList
    <3>3. seed # None
      BY <3>2, CatalogAssumption
    <3>4. QED
      BY <2>2, <3>1, <3>2, <3>3, SeedList
  <2>3. QED
    BY <1>1, <2>1, <2>2
<1>4. General \in Categories /\ category[General] # None
  BY CatalogAssumption DEF Catalogue, GeneralIsTheDefault
<1>5. category[General].slug = GeneralSlug
  BY <1>4 DEF Catalogue, GeneralIsTheDefault
<1>6. PICK found : found = {k \in Categories : category[k] # None /\ category[k].slug = seed.slug}
  OBVIOUS
<1>7. \A k \in found : k \in Categories /\ category[k] # None /\ (k = General <=> seeded = 0)
  BY <1>3, <1>6 DEF Catalogue, GeneralIsTheDefault
<1>8. seeded' = seeded + 1 /\ UNCHANGED <<course, video, enrolled, paid, accepted>>
  BY DEF Seed
<1>9. CASE /\ category' = [k \in Categories |->
                IF k \in found THEN Seeded(category[k], seed) ELSE category[k]]
           /\ UNCHANGED taken
  <2>1. ASSUME NEW k \in Categories
        PROVE  /\ category'[k] \in CategoryRows \cup {None}
               /\ category[k] # None <=> category'[k] # None
               /\ category[k] # None => /\ category'[k].slug = category[k].slug
                                        /\ category'[k].isDefault <=> k = General
    <3>1. category[k] \in CategoryRows \cup {None}
      BY DEF Catalogue, Tables
    <3>2. CASE k \in found
      <4>1. category'[k] = [category[k] EXCEPT !.isDefault = seed.isDefault]
        BY <1>9, <3>2 DEF Seeded
      <4>2. category[k] \in CategoryRows /\ category[k] # None
        BY <1>7, <3>1, <3>2
      <4>3. /\ category'[k] \in CategoryRows /\ category'[k].slug = category[k].slug
            /\ category'[k].isDefault = seed.isDefault
        BY <1>3, <4>1, <4>2 DEF CategoryRows
      <4>4. QED
        BY <1>3, <1>7, <3>2, <4>2, <4>3, CatalogAssumption
    <3>3. CASE k \notin found
      BY <1>9, <3>1, <3>3 DEF Catalogue, GeneralIsTheDefault
    <3>4. QED
      BY <3>2, <3>3
  <2>2. category' \in [Categories -> CategoryRows \cup {None}]
    BY <1>9, <2>1
  <2>3. \A c \in Courses : course[c] # None => category'[course[c].category] # None
    <3>1. \A c \in Courses : course[c] # None => course[c].category \in Categories
      BY DEF Catalogue, Tables, CourseRows
    <3>2. QED
      BY <2>1, <3>1 DEF Catalogue, NothingDangles
  <2>4. GeneralIsTheDefault'
    BY <1>4, <2>1 DEF Catalogue, GeneralIsTheDefault
  <2>5. taken \subseteq taken' /\ taken' \subseteq Courses \cup Videos \cup Categories
    BY <1>9 DEF Catalogue, Tables
  <2>6. QED
    BY <1>1, <1>8, <2>2, <2>3, <2>4, <2>5, CategoriesChange
<1>10. ASSUME found = {}, NEW k \in Categories \ taken, category' = [category EXCEPT ![k] = seed],
              taken' = taken \cup {k}
       PROVE  Catalogue'
  <2>1. seeded # 0
    BY <1>3, <1>4, <1>5, <1>6, <1>10
  <2>2. k # General
    BY <1>10 DEF Catalogue
  <2>3. category' \in [Categories -> CategoryRows \cup {None}]
    BY <1>3, <1>10 DEF Catalogue, Tables
  <2>4. \A c \in Courses : course[c] # None => category'[course[c].category] # None
    BY <1>3, <1>10 DEF Catalogue, Tables, NothingDangles
  <2>5. GeneralIsTheDefault'
    BY <1>3, <1>4, <1>10, <2>1, <2>2 DEF Catalogue, Tables, GeneralIsTheDefault
  <2>6. taken \subseteq taken' /\ taken' \subseteq Courses \cup Videos \cup Categories
    BY <1>10 DEF Catalogue, Tables
  <2>7. QED
    BY <1>1, <1>8, <2>3, <2>4, <2>5, <2>6, CategoriesChange
<1>11. QED
  BY <1>2, <1>6, <1>9, <1>10 DEF Seed

LEMMA RecordFailedPaymentKeeps ==
  ASSUME Catalogue, NEW c \in Courses, RecordFailedPayment(c)
  PROVE  Catalogue' /\ enrolled \subseteq enrolled' /\ paid \subseteq paid'
<1>1. enrolled' \subseteq Courses /\ paid' \subseteq Courses
  BY DEF Catalogue, Tables, RecordFailedPayment
<1>2. \A d \in enrolled' \cup paid' : course[d] # None
  BY DEF Catalogue, Tables, NothingDangles, Sold, RecordFailedPayment
<1>3. QED
  BY <1>1, <1>2, SalesChange DEF RecordFailedPayment

\* A request's statement keeps the tables sound and never takes a sale back.
LEMMA ProceedKeeps ==
  ASSUME Sound, NEW r \in Requests, Proceed(r)
  PROVE  Catalogue' /\ Leaves(r) /\ enrolled \subseteq enrolled' /\ paid \subseteq paid'
<1>1. ASSUME OnlyReads PROVE Catalogue' /\ enrolled \subseteq enrolled' /\ paid \subseteq paid'
  BY <1>1, NothingChanges DEF OnlyReads, Sound, Catalogue, Tables, rows
<1>2. CASE ReadCourse(r)
  BY <1>1, <1>2, ReadCourseLeaves DEF ReadCourse
<1>3. CASE ReadCategoryOfCourse(r)
  BY <1>1, <1>3, ReadCategoryOfCourseLeaves DEF ReadCategoryOfCourse
<1>4. CASE ResolveSlug(r)
  BY <1>1, <1>4, ResolveSlugLeaves DEF ResolveSlug
<1>5. CASE InsertCourse(r)
  BY <1>5, InsertCourseKeeps, FinishLeaves DEF InsertCourse
<1>6. CASE SaveCourse(r)
  BY <1>6, SaveCourseKeeps, FinishLeaves DEF SaveCourse
<1>7. CASE CountSales(r)
  BY <1>1, <1>7, CountSalesLeaves DEF CountSales
<1>8. CASE DropVideos(r)
  BY <1>8, DropVideosKeeps, DropVideosLeaves DEF DropVideos
<1>9. CASE DeleteCourse(r)
  BY <1>9, DeleteCourseKeeps, FinishLeaves DEF DeleteCourse
<1>10. CASE ReadPublished(r)
  BY <1>1, <1>10, ReadPublishedLeaves DEF ReadPublished
<1>11. CASE Sell(r)
  BY <1>11, SellKeeps, FinishLeaves DEF Sell
<1>12. CASE InsertVideo(r)
  BY <1>12, InsertVideoKeeps, FinishLeaves DEF InsertVideo
<1>13. CASE ReadVideo(r)
  BY <1>1, <1>13, ReadVideoLeaves DEF ReadVideo
<1>14. CASE SaveVideo(r)
  BY <1>14, SaveVideoKeeps, FinishLeaves DEF SaveVideo
<1>15. CASE DeleteVideo(r)
  BY <1>15, DeleteVideoKeeps, FinishLeaves DEF DeleteVideo
<1>16. CASE ReadCategory(r)
  BY <1>1, <1>16, ReadCategoryLeaves DEF ReadCategory
<1>17. CASE ResolveCategorySlug(r)
  BY <1>1, <1>17, ResolveCategorySlugLeaves DEF ResolveCategorySlug
<1>18. CASE InsertCategory(r)
  BY <1>18, InsertCategoryKeeps, FinishLeaves DEF InsertCategory, CategoryHandlerUnchanged
<1>19. CASE SaveCategory(r)
  BY <1>19, SaveCategoryKeeps, FinishLeaves DEF SaveCategory, CategoryHandlerUnchanged
<1>20. CASE ReadGeneral(r)
  BY <1>1, <1>20, ReadGeneralLeaves DEF ReadGeneral
<1>21. CASE MoveCourses(r)
  BY <1>21, MoveCoursesKeeps, MoveCoursesLeaves DEF MoveCourses, CategoryHandlerUnchanged
<1>22. CASE DeleteCategory(r)
  BY <1>22, DeleteCategoryKeeps, FinishLeaves DEF DeleteCategory, CategoryHandlerUnchanged
<1>23. QED
  BY <1>2, <1>3, <1>4, <1>5, <1>6, <1>7, <1>8, <1>9, <1>10, <1>11, <1>12, <1>13, <1>14, <1>15, <1>16, <1>17, <1>18, <1>19, <1>20, <1>21, <1>22
     DEF Proceed

LEMMA InitSound == Init => Sound
<1>1. SUFFICES ASSUME Init PROVE Sound
  OBVIOUS
<1>2. [slug |-> GeneralSlug, isDefault |-> TRUE] \in CategoryRows
  <2>1. GeneralSlug \in CategorySlugs
    BY Sizes DEF GeneralSlug, CategorySlugs, SlugsOf
  <2>2. QED
    BY <2>1 DEF CategoryRows
<1>3. [slug |-> GeneralSlug, isDefault |-> TRUE] # None
  BY <1>2, CatalogAssumption
<1>4. Tables
  <2>1. course \in [Courses -> CourseRows \cup {None}] /\ video \in [Videos -> Courses \cup {None}]
    BY <1>1, CatalogAssumption DEF Init
  <2>2. category \in [Categories -> CategoryRows \cup {None}]
    BY <1>1, <1>2 DEF Init
  <2>3. taken \subseteq Courses \cup Videos \cup Categories
    <3>1. DOMAIN InitialCourse = Courses /\ DOMAIN InitialVideo = Videos /\ General \in Categories
      BY CatalogAssumption
    <3>2. QED
      BY <1>1, <3>1 DEF Init, InUse
  <2>4. seeded \in 0 .. Len(Seeds) /\ accepted \in 0 .. MaxRequests
    BY <1>1, Sizes, SeedList DEF Init
  <2>5. enrolled \subseteq Courses /\ paid \subseteq Courses
    BY <1>1 DEF Init
  <2>6. QED
    BY <2>1, <2>2, <2>3, <2>4, <2>5 DEF Tables
<1>5. General \in taken
  BY <1>1 DEF Init
<1>6. NothingDangles
  <2>1. \A c \in Courses : course[c] # None => category[course[c].category] # None
    BY <1>1, <1>3, CatalogAssumption DEF Init
  <2>2. \A v \in Videos : video[v] # None => course[video[v]] # None
    BY <1>1, CatalogAssumption DEF Init
  <2>3. QED
    BY <1>1, <2>1, <2>2 DEF Init, NothingDangles, Sold
<1>7. GeneralIsTheDefault
  BY <1>1, <1>3, CatalogAssumption DEF Init, GeneralIsTheDefault
<1>8. /\ req = [r \in Requests |-> req[r]]
      /\ \A r \in Requests : Fits(req[r]) /\ Sells(req[r])
  <2>1. Sells(NoRequest)
    BY DEF Sells, NoRequest
  <2>2. QED
    BY <1>1, <2>1, NoRequestFits DEF Init
<1>9. QED
  BY <1>4, <1>5, <1>6, <1>7, <1>8 DEF Sound, Catalogue

LEMMA NextSound == Sound /\ [Next]_vars => Sound'
<1>1. SUFFICES ASSUME Sound, [Next]_vars PROVE Sound'
  OBVIOUS
<1>2. ASSUME NEW r \in Requests, Catalogue', Leaves(r), enrolled \subseteq enrolled',
             paid \subseteq paid'
      PROVE  Sound'
  BY <1>1, <1>2, LeavesAll DEF Sound
<1>3. ASSUME UNCHANGED <<rows, taken, seeded>>, accepted' \in 0 .. MaxRequests
      PROVE  Catalogue' /\ enrolled \subseteq enrolled' /\ paid \subseteq paid'
  BY <1>1, <1>3, NothingChanges DEF Sound, rows
<1>4. accepted \in 0 .. MaxRequests
  BY <1>1 DEF Sound, Catalogue, Tables
<1>5. ASSUME Catalogue', UNCHANGED req, enrolled \subseteq enrolled', paid \subseteq paid'
      PROVE  Sound'
  <2>1. ASSUME NEW r \in Requests PROVE Fits(req'[r]) /\ Sells(req[r])'
    <3>1. PICK w : w = req[r]
      OBVIOUS
    <3>2. Fits(w) /\ Sells(w)'
      BY <1>1, <1>5, <3>1, SellsStays DEF Sound
    <3>3. req'[r] = w
      BY <1>5, <3>1
    <3>4. QED
      BY <3>2, <3>3 DEF Sells, Sold, Waits
  <2>2. QED
    BY <1>1, <1>5, <2>1 DEF Sound
<1>6. ASSUME NEW r \in Requests, CourseRequest(r) \/ VideoRequest(r) \/ CategoryRequest(r)
      PROVE  Sound'
  <2>1. /\ Leaves(r) /\ UNCHANGED <<rows, taken, seeded>>
        /\ accepted' = accepted + 1 /\ accepted < MaxRequests
    BY <1>1, <1>6, RequestLeaves
  <2>2. accepted' \in 0 .. MaxRequests
    BY <1>4, <2>1, Sizes
  <2>3. QED
    BY <1>2, <1>3, <2>1, <2>2
<1>7. ASSUME NEW r \in Requests, Proceed(r) PROVE Sound'
  BY <1>1, <1>2, <1>7, ProceedKeeps
<1>8. ASSUME NEW r \in Requests, Fail(r) PROVE Sound'
  <2>1. Leaves(r) /\ UNCHANGED <<rows, taken, seeded, accepted>>
    BY <1>8, FinishLeaves DEF Fail
  <2>2. QED
    BY <1>2, <1>3, <1>4, <2>1
<1>9. ASSUME NEW c \in Courses, RecordFailedPayment(c) PROVE Sound'
  BY <1>1, <1>5, <1>9, RecordFailedPaymentKeeps DEF Sound, RecordFailedPayment
<1>10. CASE Restart
  <2>1. (Tables /\ General \in taken)'
    BY <1>1, <1>10, SeedList DEF Sound, Catalogue, Tables, Restart, rows
  <2>2. NothingDangles' /\ GeneralIsTheDefault'
    BY <1>1, <1>10 DEF Sound, Catalogue, NothingDangles, GeneralIsTheDefault, Sold, Restart, rows
  <2>3. ASSUME NEW r \in Requests PROVE Fits(req'[r]) /\ Sells(req[r])'
    <3>1. req'[r] = NoRequest
      BY <1>10 DEF Restart
    <3>2. NoRequest.op = "none"
      BY DEF NoRequest
    <3>3. QED
      BY <3>1, <3>2, NoRequestFits DEF Sells
  <2>4. req' = [r \in Requests |-> req'[r]]
    BY <1>10 DEF Restart
  <2>5. QED
    BY <2>1, <2>2, <2>3, <2>4 DEF Sound, Catalogue
<1>11. CASE Seed
  BY <1>1, <1>5, <1>11, SeedKeeps DEF Sound, Seed
<1>12. CASE UNCHANGED vars
  BY <1>3, <1>4, <1>5, <1>12 DEF vars
<1>13. QED
  BY <1>1, <1>6, <1>7, <1>8, <1>9, <1>10, <1>11, <1>12 DEF Next

LEMMA SoundTypes == Sound => TypeOK
  BY DEF Sound, Catalogue, Tables, Fits, RequestWith, TypeOK

LEMMA SoundRemoval == Sound => RemovalSparesSold
<1>1. SUFFICES ASSUME Sound, NEW r \in Requests, At(r, "videos") \/ At(r, "delete")
               PROVE  ~req[r].sold
  BY DEF RemovalSparesSold
<1>2. /\ Fits(req[r]) /\ Sells(req[r]) /\ req[r].steps # <<>>
      /\ Head(req[r].steps) \in {"videos", "delete"}
  BY <1>1 DEF Sound, At
<1>3. req[r].op = "remove" /\ req[r].sold \in BOOLEAN
  BY <1>2, Places DEF Fits, RequestWith
<1>4. QED
  BY <1>2, <1>3 DEF Sells, Waits

LEMMA AlwaysSound == Spec => []Sound
  BY InitSound, NextSound, PTL DEF Spec

-----------------------------------------------------------------------------
\* The tables and the requests keep the shape the entities declare.
THEOREM Types == Spec => []TypeOK
  BY AlwaysSound, SoundTypes, PTL

\* However the staff's requests, the sales and the restarts interleave, a sold
\* course stays, a video has its course, and a course has its category.
THEOREM SoldCoursesStay == Spec => []NothingDangles
<1>1. Sound => NothingDangles
  BY DEF Sound, Catalogue
<1>2. QED
  BY <1>1, AlwaysSound, PTL

\* A removal that was asked for a sold course never gets as far as its videos.
THEOREM RemovalsSpareSold == Spec => []RemovalSparesSold
  BY AlwaysSound, SoundRemoval, PTL

\* There is one default category, and it is the one found by its slug.
THEOREM OneDefault == Spec => []GeneralIsTheDefault
<1>1. Sound => GeneralIsTheDefault
  BY DEF Sound, Catalogue
<1>2. QED
  BY <1>1, AlwaysSound, PTL
=============================================================================
