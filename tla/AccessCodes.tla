---------------------------- MODULE AccessCodes -----------------------------
(***************************************************************************)
(* The inventory of access codes: the superadmin generates, exports and    *)
(* deletes codes while students redeem them.                               *)
(*                                                                         *)
(* A redemption locks the code's row from its read to its commit, and a    *)
(* statement that writes a locked row waits.  Generation and export read   *)
(* without a lock and write later, so they meet each other, redemptions    *)
(* and deletions in between.                                               *)
(***************************************************************************)
EXTENDS Naturals, FiniteSets, FiniteSetsExt

CONSTANTS
  Codes,        \* the strings the generator may draw
  Students,
  Requests,     \* requests the server handles concurrently
  PreviewLimit, \* a larger batch is inserted with INSERT IGNORE
  BatchSize,
  MaxCount,     \* codes per request
  MaxAttempts,  \* collisions in a row before a generation gives up
  MaxRequests,  \* bound on the requests accepted
  None

ASSUME SizeAssumption ==
  /\ {PreviewLimit, MaxRequests} \subseteq Nat
  /\ {BatchSize, MaxCount, MaxAttempts} \subseteq Nat \ {0}
  /\ IsFiniteSet(Codes) /\ BatchSize <= Cardinality(Codes)
  /\ None \notin Students

\* A deleted code is a row that was there: the string is not drawn again.
States == {"absent", "unused", "used", "deleted"}

VARIABLES
  state,     \* each code's row: its presence and isUsed
  student,   \* its studentId
  opens,     \* users.accessCodeId of each student's account
  exported,  \* the codes whose exportedAt is set
  handed,    \* how often a "ready" export has handed the code out
  locked,    \* the codes whose row a redemption has locked
  req,       \* the request each handler is in the middle of
  reported,  \* codes that generations count as generated
  accepted

vars == <<state, student, opens, exported, handed, locked, req, reported, accepted>>

-----------------------------------------------------------------------------

Steps == {"idle", "pickOne", "insertOne", "pickBatch", "insertBatch",
          "lock", "redeem", "select", "mark"}

\* want and got count codes, misses the collisions in a row, and picked holds
\* the codes a handler is about to insert, redeem or hand out.
Request == [pc : Steps, want : Nat, got : Nat, misses : Nat,
            picked : SUBSET Codes, student : Students \cup {None}]

\* Mutant: an undefined student instead of none.
RawRequest == [pc |-> "idle", want |-> 0, got |-> 0, misses |-> 0,
               picked |-> {}, student |-> "undefined"]

NoRequest == [pc |-> "idle", want |-> 0, got |-> 0, misses |-> 0,
              picked |-> {}, student |-> None]

At(r, step) == req[r].pc = step
Picked(r)   == req[r].picked

Become(r, request) == req' = [req EXCEPT ![r] = request]
Finish(r)          == Become(r, NoRequest)

Accept(r, request) ==
  /\ At(r, "idle")
  /\ accepted < MaxRequests
  /\ accepted' = accepted + 1
  /\ Become(r, request)
  /\ UNCHANGED <<state, student, opens, exported, handed, locked, reported>>

Absent(picked) == {c \in picked : state[c] = "absent"}

-----------------------------------------------------------------------------
(* Generation.                                                             *)

Generate(r, count) ==
  LET want == Min({count, MaxCount})
  IN  Accept(r, [NoRequest EXCEPT !.want = want,
                   !.pc = IF want <= PreviewLimit THEN "pickOne" ELSE "pickBatch"])

\* Mutant: a collision is not counted.
MissUncounted(r, step) == Become(r, [req[r] EXCEPT !.pc = step, !.picked = {}])

\* A round that inserted nothing; the generation gives up after MaxAttempts.
Miss(r, step) ==
  LET misses == req[r].misses + 1
  IN  IF misses >= MaxAttempts
      THEN Finish(r)
      ELSE Become(r, [req[r] EXCEPT !.pc = step, !.misses = misses, !.picked = {}])

Hit(r, step, n) ==
  LET got == req[r].got + n
  IN  IF got >= req[r].want
      THEN Finish(r)
      ELSE Become(r, [req[r] EXCEPT !.pc = step, !.got = got, !.misses = 0, !.picked = {}])

\* createUniqueCode draws a code and looks for it.
PickOne(r) ==
  /\ At(r, "pickOne")
  /\ \E c \in Codes :
       IF state[c] = "absent"
       THEN Become(r, [req[r] EXCEPT !.pc = "insertOne", !.picked = {c}])
       ELSE Miss(r, "pickOne")
  /\ UNCHANGED <<state, student, opens, exported, handed, locked, reported, accepted>>

\* A row that appeared since then makes the insertion, and the request, fail.
InsertOne(r) ==
  /\ At(r, "insertOne")
  /\ IF Absent(Picked(r)) = {}
     THEN Finish(r) /\ UNCHANGED <<state, reported>>
     ELSE /\ state' = [c \in Codes |-> IF c \in Picked(r) THEN "unused" ELSE state[c]]
          /\ reported' = reported + 1
          /\ Hit(r, "pickOne", 1)
  /\ UNCHANGED <<student, opens, exported, handed, locked, accepted>>

\* insertUniqueCodeBatch draws distinct codes and drops those that exist.
PickBatch(r) ==
  /\ At(r, "pickBatch")
  /\ \E drawn \in kSubset(Min({BatchSize, req[r].want - req[r].got}), Codes) :
       IF Absent(drawn) = {}
       THEN Miss(r, "pickBatch")
       ELSE Become(r, [req[r] EXCEPT !.pc = "insertBatch", !.picked = Absent(drawn)])
  /\ UNCHANGED <<state, student, opens, exported, handed, locked, reported, accepted>>

\* Mutant: the rows sent are counted, not the rows inserted.
RowsSent(picked) == Cardinality(picked)

AffectedRows(picked) == Cardinality(Absent(picked))

\* INSERT IGNORE skips the rows that appeared since the look-up.
InsertBatch(r) ==
  LET n == AffectedRows(Picked(r))
  IN  /\ At(r, "insertBatch")
      /\ state' = [c \in Codes |-> IF c \in Absent(Picked(r)) THEN "unused" ELSE state[c]]
      /\ reported' = reported + n
      /\ IF n = 0 THEN Miss(r, "pickBatch") ELSE Hit(r, "pickBatch", n)
      /\ UNCHANGED <<student, opens, exported, handed, locked, accepted>>

-----------------------------------------------------------------------------
(* Redemption, inside the transaction of an onboarding payment.            *)

Redeem(r, s, c) == Accept(r, [NoRequest EXCEPT !.pc = "lock", !.picked = {c}, !.student = s])

\* Mutant: the row is read without a lock.
LockNothing(picked) == {}

\* SELECT ... FOR UPDATE: waits while another transaction has the row.
Locks(picked) == picked

LockCode(r) ==
  /\ At(r, "lock")
  /\ Picked(r) \cap locked = {}
  /\ IF \A c \in Picked(r) : state[c] = "unused"
     THEN /\ locked' = locked \cup Locks(Picked(r))
          /\ Become(r, [req[r] EXCEPT !.pc = "redeem"])
     ELSE Finish(r) /\ UNCHANGED locked
  /\ UNCHANGED <<state, student, opens, exported, handed, reported, accepted>>

\* The account and the code are written and the transaction commits; a second
\* account for the same e-mail breaks a UNIQUE key and rolls it back.
CommitRedeem(r) ==
  LET s == req[r].student
  IN  /\ At(r, "redeem")
      /\ IF opens[s] = None
         THEN /\ state' = [c \in Codes |-> IF c \in Picked(r) THEN "used" ELSE state[c]]
              /\ student' = [c \in Codes |-> IF c \in Picked(r) THEN s ELSE student[c]]
              /\ \E c \in Picked(r) : opens' = [opens EXCEPT ![s] = c]
         ELSE UNCHANGED <<state, student, opens>>
      /\ locked' = locked \ Picked(r)
      /\ Finish(r)
      /\ UNCHANGED <<exported, handed, reported, accepted>>

-----------------------------------------------------------------------------
(* Export and deletion.                                                    *)

Ready == {c \in Codes : state[c] = "unused" /\ c \notin exported}

ExportReady(r, count) == Accept(r, [NoRequest EXCEPT !.pc = "select", !.want = count])

\* The first rows by createdAt and id: for the model, any of the ready ones.
SelectReady(r) ==
  /\ At(r, "select")
  /\ \E picked \in kSubset(Min({req[r].want, Cardinality(Ready)}), Ready) :
       IF picked = {}
       THEN Finish(r)
       ELSE Become(r, [req[r] EXCEPT !.pc = "mark", !.picked = picked])
  /\ UNCHANGED <<state, student, opens, exported, handed, locked, reported, accepted>>

\* Mutant: a code that was redeemed since it was selected is not marked.
MarksUnused(picked) == {c \in picked : state[c] = "unused"}

\* UPDATE by id, whatever isUsed has become; a deleted row is not there.
Marks(picked) == {c \in picked : state[c] # "deleted"}

\* All the selected codes are handed out, those marked by others included.
MarkSelected(r) ==
  /\ At(r, "mark")
  /\ Picked(r) \cap locked = {}
  /\ exported' = exported \cup Marks(Picked(r))
  /\ handed' = [c \in Codes |-> IF c \in Picked(r) THEN handed[c] + 1 ELSE handed[c]]
  /\ Finish(r)
  /\ UNCHANGED <<state, student, opens, locked, reported, accepted>>

\* POST mark-exported, for codes that were browsed page by page.
MarkExported(codes) ==
  /\ codes \cap locked = {}
  /\ exported' = exported \cup {c \in codes : state[c] = "unused"}
  /\ UNCHANGED <<state, student, opens, handed, locked, req, reported, accepted>>

\* Mutant: the ids are trusted.
DeletableById(c) == state[c] # "absent"

Deletable(c) ==
  /\ state[c] = "unused"
  /\ student[c] = None
  /\ \A s \in Students : opens[s] # c

\* By ids, for one partner, or all: in each case some of the rows.
DeleteUnused(codes) ==
  /\ codes \cap locked = {}
  /\ state' = [c \in Codes |-> IF c \in codes /\ Deletable(c) THEN "deleted" ELSE state[c]]
  /\ UNCHANGED <<student, opens, exported, handed, locked, req, reported, accepted>>

\* An await throws or the process dies: an open transaction is rolled back.
Fail(r) ==
  /\ ~At(r, "idle")
  /\ locked' = IF At(r, "redeem") THEN locked \ Picked(r) ELSE locked
  /\ Finish(r)
  /\ UNCHANGED <<state, student, opens, exported, handed, reported, accepted>>

-----------------------------------------------------------------------------

Init ==
  /\ state = [c \in Codes |-> "absent"]
  /\ student = [c \in Codes |-> None]
  /\ opens = [s \in Students |-> None]
  /\ exported = {} /\ locked = {}
  /\ handed = [c \in Codes |-> 0]
  /\ req = [r \in Requests |-> NoRequest]
  /\ reported = 0 /\ accepted = 0

Arrive(r) ==
  \/ \E count \in 1..(MaxCount + 1) : Generate(r, count)
  \/ \E count \in 1..MaxCount : ExportReady(r, count)
  \/ \E s \in Students, c \in Codes : Redeem(r, s, c)

Proceed(r) ==
  \/ PickOne(r) \/ InsertOne(r) \/ PickBatch(r) \/ InsertBatch(r)
  \/ LockCode(r) \/ CommitRedeem(r)
  \/ SelectReady(r) \/ MarkSelected(r)

Next ==
  \/ \E r \in Requests : Arrive(r) \/ Proceed(r) \/ Fail(r)
  \/ \E codes \in SUBSET Codes : MarkExported(codes) \/ DeleteUnused(codes)

Spec == Init /\ [][Next]_vars

\* Node's event loop goes on with every handler whose await has an answer.
FairSpec == Spec /\ \A r \in Requests : WF_vars(Proceed(r))

-----------------------------------------------------------------------------
(* Properties.                                                             *)

\* The variables hold what the tables and the handlers can hold.
TypeOK ==
  /\ state \in [Codes -> States]
  /\ student \in [Codes -> Students \cup {None}]
  /\ opens \in [Students -> Codes \cup {None}]
  /\ exported \in SUBSET Codes /\ locked \in SUBSET Codes
  /\ handed \in [Codes -> Nat]
  /\ req \in [Requests -> Request]
  /\ reported \in Nat /\ accepted \in 0..MaxRequests

\* The code an account logs in with is there, used, and that account's own,
\* whoever else redeems or deletes it at the same time.
AccountsKeepTheirCode ==
  \A s \in Students : opens[s] # None => state[opens[s]] = "used" /\ student[opens[s]] = s

\* A used code stays used, by the same student.
UsedIsForever ==
  [][\A c \in Codes : state[c] = "used" => UNCHANGED <<state[c], student[c]>>]_vars

\* What generations report, in sum, is what they inserted, however their
\* draws collide with each other's.
ReportedIsInserted == reported = Cardinality({c \in Codes : state[c] # "absent"})

\* A code that a "ready" export handed out is no longer ready, even when it
\* was redeemed or marked by another request in between.
HandedOutIsMarked ==
  \A c \in Codes : handed[c] > 0 /\ state[c] # "deleted" => c \in exported

Generating(r) == req[r].pc \in {"pickOne", "insertOne", "pickBatch", "insertBatch"}

\* A generation ends, whatever its draws collide with.
GenerationEnds == \A r \in Requests : Generating(r) ~> At(r, "idle")

\* "ready = unused never-exported (marks exported after download)".
HandedOutOnce == \A c \in Codes : handed[c] <= 1

-----------------------------------------------------------------------------
(* The abstract specification.                                             *)

Redeemable == {c \in Codes : state[c] = "unused"}
Redeemed   == {c \in Codes : state[c] = "used"}
Withdrawn  == {c \in Codes : state[c] = "deleted"}

Stock == INSTANCE CodeStock WITH stock <- Redeemable, used <- Redeemed,
                                 withdrawn <- Withdrawn

\* Seen from the codes, generations, redemptions and deletions that overlap are
\* one after the other: a redemption is the one step that a payment takes it for,
\* and a code leaves the inventory once, redeemed or withdrawn.
ImplementsCodeStock == Stock!Spec
=============================================================================
