-------------------------- MODULE PaymentSyncProofs --------------------------
(***************************************************************************)
(* A sync leaves no payment behind, for every page size, number of pages   *)
(* and number of charges, and however many syncs run at once.              *)
(*                                                                         *)
(* While a sync fetches, every charge that was there when it began has     *)
(* been fetched or is still below the pages fetched: the list only grows   *)
(* at its top, which pushes the others down, never up.                     *)
(***************************************************************************)
EXTENDS PaymentSync, TLAPS

Handling(r) == sync[r].pc \in {"item", "fulfil"}

\* A handler works on a charge, and fulfils successful ones only.
Shape ==
  \A r \in Syncs :
    /\ sync[r].page \in 1..MaxPages
    /\ sync[r].start <= listed
    /\ Handling(r) => sync[r].item \in Charges
    /\ At(r, "fulfil") => sync[r].item \in Successful

\* What was there when the sync began and is above the next page was fetched.
Fetched ==
  \A r \in Syncs : At(r, "fetch") =>
    \A c \in Charges : c <= sync[r].start =>
      (sync[r].page - 1) * PageSize + c <= listed \/ sync[r].pending[c] > 0

\* What was there when the sync began is settled, in hand, or to be handled.
Kept ==
  \A r \in Syncs :
    sync[r].pc \in {"process", "item", "fulfil"} /\ listed <= MaxPages * PageSize =>
      \A c \in Successful : c <= sync[r].start =>
        \/ sync[r].pending[c] > 0
        \/ Handling(r) /\ sync[r].item = c
        \/ Settled(r, c)

Tracked == TypeOK /\ Shape /\ Fetched /\ Kept

-----------------------------------------------------------------------------

\* A full page further down: (k + 1) - 1 pages are k pages.
LEMMA PagesAdd ==
  ASSUME NEW k \in Nat \ {0}
  PROVE  /\ (k + 1) - 1 = k
         /\ ((k + 1) - 1) * PageSize = k * PageSize
         /\ (k - 1) * PageSize \in Nat
         /\ k * PageSize \in Nat
<1>1. PageSize \in Nat
  BY SizeAssumption
<1>2. k - 1 \in Nat
  OBVIOUS
<1>3. (k + 1) - 1 = k
  OBVIOUS
<1>4. (k - 1) * PageSize \in Nat /\ k * PageSize \in Nat
  BY <1>1, <1>2
<1> QED
  BY <1>3, <1>4

\* A fresh sync has every shape that the invariant asks for.
LEMMA NoSyncIsSync == NoSync \in Sync
BY DEF NoSync, Sync

LEMMA InitTracked == Init => Tracked
<1> SUFFICES ASSUME Init PROVE Tracked
  OBVIOUS
<1>1. TypeOK
  BY SizeAssumption, NoSyncIsSync DEF Init, TypeOK
<1>2. Shape
  <2>1. NoSync.page = 1 /\ NoSync.start = 0 /\ NoSync.pc = "idle"
    BY DEF NoSync
  <2>2. listed = 0 /\ 1 \in 1..MaxPages /\ \A r \in Syncs : sync[r] = NoSync
    BY SizeAssumption DEF Init
  <2> SUFFICES ASSUME NEW r \in Syncs
               PROVE  /\ sync[r].page \in 1..MaxPages
                      /\ sync[r].start <= listed
                      /\ sync[r].pc = "idle"
    BY DEF Shape, Handling, At
  <2>3. sync[r] = NoSync
    BY <2>2
  <2>4. sync[r].page = 1 /\ sync[r].start = 0 /\ sync[r].pc = "idle"
    BY <2>1, <2>3
  <2> QED
    BY <2>2, <2>4
<1>3. Fetched /\ Kept
  BY DEF Init, Fetched, Kept, At, NoSync
<1> QED
  BY <1>1, <1>2, <1>3 DEF Tracked

\* What a step of sync r to the state s has to show, the others standing still.
Stays(r, s) ==
  /\ s \in Sync
  /\ s.page \in 1..MaxPages
  /\ s.start <= listed
  /\ s.pc \in {"item", "fulfil"} => s.item \in Charges
  /\ s.pc = "fulfil" => s.item \in Successful
  /\ s.pc = "fetch" =>
       \A c \in Charges : c <= s.start =>
         (s.page - 1) * PageSize + c <= listed \/ s.pending[c] > 0
  /\ s.pc \in {"process", "item", "fulfil"} /\ listed <= MaxPages * PageSize =>
       \A c \in Successful : c <= s.start =>
         \/ s.pending[c] > 0
         \/ s.pc \in {"item", "fulfil"} /\ s.item = c
         \/ c \in granted'
         \/ \E status \in {"skipped", "failed"} : <<c, status>> \in s.report

\* One sync moves, the list stands still and nothing granted is taken back.
LEMMA OneSyncMoves ==
  ASSUME Tracked, NEW r \in Syncs, NEW s, Stays(r, s), Become(r, s),
         UNCHANGED listed, started' \in 0..MaxSyncs,
         granted \subseteq granted', granted' \subseteq Charges
  PROVE  Tracked'
<1>1. TypeOK'
  BY DEF Tracked, TypeOK, Stays, Become
<1>2. \A q \in Syncs : sync'[q] = IF q = r THEN s ELSE sync[q]
  BY DEF Tracked, TypeOK, Become
<1>3. Shape'
  BY <1>2 DEF Tracked, Shape, Stays, Handling, At
<1>4. Fetched'
  BY <1>2 DEF Tracked, Fetched, Stays, At
<1>5. Kept'
  <2> SUFFICES ASSUME NEW q \in Syncs,
                      sync'[q].pc \in {"process", "item", "fulfil"},
                      listed <= MaxPages * PageSize,
                      NEW c \in Successful, c <= sync'[q].start
               PROVE  \/ sync'[q].pending[c] > 0
                      \/ Handling(q)' /\ sync'[q].item = c
                      \/ Settled(q, c)'
    BY DEF Kept
  <2>1. CASE q = r
    BY <1>2, <2>1 DEF Stays, Handling, Settled
  <2>2. CASE q # r
    <3>1. sync'[q] = sync[q]
      BY <1>2, <2>2
    <3>2. \/ sync[q].pending[c] > 0
          \/ Handling(q) /\ sync[q].item = c
          \/ Settled(q, c)
      BY <3>1 DEF Tracked, Kept
    <3> QED
      BY <3>1, <3>2 DEF Handling, Settled
  <2> QED
    BY <2>1, <2>2
<1> QED
  BY <1>1, <1>3, <1>4, <1>5 DEF Tracked

-----------------------------------------------------------------------------

\* A sync ends, or is given up, with a fresh state.
LEMMA FreshStays ==
  ASSUME Tracked, NEW r \in Syncs
  PROVE  Stays(r, NoSync)
<1>1. NoSync.pc = "idle" /\ NoSync.page = 1 /\ NoSync.start = 0
  BY DEF NoSync
<1>2. 1 \in 1..MaxPages /\ 0 <= listed
  BY SizeAssumption DEF Tracked, TypeOK
<1> QED
  BY <1>1, <1>2, NoSyncIsSync DEF Stays

LEMMA StartTracked ==
  ASSUME Tracked, NEW r \in Syncs, Start(r)
  PROVE  Tracked'
<1> DEFINE s == [NoSync EXCEPT !.pc = "fetch", !.start = listed]
<1>1. listed \in Nat /\ started' \in 0..MaxSyncs
  BY SizeAssumption DEF Tracked, TypeOK, Start
<1>2. s \in Sync /\ s.page = 1 /\ s.pc = "fetch" /\ s.start = listed
  BY <1>1, NoSyncIsSync DEF NoSync, Sync
<1>3. (1 - 1) * PageSize = 0
  BY SizeAssumption
<1>4. \A c \in Charges : c <= s.start => (s.page - 1) * PageSize + c <= listed
  BY <1>1, <1>2, <1>3 DEF Charges
<1>5. Stays(r, s)
  BY <1>1, <1>2, <1>4, SizeAssumption DEF Stays
<1> QED
  BY <1>1, <1>5, OneSyncMoves DEF Start, Tracked, TypeOK

\* The page holds the charges between the pages before it and the next one.
LEMMA FetchPageTracked ==
  ASSUME Tracked, NEW r \in Syncs, FetchPage(r)
  PROVE  Tracked'
<1> DEFINE k == sync[r].page
           fetched == [c \in Charges |-> sync[r].pending[c] + IF c \in Page(k) THEN 1 ELSE 0]
           last == [sync[r] EXCEPT !.pending = fetched, !.pc = "process"]
           next == [sync[r] EXCEPT !.pending = fetched, !.page = k + 1]
<1>1. /\ sync[r] \in Sync /\ k \in 1..MaxPages /\ k \in Nat \ {0} /\ listed \in Nat
      /\ sync[r].pc = "fetch" /\ sync[r].start <= listed /\ listed <= MaxListed
      /\ PageSize \in Nat /\ MaxPages \in Nat /\ MaxListed \in Nat
  BY SizeAssumption DEF Tracked, TypeOK, Shape, FetchPage, At
<1>2. fetched \in [Charges -> Nat]
  BY <1>1 DEF Sync
<1>3. \A c \in Charges : c <= sync[r].start => k * PageSize + c <= listed \/ fetched[c] > 0
  <2> SUFFICES ASSUME NEW c \in Charges, c <= sync[r].start, ~(k * PageSize + c <= listed)
               PROVE  fetched[c] > 0
    OBVIOUS
  <2>1. sync[r].pending[c] \in Nat /\ c \in Nat \ {0} /\ sync[r].start \in Nat
    BY <1>1 DEF Sync, Charges
  <2>2. k * PageSize \in Nat /\ (k - 1) * PageSize \in Nat
    BY <1>1, PagesAdd
  <2>3. (k - 1) * PageSize + c <= listed \/ sync[r].pending[c] > 0
    BY <1>1 DEF Tracked, Fetched, At
  <2>4. CASE sync[r].pending[c] > 0
    BY <2>1, <2>4
  <2>5. CASE (k - 1) * PageSize + c <= listed
    <3>1. c \in 1..listed /\ listed < k * PageSize + c
      BY <1>1, <2>1, <2>2
    <3>2. c \in Page(k)
      BY <2>5, <3>1 DEF Page
    <3> QED
      BY <2>1, <3>2
  <2> QED
    BY <2>3, <2>4, <2>5
<1>4. started' \in 0..MaxSyncs /\ granted' = granted /\ listed' = listed /\ granted \subseteq Charges
  BY DEF Tracked, TypeOK, FetchPage
<1>5. CASE LastPage(k)
  <2>1. last \in Sync /\ last.pc = "process" /\ last.page = k /\ last.start = sync[r].start
        /\ last.pending = fetched
    BY <1>1, <1>2 DEF Sync
  <2>2. ASSUME listed <= MaxPages * PageSize, NEW c \in Successful, c <= sync[r].start
        PROVE  fetched[c] > 0
    <3>1. c \in Charges /\ c \in Nat \ {0}
      BY ChargeAssumption DEF Charges
    <3>2. k = MaxPages \/ k * PageSize >= listed
      BY <1>1, <1>5 DEF LastPage
    <3>3. k * PageSize >= listed
      BY <2>2, <3>2, <1>1, PagesAdd
    <3>4. ~(k * PageSize + c <= listed)
      BY <1>1, <3>1, <3>3, PagesAdd
    <3> QED
      BY <1>3, <2>2, <3>1, <3>4
  <2>3. Stays(r, last)
    BY <1>1, <2>1, <2>2 DEF Stays
  <2>4. Become(r, last)
    BY <1>5 DEF FetchPage
  <2> QED
    BY <1>4, <2>3, <2>4, OneSyncMoves
<1>6. CASE ~LastPage(k)
  <2>1. next \in Sync /\ next.pc = "fetch" /\ next.page = k + 1 /\ next.start = sync[r].start
        /\ next.pending = fetched
    <3> HIDE DEF fetched
    <3>1. k + 1 \in Nat
      BY <1>1
    <3> HIDE DEF k
    <3> QED
      BY <1>1, <1>2, <3>1 DEF Sync
  <2>2. k + 1 \in 1..MaxPages
    BY <1>1, <1>6 DEF LastPage
  <2>3. (next.page - 1) * PageSize = k * PageSize
    BY <1>1, <2>1, PagesAdd
  <2>4. \A c \in Charges : c <= next.start =>
          (next.page - 1) * PageSize + c <= listed \/ next.pending[c] > 0
    BY <1>3, <2>1, <2>3
  <2>5. Stays(r, next)
    BY <1>1, <2>1, <2>2, <2>4 DEF Stays
  <2>6. Become(r, next)
    BY <1>6 DEF FetchPage
  <2> QED
    BY <1>4, <2>5, <2>6, OneSyncMoves
<1> QED
  BY <1>5, <1>6

-----------------------------------------------------------------------------

\* A successful charge that is verified by reference comes back as itself.
LEMMA VerifiedIsItself ==
  ASSUME NEW c \in Successful, c <= listed, listed \in Nat, NEW d \in Verified(c)
  PROVE  d = c
<1> DEFINE attempts == {e \in 1..listed : Ref[e] = Ref[c]}
<1>1. c \in Charges /\ c \in 1..listed
  BY ChargeAssumption DEF Charges
<1>2. c \in attempts \cap Successful
  BY <1>1
<1>3. d \in attempts \cap Successful
  BY <1>2 DEF Verified
<1> QED
  BY <1>3, ChargeAssumption

LEMMA HydrateTracked ==
  ASSUME Tracked, NEW r \in Syncs, Hydrate(r)
  PROVE  Tracked'
<1>1. /\ sync[r] \in Sync /\ listed \in Nat /\ listed <= MaxListed /\ MaxListed \in Nat
      /\ sync[r].pc = "process" /\ sync[r].page \in 1..MaxPages
      /\ sync[r].start <= listed /\ sync[r].start \in Nat
  BY SizeAssumption DEF Tracked, TypeOK, Shape, Hydrate, At, Sync
<1>2. PICK c \in Charges :
        /\ sync[r].pending[c] > 0
        /\ \E d \in IF c \in Complete THEN {c} ELSE {c} \cup Verified(c),
              purpose \in IF c \in Complete THEN {TRUE} ELSE BOOLEAN :
             Become(r, [sync[r] EXCEPT !.pc = "item", !.pending = Without(@, c),
                                       !.item = d, !.purpose = purpose])
  BY DEF Hydrate
<1>3. PICK d \in {c} \cup Verified(c) : \E purpose \in BOOLEAN :
        Become(r, [sync[r] EXCEPT !.pc = "item", !.pending = Without(@, c),
                                  !.item = d, !.purpose = purpose])
  BY <1>2
<1>4. PICK purpose \in BOOLEAN :
        Become(r, [sync[r] EXCEPT !.pc = "item", !.pending = Without(@, c),
                                  !.item = d, !.purpose = purpose])
  BY <1>3
<1> DEFINE pending == Without(sync[r].pending, c)
           s == [sync[r] EXCEPT !.pc = "item", !.pending = pending,
                                !.item = d, !.purpose = purpose]
<1>5. d \in Charges /\ d \in Nat
  BY <1>1 DEF Verified, Charges
<1>6. pending \in [Charges -> Nat]
  BY <1>1, <1>2 DEF Sync, Without
<1>7. /\ s \in Sync /\ s.pc = "item" /\ s.page = sync[r].page /\ s.start = sync[r].start
      /\ s.item = d /\ s.pending = pending /\ s.report = sync[r].report
  <2> HIDE DEF pending
  <2> QED
    BY <1>1, <1>5, <1>6 DEF Sync
<1>8. ASSUME listed <= MaxPages * PageSize, NEW e \in Successful, e <= s.start
      PROVE  s.pending[e] > 0 \/ s.item = e \/ Settled(r, e)
  <2>1. sync[r].pending[e] > 0 \/ Settled(r, e)
    BY <1>1, <1>7, <1>8 DEF Tracked, Kept, Handling
  <2>2. CASE e = c
    <3>1. d = c
      BY <1>1, <1>3, <1>7, <1>8, <2>2, VerifiedIsItself, ChargeAssumption DEF Charges
    <3> QED
      BY <1>7, <2>2, <3>1
  <2>3. CASE e # c
    BY <1>1, <1>7, <2>1, <2>3, ChargeAssumption DEF Without, Sync
  <2> QED
    BY <2>2, <2>3
<1>9. Stays(r, s)
  BY <1>1, <1>5, <1>7, <1>8 DEF Stays, Settled, Hydrate
<1>10. Become(r, s)
  BY <1>4
<1> QED
  BY <1>9, <1>10, OneSyncMoves DEF Hydrate, Tracked, TypeOK

\* An entry of the summary settles the charge, unless it says "recorded" or
\* "synced"; a recorded charge is not successful, a synced one is granted.
LEMMA ReportTracked ==
  ASSUME Tracked, NEW r \in Syncs, Handling(r), NEW status \in Reports, Report(r, status),
         UNCHANGED <<listed, started>>, granted \subseteq granted', granted' \subseteq Charges,
         \/ status \in {"skipped", "failed"}
         \/ sync[r].item \notin Successful
         \/ sync[r].item \in granted'
  PROVE  Tracked'
<1> DEFINE report == Items(r, status)
           s == [sync[r] EXCEPT !.pc = "process", !.report = report]
<1>1. /\ sync[r] \in Sync /\ sync[r].item \in Charges
      /\ sync[r].page \in 1..MaxPages /\ sync[r].start <= listed
  BY DEF Tracked, TypeOK, Shape
<1>2. report \in SUBSET (Charges \X Reports)
  BY <1>1 DEF Items, Sync
<1>3. /\ s \in Sync /\ s.pc = "process" /\ s.page = sync[r].page /\ s.start = sync[r].start
      /\ s.pending = sync[r].pending /\ s.report = report
  <2> HIDE DEF report
  <2> QED
    BY <1>1, <1>2 DEF Sync
<1>4. sync[r].report \subseteq report /\ <<sync[r].item, status>> \in report
  BY DEF Items
<1>5. ASSUME listed <= MaxPages * PageSize, NEW c \in Successful, c <= s.start
      PROVE  \/ s.pending[c] > 0
             \/ c \in granted'
             \/ \E st \in {"skipped", "failed"} : <<c, st>> \in s.report
  <2>1. sync[r].pending[c] > 0 \/ sync[r].item = c \/ Settled(r, c)
    BY <1>3, <1>5 DEF Tracked, Kept, Handling
  <2> HIDE DEF report, s
  <2> QED
    BY <1>3, <1>4, <2>1 DEF Settled
<1>6. Stays(r, s)
  BY <1>1, <1>3, <1>5 DEF Stays
<1>7. Become(r, s)
  BY DEF Report
<1> QED
  BY <1>6, <1>7, OneSyncMoves DEF Tracked, TypeOK

LEMMA RecordFailedTracked ==
  ASSUME Tracked, NEW r \in Syncs, RecordFailed(r)
  PROVE  Tracked'
<1>1. Handling(r) /\ sync[r].item \notin Successful
  BY DEF RecordFailed, Handling, At
<1>2. PICK status \in Reports : Report(r, status)
  BY DEF RecordFailed, Reports
<1> QED
  BY <1>1, <1>2, ReportTracked DEF RecordFailed, Tracked, TypeOK

LEMMA LookUpTracked ==
  ASSUME Tracked, NEW r \in Syncs, LookUp(r)
  PROVE  Tracked'
<1>1. Handling(r) /\ sync[r].item \in Successful /\ granted' = granted /\ granted \subseteq Charges
  BY DEF LookUp, Handling, At, Tracked, TypeOK
<1>2. CASE Report(r, "skipped") \/ Report(r, "failed")
  <2>1. PICK status \in {"skipped", "failed"} : Report(r, status)
    BY <1>2
  <2> QED
    BY <1>1, <2>1, ReportTracked DEF LookUp, Reports
<1>3. CASE Become(r, [sync[r] EXCEPT !.pc = "fulfil"])
  <2> DEFINE s == [sync[r] EXCEPT !.pc = "fulfil"]
  <2>1. sync[r] \in Sync /\ sync[r].page \in 1..MaxPages /\ sync[r].start <= listed
    BY DEF Tracked, TypeOK, Shape
  <2>2. /\ s \in Sync /\ s.pc = "fulfil" /\ s.page = sync[r].page /\ s.start = sync[r].start
        /\ s.pending = sync[r].pending /\ s.item = sync[r].item /\ s.report = sync[r].report
    BY <2>1 DEF Sync
  <2>3. ASSUME listed <= MaxPages * PageSize, NEW c \in Successful, c <= s.start
        PROVE  s.pending[c] > 0 \/ s.item = c \/ Settled(r, c)
    BY <1>1, <2>2, <2>3 DEF Tracked, Kept, Handling
  <2>4. Stays(r, s)
    <3> HIDE DEF s
    <3> QED
      BY <1>1, <2>1, <2>2, <2>3, ChargeAssumption DEF Stays, Settled
  <2> QED
    BY <1>1, <1>3, <2>4, OneSyncMoves DEF LookUp, Tracked, TypeOK
<1> QED
  BY <1>2, <1>3 DEF LookUp

LEMMA FulfilTracked ==
  ASSUME Tracked, NEW r \in Syncs, Fulfil(r)
  PROVE  Tracked'
<1>1. Handling(r) /\ sync[r].item \in Charges /\ granted \subseteq Charges
  BY DEF Fulfil, Handling, At, Tracked, TypeOK, Shape
<1>2. granted \subseteq granted' /\ granted' \subseteq Charges
  BY <1>1 DEF Fulfil
<1>3. PICK status \in {"skipped", "failed", "synced"} :
        Report(r, status) /\ (status = "synced" => sync[r].item \in granted')
  BY DEF Fulfil
<1> QED
  BY <1>1, <1>2, <1>3, ReportTracked DEF Fulfil, Reports

-----------------------------------------------------------------------------

\* The list grows and other doors grant: nothing a sync has tracked is lost.
LEMMA OthersTracked ==
  ASSUME Tracked, Pay \/ \E c \in Successful : OtherDoor(c)
  PROVE  Tracked'
<1>1. /\ listed \in Nat /\ listed' \in 0..MaxListed /\ listed <= listed'
      /\ sync' = sync /\ started' = started
      /\ granted \subseteq granted' /\ granted' \subseteq Charges
  BY SizeAssumption, ChargeAssumption DEF Tracked, TypeOK, Pay, OtherDoor
<1>2. TypeOK'
  BY <1>1 DEF Tracked, TypeOK
<1>3. \A r \in Syncs : sync[r].start \in Nat /\ sync[r].page \in Nat
  BY DEF Tracked, TypeOK, Sync
<1>4. Shape'
  BY <1>1, <1>3 DEF Tracked, Shape, Handling, At
<1>5. Fetched'
  <2> SUFFICES ASSUME NEW r \in Syncs, At(r, "fetch"), NEW c \in Charges, c <= sync[r].start
               PROVE  (sync[r].page - 1) * PageSize + c <= listed' \/ sync[r].pending[c] > 0
    BY <1>1 DEF Fetched, At
  <2>1. (sync[r].page - 1) * PageSize + c <= listed \/ sync[r].pending[c] > 0
    BY DEF Tracked, Fetched
  <2>2. sync[r].page \in Nat \ {0} /\ c \in Nat
    BY SizeAssumption DEF Tracked, Shape, Charges
  <2>3. (sync[r].page - 1) * PageSize \in Nat
    BY <2>2, PagesAdd
  <2> QED
    BY <1>1, <2>1, <2>2, <2>3
<1>6. Kept'
  <2> SUFFICES ASSUME NEW r \in Syncs, sync[r].pc \in {"process", "item", "fulfil"},
                      listed' <= MaxPages * PageSize,
                      NEW c \in Successful, c <= sync[r].start
               PROVE  \/ sync[r].pending[c] > 0
                      \/ Handling(r) /\ sync[r].item = c
                      \/ Settled(r, c)'
    BY <1>1 DEF Kept, Handling
  <2>1. MaxPages * PageSize \in Nat
    BY SizeAssumption, PagesAdd
  <2>2. listed <= MaxPages * PageSize
    BY <1>1, <2>1
  <2> QED
    BY <1>1, <2>2 DEF Tracked, Kept, Settled
<1> QED
  BY <1>2, <1>4, <1>5, <1>6 DEF Tracked

LEMMA NextTracked == Tracked /\ [Next]_vars => Tracked'
<1> SUFFICES ASSUME Tracked, [Next]_vars PROVE Tracked'
  OBVIOUS
<1>1. CASE UNCHANGED vars
  BY <1>1 DEF vars, Tracked, TypeOK, Shape, Fetched, Kept, Handling, At, Settled
<1>2. ASSUME NEW r \in Syncs, Start(r) \/ Proceed(r) \/ Fail(r) PROVE Tracked'
  <2>1. ASSUME Finish(r) \/ Fail(r) PROVE Tracked'
    BY <2>1, FreshStays, OneSyncMoves DEF Finish, Fail, Tracked, TypeOK
  <2> QED
    BY <1>2, <2>1, StartTracked, FetchPageTracked, HydrateTracked, RecordFailedTracked,
       LookUpTracked, FulfilTracked DEF Proceed
<1> QED
  BY <1>1, <1>2, OthersTracked DEF Next

\* What the runs check, from the invariant.
LEMMA TrackedIsSafe == Tracked => TypeOK /\ NoneLeftBehind
<1> SUFFICES ASSUME Tracked PROVE NoneLeftBehind
  BY DEF Tracked
<1> SUFFICES ASSUME NEW r \in Syncs, Handled(r), listed <= MaxPages * PageSize,
                      NEW c \in Successful, c <= sync[r].start
               PROVE  Settled(r, c)
  BY DEF NoneLeftBehind
<1>1. sync[r].pending[c] = 0
  BY ChargeAssumption DEF Handled
<1> QED
  BY <1>1 DEF Tracked, Kept, Handled, Handling, At

\* The variables keep their types, for every number of charges and syncs.
THEOREM SyncTypes == Spec => []TypeOK
<1> QED
  BY InitTracked, NextTracked, TrackedIsSafe, PTL DEF Spec

\* A completed sync accounts for every payment that was there when it began:
\* paging over a list that grows loses none.
THEOREM SyncLeavesNoneBehind == Spec => []NoneLeftBehind
<1> QED
  BY InitTracked, NextTracked, TrackedIsSafe, PTL DEF Spec

=============================================================================
