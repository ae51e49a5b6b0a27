------------------------- MODULE AccessCodesProofs --------------------------
(***************************************************************************)
(* What AccessCodes keeps true for every set of codes, students and        *)
(* concurrent requests.                                                    *)
(*                                                                         *)
(* A redeemed code is safe because its row is locked while it is unused:   *)
(* Held says that a redemption in flight has its code locked, unused and   *)
(* for itself alone.  An export is safe because what it selected cannot    *)
(* become absent again: Selected says so.                                  *)
(***************************************************************************)
EXTENDS AccessCodes, FiniteSetTheorems, TLAPS

LEMMA Sizes ==
  /\ PreviewLimit \in Nat /\ MaxRequests \in Nat
  /\ BatchSize \in Nat /\ MaxCount \in Nat /\ MaxAttempts \in Nat
  /\ None \notin Students
  BY SizeAssumption

LEMMA MinNat ==
  ASSUME NEW m \in Nat, NEW n \in Nat
  PROVE  Min({m, n}) \in Nat
<1>1. CASE m <= n
  <2>1. \E x \in {m, n} : \A y \in {m, n} : x <= y
    BY <1>1
  <2>2. QED
    BY <2>1 DEF Min
<1>2. CASE n <= m
  <2>1. \E x \in {m, n} : \A y \in {m, n} : x <= y
    BY <1>2
  <2>2. QED
    BY <2>1 DEF Min
<1>3. QED
  BY <1>1, <1>2

LEMMA CountNat ==
  ASSUME NEW picked \in SUBSET Codes
  PROVE  Cardinality(Absent(picked)) \in Nat
<1>1. IsFiniteSet(Codes)
  BY SizeAssumption
<1>2. Absent(picked) \subseteq Codes
  BY DEF Absent
<1>3. QED
  BY <1>1, <1>2, FS_Subset, FS_CardinalityType

\* The other requests stay as they are.
LEMMA BecomeFacts ==
  ASSUME TypeOK, NEW r \in Requests, NEW x, Become(r, x)
  PROVE  req'[r] = x /\ \A q \in Requests \ {r} : req'[q] = req[q]
  BY DEF Become, TypeOK

LEMMA BecomeType ==
  ASSUME TypeOK, NEW r \in Requests, NEW x \in Request, Become(r, x)
  PROVE  req' \in [Requests -> Request]
  BY DEF Become, TypeOK

LEMMA RequestType ==
  ASSUME TypeOK, NEW r \in Requests
  PROVE  /\ req[r] \in Request /\ Picked(r) \in SUBSET Codes
         /\ req[r].want \in Nat /\ req[r].got \in Nat /\ req[r].misses \in Nat
         /\ req[r].student \in Students \cup {None}
  BY DEF TypeOK, Request, Picked

LEMMA NoRequestType == NoRequest \in Request
  BY DEF NoRequest, Request, Steps

-----------------------------------------------------------------------------
(* What becomes of a request.                                              *)

\* A request that holds no row and has selected nothing for an export.
Quiet(x) ==
  /\ x \in Request
  /\ x.pc \notin {"redeem", "mark"}
  /\ x.pc \in {"insertOne", "lock"} => \E c \in Codes : x.picked = {c}
  /\ x.pc = "lock" => x.student \in Students

LEMMA NoRequestQuiet == Quiet(NoRequest)
  BY NoRequestType DEF Quiet, NoRequest

LEMMA ArriveQuiet ==
  ASSUME TypeOK, NEW r \in Requests, Arrive(r)
  PROVE  /\ \E x : Quiet(x) /\ Become(r, x)
         /\ UNCHANGED <<state, student, opens, exported, handed, locked, reported>>
         /\ accepted' \in 0..MaxRequests
<1>1. ASSUME NEW x, Accept(r, x)
      PROVE  /\ Become(r, x) /\ accepted' \in 0..MaxRequests
             /\ UNCHANGED <<state, student, opens, exported, handed, locked, reported>>
  BY <1>1, Sizes DEF Accept, TypeOK
<1>2. ASSUME NEW count \in 1..(MaxCount + 1), Generate(r, count)
      PROVE  \E x : Quiet(x) /\ Accept(r, x)
  <2> DEFINE want == Min({count, MaxCount})
             x == [NoRequest EXCEPT !.want = want,
                     !.pc = IF want <= PreviewLimit THEN "pickOne" ELSE "pickBatch"]
  <2>1. want \in Nat
    BY MinNat, Sizes
  <2>2. Quiet(x)
    BY <2>1, NoRequestType DEF Quiet, NoRequest, Request, Steps
  <2>3. QED
    BY <1>2, <2>2 DEF Generate
<1>3. ASSUME NEW count \in 1..MaxCount, ExportReady(r, count)
      PROVE  \E x : Quiet(x) /\ Accept(r, x)
  <2>1. count \in Nat
    BY Sizes
  <2>2. Quiet([NoRequest EXCEPT !.pc = "select", !.want = count])
    BY <2>1, NoRequestType DEF Quiet, NoRequest, Request, Steps
  <2>3. QED
    BY <1>3, <2>2 DEF ExportReady
<1>4. ASSUME NEW s \in Students, NEW c \in Codes, Redeem(r, s, c)
      PROVE  \E x : Quiet(x) /\ Accept(r, x)
  <2>1. Quiet([NoRequest EXCEPT !.pc = "lock", !.picked = {c}, !.student = s])
    BY DEF Quiet, NoRequest, Request, Steps
  <2>2. QED
    BY <1>4, <2>1 DEF Redeem
<1>5. QED
  BY <1>1, <1>2, <1>3, <1>4 DEF Arrive

LEMMA MissQuiet ==
  ASSUME TypeOK, NEW r \in Requests, NEW step \in {"pickOne", "pickBatch"}, Miss(r, step)
  PROVE  \E x : Quiet(x) /\ Become(r, x)
<1> DEFINE x == [req[r] EXCEPT !.pc = step, !.misses = req[r].misses + 1, !.picked = {}]
<1>1. Quiet(x)
  <2>1. req[r] \in Request /\ req[r].misses + 1 \in Nat /\ step \in Steps
    BY RequestType DEF Steps
  <2>2. x \in Request
    BY <2>1 DEF Request
  <2>3. x.pc = step
    BY <2>1 DEF Request
  <2>4. QED
    BY <2>2, <2>3 DEF Quiet
<1>2. CASE Finish(r)
  BY <1>2, NoRequestQuiet DEF Finish
<1>3. CASE Become(r, x)
  BY <1>1, <1>3
<1>4. QED
  BY <1>2, <1>3 DEF Miss

LEMMA HitQuiet ==
  ASSUME TypeOK, NEW r \in Requests, NEW step \in {"pickOne", "pickBatch"},
         NEW n \in Nat, Hit(r, step, n)
  PROVE  \E x : Quiet(x) /\ Become(r, x)
<1> DEFINE x == [req[r] EXCEPT !.pc = step, !.got = req[r].got + n, !.misses = 0, !.picked = {}]
<1>1. Quiet(x)
  <2>1. req[r] \in Request /\ req[r].got + n \in Nat /\ step \in Steps
    BY RequestType DEF Steps
  <2>2. x \in Request
    BY <2>1 DEF Request
  <2>3. x.pc = step
    BY <2>1 DEF Request
  <2>4. QED
    BY <2>2, <2>3 DEF Quiet
<1>2. CASE Finish(r)
  BY <1>2, NoRequestQuiet DEF Finish
<1>3. CASE Become(r, x)
  BY <1>1, <1>3
<1>4. QED
  BY <1>2, <1>3 DEF Hit

LEMMA PickQuiet ==
  ASSUME TypeOK, NEW r \in Requests, PickOne(r) \/ PickBatch(r)
  PROVE  \E x : Quiet(x) /\ Become(r, x)
<1>1. ASSUME NEW c \in Codes, Become(r, [req[r] EXCEPT !.pc = "insertOne", !.picked = {c}])
      PROVE  \E x : Quiet(x) /\ Become(r, x)
  <2>1. Quiet([req[r] EXCEPT !.pc = "insertOne", !.picked = {c}])
    BY RequestType DEF Quiet, Request, Steps
  <2>2. QED
    BY <1>1, <2>1
<1>2. ASSUME NEW drawn \in SUBSET Codes,
             Become(r, [req[r] EXCEPT !.pc = "insertBatch", !.picked = Absent(drawn)])
      PROVE  \E x : Quiet(x) /\ Become(r, x)
  <2>1. Quiet([req[r] EXCEPT !.pc = "insertBatch", !.picked = Absent(drawn)])
    BY RequestType DEF Quiet, Request, Steps, Absent
  <2>2. QED
    BY <1>2, <2>1
<1>3. CASE PickOne(r)
  BY <1>1, <1>3, MissQuiet DEF PickOne
<1>4. CASE PickBatch(r)
  <2>1. PICK drawn \in SUBSET Codes :
          IF Absent(drawn) = {}
          THEN Miss(r, "pickBatch")
          ELSE Become(r, [req[r] EXCEPT !.pc = "insertBatch", !.picked = Absent(drawn)])
    BY <1>4 DEF PickBatch, kSubset
  <2>2. QED
    BY <1>2, <2>1, MissQuiet
<1>5. QED
  BY <1>3, <1>4

LEMMA InsertQuiet ==
  ASSUME TypeOK, NEW r \in Requests, InsertOne(r) \/ InsertBatch(r)
  PROVE  \E x : Quiet(x) /\ Become(r, x)
<1>1. CASE InsertOne(r)
  BY <1>1, NoRequestQuiet, HitQuiet DEF InsertOne, Finish
<1>2. CASE InsertBatch(r)
  <2>1. AffectedRows(Picked(r)) \in Nat
    BY CountNat, RequestType DEF AffectedRows
  <2>2. QED
    BY <1>2, <2>1, MissQuiet, HitQuiet DEF InsertBatch
<1>3. QED
  BY <1>1, <1>2

-----------------------------------------------------------------------------
(* The inductive invariant.                                                *)

\* What a request carries at each step.
Shape == \A r \in Requests :
  /\ req[r].pc \in {"insertOne", "lock", "redeem"} => \E c \in Codes : Picked(r) = {c}
  /\ req[r].pc \in {"lock", "redeem"} => req[r].student \in Students

\* A redemption has its code locked, unused, and for itself alone.
Held ==
  /\ \A r \in Requests : req[r].pc = "redeem" =>
       Picked(r) \subseteq locked /\ \A c \in Picked(r) : state[c] = "unused"
  /\ \A r, q \in Requests :
       r # q /\ req[r].pc = "redeem" /\ req[q].pc = "redeem" => Picked(r) \cap Picked(q) = {}

\* An export selects, and has handed out, codes that were there.
Selected ==
  /\ \A r \in Requests : req[r].pc = "mark" => \A c \in Picked(r) : state[c] # "absent"
  /\ \A c \in Codes : handed[c] > 0 => state[c] # "absent"

Inventory ==
  /\ TypeOK /\ Shape /\ Held /\ Selected
  /\ AccountsKeepTheirCode /\ HandedOutIsMarked

LEMMA InitInventory == Init => Inventory
<1> SUFFICES ASSUME Init PROVE Inventory
  OBVIOUS
<1>1. TypeOK
  BY NoRequestType, Sizes DEF Init, TypeOK, States
<1>2. Shape /\ Held /\ Selected
  BY DEF Init, Shape, Held, Selected, NoRequest
<1>3. AccountsKeepTheirCode /\ HandedOutIsMarked
  BY DEF Init, AccountsKeepTheirCode, HandedOutIsMarked
<1>4. QED
  BY <1>1, <1>2, <1>3 DEF Inventory

\* Codes appear; nothing else happens to them.
CodesAppear ==
  \A c \in Codes : /\ state[c] # "absent" => state'[c] = state[c]
                   /\ state[c] = "absent" => state'[c] \in {"absent", "unused"}

\* A step after which its request holds nothing and the others hold what they
\* held.
LEMMA QuietStep ==
  ASSUME Inventory, NEW r \in Requests, NEW x, Quiet(x), Become(r, x),
         state' \in [Codes -> States], CodesAppear,
         UNCHANGED <<student, opens, exported, handed>>,
         locked' \in SUBSET Codes,
         \A q \in Requests \ {r} : req[q].pc = "redeem" => Picked(q) \subseteq locked',
         reported' \in Nat, accepted' \in 0..MaxRequests
  PROVE  Inventory'
<1>1. req'[r] = x /\ \A q \in Requests \ {r} : req'[q] = req[q]
  BY BecomeFacts DEF Inventory
<1>2. TypeOK'
  BY BecomeType DEF Quiet, Inventory, TypeOK
<1>3. Shape'
  BY <1>1 DEF Quiet, Inventory, Shape, Picked
<1>4. Held'
  <2>1. ASSUME NEW q \in Requests, req'[q].pc = "redeem"
        PROVE  q # r /\ req'[q] = req[q] /\ req[q].pc = "redeem"
    BY <1>1, <2>1 DEF Quiet
  <2>2. ASSUME NEW q \in Requests, req'[q].pc = "redeem"
        PROVE  /\ Picked(q)' \subseteq locked'
               /\ \A c \in Picked(q)' : state'[c] = "unused"
    BY <2>1, <2>2, RequestType DEF Inventory, Held, CodesAppear, Picked
  <2>3. QED
    BY <2>1, <2>2 DEF Inventory, Held, Picked
<1>5. Selected'
  <2>1. \A c \in Codes : state[c] # "absent" => state'[c] # "absent"
    BY DEF CodesAppear
  <2>2. ASSUME NEW q \in Requests, req'[q].pc = "mark", NEW c \in Picked(q)'
        PROVE  state'[c] # "absent"
    <3>1. q # r /\ req'[q] = req[q]
      BY <1>1, <2>2 DEF Quiet
    <3>2. QED
      BY <2>1, <2>2, <3>1, RequestType DEF Inventory, Selected, Picked
  <2>3. QED
    BY <2>1, <2>2 DEF Inventory, Selected
<1>6. AccountsKeepTheirCode' /\ HandedOutIsMarked'
  BY DEF Inventory, AccountsKeepTheirCode, HandedOutIsMarked, CodesAppear, Selected,
         TypeOK
<1>7. QED
  BY <1>2, <1>3, <1>4, <1>5, <1>6 DEF Inventory
-----------------------------------------------------------------------------
(* Every step keeps the invariant.                                         *)

LEMMA SameState ==
  ASSUME Inventory, UNCHANGED <<state, locked>>, NEW r \in Requests
  PROVE  /\ state' \in [Codes -> States] /\ CodesAppear
         /\ locked' \in SUBSET Codes
         /\ \A q \in Requests \ {r} : req[q].pc = "redeem" => Picked(q) \subseteq locked'
  BY DEF Inventory, TypeOK, Held, CodesAppear

LEMMA InsertStep ==
  ASSUME Inventory, NEW r \in Requests, InsertOne(r) \/ InsertBatch(r)
  PROVE  Inventory'
<1>1. PICK x : Quiet(x) /\ Become(r, x)
  BY InsertQuiet DEF Inventory
<1>2. UNCHANGED <<student, opens, exported, handed, locked, accepted>>
  BY DEF InsertOne, InsertBatch
<1>3. /\ locked' \in SUBSET Codes /\ accepted' \in 0..MaxRequests
      /\ \A q \in Requests \ {r} : req[q].pc = "redeem" => Picked(q) \subseteq locked'
  BY <1>2 DEF Inventory, TypeOK, Held
<1>4. state' \in [Codes -> States] /\ CodesAppear
  <2>1. CASE InsertOne(r)
    <3>1. \E c \in Codes : Picked(r) = {c}
      BY <2>1 DEF Inventory, Shape, InsertOne, At
    <3>2. QED
      BY <2>1, <3>1 DEF InsertOne, Inventory, TypeOK, CodesAppear, States, Absent
  <2>2. CASE InsertBatch(r)
    BY <2>2 DEF InsertBatch, Inventory, TypeOK, CodesAppear, States, Absent
  <2>3. QED
    BY <2>1, <2>2
<1>5. reported' \in Nat
  <2>1. AffectedRows(Picked(r)) \in Nat
    BY CountNat, RequestType DEF AffectedRows, Inventory
  <2>2. QED
    BY <2>1 DEF InsertOne, InsertBatch, Inventory, TypeOK
<1>6. QED
  BY <1>1, <1>2, <1>3, <1>4, <1>5, QuietStep

LEMMA LockStep ==
  ASSUME Inventory, NEW r \in Requests, LockCode(r)
  PROVE  Inventory'
<1>1. UNCHANGED <<state, student, opens, exported, handed, reported, accepted>>
  BY DEF LockCode
<1>2. CASE Finish(r) /\ UNCHANGED locked
  BY <1>1, <1>2, NoRequestQuiet, SameState, QuietStep DEF Finish, Inventory, TypeOK
<1>3. CASE /\ \A c \in Picked(r) : state[c] = "unused"
           /\ locked' = locked \cup Picked(r)
           /\ Become(r, [req[r] EXCEPT !.pc = "redeem"])
  <2> DEFINE x == [req[r] EXCEPT !.pc = "redeem"]
  <2>1. req'[r] = x /\ \A q \in Requests \ {r} : req'[q] = req[q]
    BY <1>3, BecomeFacts DEF Inventory
  <2>2. /\ req[r].pc = "lock" /\ req[r].student \in Students
        /\ \E c \in Codes : Picked(r) = {c}
    BY DEF LockCode, At, Inventory, Shape
  <2>3. /\ x \in Request /\ x.pc = "redeem" /\ x.picked = Picked(r)
        /\ x.student = req[r].student
    BY RequestType DEF Request, Steps, Inventory, Picked
  <2> HIDE DEF x
  <2>4. TypeOK'
    BY <1>1, <1>3, <2>3, BecomeType, RequestType DEF Inventory, TypeOK, x
  <2>5. Shape'
    BY <2>1, <2>2, <2>3 DEF Inventory, Shape, Picked
  <2>6. Held'
    <3>1. \A q \in Requests : Picked(q)' = Picked(q)
      BY <2>1, <2>3 DEF Picked
    <3>2. Picked(r) \cap locked = {}
      BY DEF LockCode
    <3>3. \A q \in Requests \ {r} : req'[q].pc = "redeem" =>
            Picked(q) \subseteq locked /\ \A c \in Picked(q) : state[c] = "unused"
      BY <2>1 DEF Inventory, Held
    <3>4. \A p, q \in Requests \ {r} : p # q /\ req'[p].pc = "redeem" /\ req'[q].pc = "redeem"
            => Picked(p) \cap Picked(q) = {}
      BY <2>1 DEF Inventory, Held
    <3>5. QED
      BY <1>1, <1>3, <3>1, <3>2, <3>3, <3>4 DEF Held
  <2>7. Selected'
    BY <1>1, <2>1, <2>3 DEF Inventory, Selected, Picked
  <2>8. AccountsKeepTheirCode' /\ HandedOutIsMarked'
    BY <1>1 DEF Inventory, AccountsKeepTheirCode, HandedOutIsMarked
  <2>9. QED
    BY <2>4, <2>5, <2>6, <2>7, <2>8 DEF Inventory
<1>4. QED
  BY <1>2, <1>3 DEF LockCode, Locks

LEMMA RedeemStep ==
  ASSUME Inventory, NEW r \in Requests, CommitRedeem(r)
  PROVE  Inventory'
<1>1. PICK s \in Students, c \in Codes : req[r].student = s /\ Picked(r) = {c}
  BY DEF CommitRedeem, At, Inventory, Shape
<1>2. state[c] = "unused" /\ c \in locked
  BY <1>1 DEF CommitRedeem, At, Inventory, Held
<1>3. UNCHANGED <<exported, handed, reported, accepted>> /\ locked' = locked \ {c} /\ Finish(r)
  BY <1>1 DEF CommitRedeem
<1>4. \A q \in Requests \ {r} : req[q].pc = "redeem" =>
        /\ c \notin Picked(q) /\ Picked(q) \subseteq locked
        /\ \A k \in Picked(q) : state[k] = "unused"
  BY <1>1 DEF CommitRedeem, At, Inventory, Held
<1>5. locked' \in SUBSET Codes
  BY <1>3 DEF Inventory, TypeOK
<1>6. CASE opens[s] # None
  <2>1. UNCHANGED <<state, student, opens>>
    BY <1>1, <1>6 DEF CommitRedeem
  <2>2. /\ state' \in [Codes -> States] /\ CodesAppear
        /\ reported' \in Nat /\ accepted' \in 0..MaxRequests
    BY <1>3, <2>1 DEF Inventory, TypeOK, CodesAppear
  <2>3. QED
    BY <1>3, <1>4, <1>5, <2>1, <2>2, NoRequestQuiet, QuietStep DEF Finish
<1>7. CASE opens[s] = None
  <2>1. /\ state' = [k \in Codes |-> IF k = c THEN "used" ELSE state[k]]
        /\ student' = [k \in Codes |-> IF k = c THEN s ELSE student[k]]
        /\ opens' = [opens EXCEPT ![s] = c]
    BY <1>1, <1>7 DEF CommitRedeem
  <2>2. TypeOK'
    BY <1>3, <1>5, <2>1, NoRequestType, BecomeType DEF Finish, Inventory, TypeOK, States
  <2>3. req'[r] = NoRequest /\ \A q \in Requests \ {r} : req'[q] = req[q]
    BY <1>3, BecomeFacts DEF Inventory, Finish
  <2>4. Shape'
    BY <2>3 DEF Inventory, Shape, Picked, NoRequest
  <2>5. Held'
    <3>1. \A q \in Requests : req'[q].pc = "redeem" =>
            q # r /\ Picked(q)' = Picked(q) /\ req[q].pc = "redeem"
      BY <2>3 DEF NoRequest, Picked
    <3>2. ASSUME NEW q \in Requests, req'[q].pc = "redeem"
          PROVE  /\ Picked(q)' \subseteq locked'
                 /\ \A k \in Picked(q)' : state'[k] = "unused"
      BY <1>3, <1>4, <2>1, <3>1, <3>2, RequestType DEF Inventory
    <3>3. QED
      BY <3>1, <3>2 DEF Inventory, Held
  <2>6. Selected'
    <3>1. \A k \in Codes : state[k] # "absent" => state'[k] # "absent"
      BY <2>1
    <3>2. \A q \in Requests : req'[q].pc = "mark" =>
            q # r /\ Picked(q)' = Picked(q) /\ req[q].pc = "mark"
      BY <2>3 DEF NoRequest, Picked
    <3>3. QED
      BY <1>3, <3>1, <3>2, RequestType DEF Inventory, Selected
  <2>7. AccountsKeepTheirCode'
    BY <1>2, <2>1 DEF Inventory, AccountsKeepTheirCode, TypeOK
  <2>8. HandedOutIsMarked'
    BY <1>2, <1>3, <2>1 DEF Inventory, HandedOutIsMarked
  <2>9. QED
    BY <2>2, <2>4, <2>5, <2>6, <2>7, <2>8 DEF Inventory
<1>8. QED
  BY <1>6, <1>7
LEMMA SelectStep ==
  ASSUME Inventory, NEW r \in Requests, SelectReady(r)
  PROVE  Inventory'
<1>1. UNCHANGED <<state, student, opens, exported, handed, locked, reported, accepted>>
  BY DEF SelectReady
<1>2. PICK picked \in SUBSET Ready :
        IF picked = {}
        THEN Finish(r)
        ELSE Become(r, [req[r] EXCEPT !.pc = "mark", !.picked = picked])
  BY DEF SelectReady, kSubset
<1>3. CASE picked = {}
  BY <1>1, <1>2, <1>3, NoRequestQuiet, SameState, QuietStep DEF Finish, Inventory, TypeOK
<1>4. CASE picked # {}
  <2> DEFINE x == [req[r] EXCEPT !.pc = "mark", !.picked = picked]
  <2>1. Become(r, x)
    BY <1>2, <1>4
  <2>2. picked \in SUBSET Codes /\ \A c \in picked : state[c] # "absent"
    BY DEF Ready
  <2>3. x \in Request /\ x.pc = "mark" /\ x.picked = picked
    BY <2>2, RequestType DEF Request, Steps, Inventory
  <2> HIDE DEF x
  <2>4. req'[r] = x /\ \A q \in Requests \ {r} : req'[q] = req[q]
    BY <2>1, BecomeFacts DEF Inventory
  <2>5. TypeOK'
    BY <1>1, <2>1, <2>3, BecomeType DEF Inventory, TypeOK
  <2>6. Shape' /\ Held'
    BY <1>1, <2>3, <2>4 DEF Inventory, Shape, Held, Picked
  <2>7. Selected'
    BY <1>1, <2>2, <2>3, <2>4 DEF Inventory, Selected, Picked
  <2>8. AccountsKeepTheirCode' /\ HandedOutIsMarked'
    BY <1>1 DEF Inventory, AccountsKeepTheirCode, HandedOutIsMarked
  <2>9. QED
    BY <2>5, <2>6, <2>7, <2>8 DEF Inventory
<1>5. QED
  BY <1>3, <1>4

LEMMA MarkStep ==
  ASSUME Inventory, NEW r \in Requests, MarkSelected(r)
  PROVE  Inventory'
<1>1. /\ UNCHANGED <<state, student, opens, locked, reported, accepted>> /\ Finish(r)
      /\ exported' = exported \cup {c \in Picked(r) : state[c] # "deleted"}
      /\ handed' = [c \in Codes |-> IF c \in Picked(r) THEN handed[c] + 1 ELSE handed[c]]
  BY DEF MarkSelected, Marks
<1>2. Picked(r) \in SUBSET Codes /\ \A c \in Picked(r) : state[c] # "absent"
  BY RequestType DEF MarkSelected, At, Inventory, Selected
<1>3. req'[r] = NoRequest /\ \A q \in Requests \ {r} : req'[q] = req[q]
  BY <1>1, BecomeFacts DEF Inventory, Finish
<1>4. handed' \in [Codes -> Nat] /\ exported' \in SUBSET Codes
  BY <1>1, <1>2 DEF Inventory, TypeOK
<1>5. TypeOK'
  BY <1>1, <1>4, NoRequestType, BecomeType DEF Finish, Inventory, TypeOK
<1>6. Shape' /\ Held'
  BY <1>1, <1>3 DEF Inventory, Shape, Held, Picked, NoRequest
<1>7. Selected'
  <2>1. \A q \in Requests : req'[q].pc = "mark" =>
          q # r /\ Picked(q)' = Picked(q) /\ req[q].pc = "mark"
    BY <1>3 DEF NoRequest, Picked
  <2>2. \A c \in Codes : handed'[c] > 0 => handed[c] > 0 \/ c \in Picked(r)
    BY <1>1
  <2>3. QED
    BY <1>1, <1>2, <2>1, <2>2, RequestType DEF Inventory, Selected
<1>8. AccountsKeepTheirCode' /\ HandedOutIsMarked'
  BY <1>1 DEF Inventory, AccountsKeepTheirCode, HandedOutIsMarked
<1>9. QED
  BY <1>5, <1>6, <1>7, <1>8 DEF Inventory

LEMMA MarkExportedStep ==
  ASSUME Inventory, NEW codes \in SUBSET Codes, MarkExported(codes)
  PROVE  Inventory'
<1>1. /\ UNCHANGED <<state, student, opens, handed, locked, req, reported, accepted>>
      /\ exported \subseteq exported' /\ exported' \in SUBSET Codes
  BY DEF MarkExported, Inventory, TypeOK
<1>2. TypeOK'
  BY <1>1 DEF Inventory, TypeOK
<1>3. Shape' /\ Held' /\ Selected'
  BY <1>1 DEF Inventory, Shape, Held, Selected, Picked
<1>4. AccountsKeepTheirCode' /\ HandedOutIsMarked'
  BY <1>1 DEF Inventory, AccountsKeepTheirCode, HandedOutIsMarked
<1>5. QED
  BY <1>2, <1>3, <1>4 DEF Inventory

LEMMA DeleteStep ==
  ASSUME Inventory, NEW codes \in SUBSET Codes, DeleteUnused(codes)
  PROVE  Inventory'
<1>1. UNCHANGED <<student, opens, exported, handed, locked, req, reported, accepted>>
  BY DEF DeleteUnused
<1>2. /\ \A c \in Codes : \/ state'[c] = state[c]
                          \/ /\ state[c] = "unused" /\ state'[c] = "deleted"
                             /\ c \notin locked
                             /\ \A s \in Students : opens[s] # c
      /\ state' \in [Codes -> States]
  BY DEF DeleteUnused, Deletable, Inventory, TypeOK, States
<1>3. TypeOK'
  BY <1>1, <1>2 DEF Inventory, TypeOK
<1>4. Shape'
  BY <1>1 DEF Inventory, Shape, Picked
<1>5. Held'
  <2>1. ASSUME NEW q \in Requests, req[q].pc = "redeem", NEW c \in Picked(q)
        PROVE  state'[c] = "unused"
    BY <1>2, <2>1, RequestType DEF Inventory, Held
  <2>2. QED
    BY <1>1, <2>1 DEF Inventory, Held, Picked
<1>6. Selected'
  <2>1. \A c \in Codes : state[c] # "absent" => state'[c] # "absent"
    BY <1>2
  <2>2. QED
    BY <1>1, <2>1, RequestType DEF Inventory, Selected, Picked
<1>7. AccountsKeepTheirCode' /\ HandedOutIsMarked'
  BY <1>1, <1>2 DEF Inventory, AccountsKeepTheirCode, HandedOutIsMarked, TypeOK
<1>8. QED
  BY <1>3, <1>4, <1>5, <1>6, <1>7 DEF Inventory

LEMMA FailStep ==
  ASSUME Inventory, NEW r \in Requests, Fail(r)
  PROVE  Inventory'
<1>1. /\ UNCHANGED <<state, student, opens, exported, handed, reported, accepted>>
      /\ Become(r, NoRequest)
      /\ locked' = IF req[r].pc = "redeem" THEN locked \ Picked(r) ELSE locked
  BY DEF Fail, Finish, At
<1>2. /\ state' \in [Codes -> States] /\ CodesAppear
      /\ locked' \in SUBSET Codes
      /\ reported' \in Nat /\ accepted' \in 0..MaxRequests
  BY <1>1 DEF Inventory, TypeOK, CodesAppear
<1>3. \A q \in Requests \ {r} : req[q].pc = "redeem" => Picked(q) \subseteq locked'
  BY <1>1 DEF Inventory, Held
<1>4. QED
  BY <1>1, <1>2, <1>3, NoRequestQuiet, QuietStep

LEMMA InventoryStep == Inventory /\ [Next]_vars => Inventory'
<1> SUFFICES ASSUME Inventory, [Next]_vars PROVE Inventory'
  OBVIOUS
<1>1. ASSUME NEW r \in Requests, Arrive(r) PROVE Inventory'
  <2>1. PICK x : Quiet(x) /\ Become(r, x)
    BY <1>1, ArriveQuiet DEF Inventory
  <2>2. /\ UNCHANGED <<state, student, opens, exported, handed, locked, reported>>
        /\ accepted' \in 0..MaxRequests
    BY <1>1, ArriveQuiet DEF Inventory
  <2>3. reported' \in Nat
    BY <2>2 DEF Inventory, TypeOK
  <2>4. QED
    BY <2>1, <2>2, <2>3, SameState, QuietStep
<1>2. ASSUME NEW r \in Requests, PickOne(r) \/ PickBatch(r) PROVE Inventory'
  <2>1. PICK x : Quiet(x) /\ Become(r, x)
    BY <1>2, PickQuiet DEF Inventory
  <2>2. UNCHANGED <<state, student, opens, exported, handed, locked, reported, accepted>>
    BY <1>2 DEF PickOne, PickBatch
  <2>3. reported' \in Nat /\ accepted' \in 0..MaxRequests
    BY <2>2 DEF Inventory, TypeOK
  <2>4. QED
    BY <2>1, <2>2, <2>3, SameState, QuietStep
<1>3. CASE UNCHANGED vars
  BY <1>3 DEF vars, Inventory, TypeOK, Shape, Held, Selected, Picked,
              AccountsKeepTheirCode, HandedOutIsMarked
<1>4. QED
  BY <1>1, <1>2, <1>3, InsertStep, LockStep, RedeemStep, SelectStep, MarkStep,
     MarkExportedStep, DeleteStep, FailStep
  DEF Next, Proceed

LEMMA InventoryAlways == Spec => []Inventory
  BY InitInventory, InventoryStep, PTL DEF Spec

-----------------------------------------------------------------------------
(* The properties.                                                         *)

\* The tables and the handlers keep their types.
THEOREM CodeTypes == Spec => []TypeOK
<1>1. Inventory => TypeOK
  BY DEF Inventory
<1>2. QED
  BY <1>1, InventoryAlways, PTL

\* The code of an account is there, used and its own, because
\* createStudentFromOnboardingPayment locks the row it found unused and
\* buildUnusedDeleteQuery deletes unused rows only.
THEOREM AccountsKeepCodes == Spec => []AccountsKeepTheirCode
<1>1. Inventory => AccountsKeepTheirCode
  BY DEF Inventory
<1>2. QED
  BY <1>1, InventoryAlways, PTL

\* What listUnusedCodesForExport handed out is marked, because the UPDATE goes
\* by id and does not ask whether the code was used in the meantime.
THEOREM HandedOutCodesAreMarked == Spec => []HandedOutIsMarked
<1>1. Inventory => HandedOutIsMarked
  BY DEF Inventory
<1>2. QED
  BY <1>1, InventoryAlways, PTL

UsedStays == \A c \in Codes : state[c] = "used" => UNCHANGED <<state[c], student[c]>>

LEMMA UsedStep == Inventory /\ [Next]_vars => [UsedStays]_vars
<1> SUFFICES ASSUME Inventory, [Next]_vars, NEW c \in Codes, state[c] = "used"
             PROVE  UNCHANGED <<state[c], student[c]>>
  BY DEF UsedStays
<1>1. CASE UNCHANGED <<state, student>>
  BY <1>1
<1>2. ASSUME NEW r \in Requests, InsertOne(r) PROVE UNCHANGED <<state[c], student[c]>>
  <2>1. \E k \in Codes : Picked(r) = {k}
    BY <1>2 DEF Inventory, Shape, InsertOne, At
  <2>2. QED
    BY <1>2, <2>1 DEF InsertOne, Absent, Inventory, TypeOK
<1>3. ASSUME NEW r \in Requests, InsertBatch(r) PROVE UNCHANGED <<state[c], student[c]>>
  BY <1>3 DEF InsertBatch, Absent, Inventory, TypeOK
<1>4. ASSUME NEW r \in Requests, CommitRedeem(r) PROVE UNCHANGED <<state[c], student[c]>>
  <2>1. c \notin Picked(r)
    BY <1>4 DEF CommitRedeem, At, Inventory, Held
  <2>2. QED
    BY <1>4, <2>1 DEF CommitRedeem, Inventory, TypeOK
<1>5. ASSUME NEW codes \in SUBSET Codes, DeleteUnused(codes)
      PROVE  UNCHANGED <<state[c], student[c]>>
  BY <1>5 DEF DeleteUnused, Deletable, Inventory, TypeOK
<1>6. ASSUME NEW r \in Requests, Arrive(r) PROVE UNCHANGED <<state[c], student[c]>>
  BY <1>6, ArriveQuiet DEF Inventory
<1>7. QED
  BY <1>1, <1>2, <1>3, <1>4, <1>5, <1>6
  DEF Next, Proceed, PickOne, PickBatch, LockCode, SelectReady, MarkSelected,
      MarkExported, Fail, vars

\* A used code stays used by the student it opened an account for.
THEOREM UsedCodesStayUsed == Spec => UsedIsForever
<1>1. Spec => [][UsedStays]_vars
  BY InventoryAlways, UsedStep, PTL DEF Spec
<1>2. QED
  BY <1>1 DEF UsedIsForever, UsedStays

-----------------------------------------------------------------------------
(* Counting.                                                               *)

\* The codes that were ever inserted: a deleted one is still counted.
Inserted == {c \in Codes : state[c] # "absent"}

LEMMA ReportedIs == ReportedIsInserted <=> reported = Cardinality(Inserted)
  BY DEF ReportedIsInserted, Inserted

\* Codes that were absent appear, and as many are reported.
LEMMA CountGoesOn ==
  ASSUME Inventory, ReportedIsInserted, NEW picked \in SUBSET Codes,
         \A c \in picked : state[c] = "absent",
         \A c \in Codes : state'[c] = "absent" <=> state[c] = "absent" /\ c \notin picked,
         reported' = reported + Cardinality(picked)
  PROVE  ReportedIsInserted'
<1>1. IsFiniteSet(Inserted) /\ IsFiniteSet(picked)
  <2>1. Inserted \in SUBSET Codes /\ IsFiniteSet(Codes)
    BY SizeAssumption DEF Inserted
  <2>2. QED
    BY <2>1, FS_Subset
<1>2. Inserted \cap picked = {} /\ Inserted' = Inserted \cup picked
  BY DEF Inserted
<1>3. Cardinality(Inserted \cup picked)
        = Cardinality(Inserted) + Cardinality(picked) - Cardinality(Inserted \cap picked)
  BY <1>1, FS_Union
<1>4. Cardinality(Inserted \cap picked) = 0
  BY <1>2, FS_EmptySet
<1>5. Cardinality(Inserted) \in Nat /\ Cardinality(picked) \in Nat
  BY <1>1, FS_CardinalityType
<1>6. reported = Cardinality(Inserted)
  BY ReportedIs
<1>7. reported' = Cardinality(Inserted')
  BY <1>2, <1>3, <1>4, <1>5, <1>6
<1>8. QED
  BY <1>7 DEF ReportedIsInserted, Inserted

\* No code appears, and none is reported.
LEMMA CountStays ==
  ASSUME ReportedIsInserted, reported' = reported,
         \A c \in Codes : state'[c] = "absent" <=> state[c] = "absent"
  PROVE  ReportedIsInserted'
<1>1. Inserted' = Inserted
  BY DEF Inserted
<1>2. QED
  BY <1>1 DEF ReportedIsInserted, Inserted

LEMMA InsertCounts ==
  ASSUME Inventory, ReportedIsInserted, NEW r \in Requests, InsertOne(r) \/ InsertBatch(r)
  PROVE  ReportedIsInserted'
<1>1. Picked(r) \in SUBSET Codes /\ Absent(Picked(r)) \in SUBSET Codes
  BY RequestType DEF Inventory, Absent
<1>2. CASE InsertOne(r)
  <2>1. PICK c \in Codes : Picked(r) = {c}
    BY <1>2 DEF Inventory, Shape, InsertOne, At
  <2>2. CASE Absent(Picked(r)) = {}
    BY <1>2, <2>2, CountStays DEF InsertOne
  <2>3. CASE Absent(Picked(r)) # {}
    <3>1. state[c] = "absent" /\ reported' = reported + 1
      BY <1>2, <2>1, <2>3 DEF Absent, InsertOne
    <3>2. \A k \in Codes : state'[k] = "absent" <=> state[k] = "absent" /\ k \notin {c}
      BY <1>2, <2>1, <2>3 DEF InsertOne
    <3>3. Cardinality({c}) = 1
      BY FS_Singleton
    <3>4. PICK picked : picked = {c}
      OBVIOUS
    <3>5. /\ picked \in SUBSET Codes /\ \A k \in picked : state[k] = "absent"
          /\ \A k \in Codes : state'[k] = "absent" <=> state[k] = "absent" /\ k \notin picked
          /\ reported' = reported + Cardinality(picked)
      BY <3>1, <3>2, <3>3, <3>4
    <3>6. QED
      BY <3>5, CountGoesOn
  <2>4. QED
    BY <2>2, <2>3
<1>3. CASE InsertBatch(r)
  <2>1. PICK picked : picked = Absent(Picked(r))
    OBVIOUS
  <2>2. /\ picked \in SUBSET Codes /\ \A c \in picked : state[c] = "absent"
        /\ reported' = reported + Cardinality(picked)
    BY <1>1, <1>3, <2>1 DEF InsertBatch, AffectedRows, Absent
  <2>3. \A c \in Codes : state'[c] = "absent" <=> state[c] = "absent" /\ c \notin picked
    BY <1>3, <2>1 DEF InsertBatch
  <2>4. QED
    BY <2>2, <2>3, CountGoesOn
<1>4. QED
  BY <1>2, <1>3

LEMMA NextCounts ==
  ASSUME Inventory, ReportedIsInserted, [Next]_vars
  PROVE  ReportedIsInserted'
<1>1. CASE UNCHANGED <<state, reported>>
  BY <1>1, CountStays
<1>2. ASSUME NEW r \in Requests, CommitRedeem(r) PROVE ReportedIsInserted'
  <2>1. \A c \in Picked(r) : state[c] = "unused"
    BY <1>2 DEF CommitRedeem, At, Inventory, Held
  <2>2. /\ reported' = reported
        /\ \A c \in Codes : state'[c] = "absent" <=> state[c] = "absent"
    BY <1>2, <2>1 DEF CommitRedeem
  <2>3. QED
    BY <2>2, CountStays
<1>3. ASSUME NEW codes \in SUBSET Codes, DeleteUnused(codes) PROVE ReportedIsInserted'
  <2>1. /\ reported' = reported
        /\ \A c \in Codes : state'[c] = "absent" <=> state[c] = "absent"
    BY <1>3 DEF DeleteUnused, Deletable
  <2>2. QED
    BY <2>1, CountStays
<1>4. ASSUME NEW r \in Requests, Arrive(r) PROVE UNCHANGED <<state, reported>>
  BY <1>4, ArriveQuiet DEF Inventory
<1>5. QED
  BY <1>1, <1>2, <1>3, <1>4, InsertCounts
  DEF Next, Proceed, PickOne, PickBatch, LockCode, SelectReady, MarkSelected,
      MarkExported, Fail, vars

\* What generations report in sum is what they inserted, because INSERT IGNORE is
\* asked for the rows it affected, and no other step makes a code or forgets one.
THEOREM ReportsAreTrue == Spec => []ReportedIsInserted
<1>1. Init => ReportedIsInserted
  <2> SUFFICES ASSUME Init PROVE ReportedIsInserted
    OBVIOUS
  <2>1. {c \in Codes : state[c] # "absent"} = {} /\ reported = 0
    BY DEF Init
  <2>2. QED
    BY <2>1, FS_EmptySet DEF ReportedIsInserted
<1>2. QED
  BY <1>1, InventoryAlways, NextCounts, PTL DEF Spec
-----------------------------------------------------------------------------
(* The abstract specification.                                             *)

LEMMA InitStocks == Init => Stock!Init
BY DEF Init, Stock!Init, Redeemable, Redeemed, Withdrawn

\* Codes that were absent are now unused, and nothing else has changed.
LEMMA AppearingAdds ==
  ASSUME NEW codes \in SUBSET Codes, \A c \in codes : state[c] = "absent",
         state' = [c \in Codes |-> IF c \in codes THEN "unused" ELSE state[c]],
         UNCHANGED <<opens, student>>
  PROVE  Stock!Add(codes)
<1>1. codes \cap (Redeemable \cup Redeemed \cup Withdrawn) = {}
  BY DEF Redeemable, Redeemed, Withdrawn
<1>2. Redeemable' = Redeemable \cup codes /\ UNCHANGED <<Redeemed, Withdrawn>>
  BY DEF Redeemable, Redeemed, Withdrawn
<1>3. QED
  BY <1>1, <1>2 DEF Stock!Add

LEMMA InsertAdds ==
  ASSUME Inventory, NEW r \in Requests, InsertOne(r) \/ InsertBatch(r)
  PROVE  [Stock!Next]_Stock!stockVars
<1>1. Absent(Picked(r)) \in SUBSET Codes /\ \A c \in Absent(Picked(r)) : state[c] = "absent"
  BY RequestType DEF Absent, Inventory
<1>2. CASE InsertOne(r) /\ Absent(Picked(r)) = {}
  BY <1>2 DEF InsertOne, Stock!stockVars, Redeemable, Redeemed, Withdrawn
<1>3. CASE InsertOne(r) /\ Absent(Picked(r)) # {}
  <2>1. Absent(Picked(r)) = Picked(r)
    BY <1>3 DEF Absent, InsertOne, At, Inventory, Shape
  <2>2. Stock!Add(Picked(r))
    BY <1>1, <1>3, <2>1, AppearingAdds DEF InsertOne
  <2>3. QED
    BY <1>1, <2>1, <2>2 DEF Stock!Next
<1>4. CASE InsertBatch(r)
  <2>1. Stock!Add(Absent(Picked(r)))
    BY <1>1, <1>4, AppearingAdds DEF InsertBatch
  <2>2. QED
    BY <1>1, <2>1 DEF Stock!Next
<1>5. QED
  BY <1>2, <1>3, <1>4

\* The lock keeps a code redeemable from its read to the commit.
LEMMA CommitRedeems ==
  ASSUME Inventory, NEW r \in Requests, CommitRedeem(r)
  PROVE  [Stock!Next]_Stock!stockVars
<1>1. PICK s \in Students, c \in Codes : req[r].student = s /\ Picked(r) = {c}
  BY DEF CommitRedeem, At, Inventory, Shape
<1>2. state[c] = "unused"
  BY <1>1 DEF CommitRedeem, At, Inventory, Held
<1>3. CASE opens[s] # None
  BY <1>1, <1>3 DEF CommitRedeem, Stock!stockVars, Redeemable, Redeemed, Withdrawn
<1>4. CASE opens[s] = None
  <2>1. /\ state' = [k \in Codes |-> IF k = c THEN "used" ELSE state[k]]
        /\ student' = [k \in Codes |-> IF k = c THEN s ELSE student[k]]
        /\ opens' = [opens EXCEPT ![s] = c]
    BY <1>1, <1>4 DEF CommitRedeem
  <2>2. c \in Redeemable
    BY <1>2 DEF Redeemable
  <2>3. /\ Redeemable' = Redeemable \ {c} /\ Redeemed' = Redeemed \cup {c}
        /\ UNCHANGED Withdrawn
    BY <1>2, <2>1 DEF Redeemable, Redeemed, Withdrawn
  <2>4. student' = [student EXCEPT ![c] = s]
    BY <2>1 DEF Inventory, TypeOK
  <2>5. Stock!Redeem(s, c)
    BY <1>4, <2>1, <2>2, <2>3, <2>4 DEF Stock!Redeem
  <2>6. QED
    BY <2>5 DEF Stock!Next
<1>5. QED
  BY <1>3, <1>4

LEMMA DeleteWithdraws ==
  ASSUME Inventory, NEW codes \in SUBSET Codes, DeleteUnused(codes)
  PROVE  [Stock!Next]_Stock!stockVars
<1> DEFINE out == {c \in codes : Deletable(c)}
<1>1. out \subseteq Redeemable /\ out \in SUBSET Codes
  BY DEF Deletable, Redeemable
<1>2. state' = [c \in Codes |-> IF c \in out THEN "deleted" ELSE state[c]]
  BY DEF DeleteUnused
<1> HIDE DEF out
<1>3. /\ Redeemable' = Redeemable \ out /\ Withdrawn' = Withdrawn \cup out
      /\ UNCHANGED Redeemed
  BY <1>1, <1>2 DEF Redeemable, Redeemed, Withdrawn
<1>4. Stock!Withdraw(out)
  BY <1>1, <1>3 DEF DeleteUnused, Stock!Withdraw
<1>5. QED
  BY <1>1, <1>4 DEF Stock!Next

LEMMA StepStocks == Inventory /\ [Next]_vars => [Stock!Next]_Stock!stockVars
<1> SUFFICES ASSUME Inventory, [Next]_vars PROVE [Stock!Next]_Stock!stockVars
  OBVIOUS
<1>1. CASE UNCHANGED <<state, opens, student>>
  BY <1>1 DEF Stock!stockVars, Redeemable, Redeemed, Withdrawn
<1>2. ASSUME NEW r \in Requests, Arrive(r) PROVE UNCHANGED <<state, opens, student>>
  BY <1>2, ArriveQuiet DEF Inventory
<1>3. QED
  BY <1>1, <1>2, InsertAdds, CommitRedeems, DeleteWithdraws
  DEF Next, Proceed, PickOne, PickBatch, LockCode, SelectReady, MarkSelected,
      MarkExported, Fail, vars

\* Generations, redemptions, exports, deletions and failures that overlap in any way
\* move codes as CodeStock says: createStudentFromOnboardingPayment reads and writes
\* its code in two statements, and is one Redeem because the row is locked in between.
THEOREM CodesMoveAtOnce == Spec => ImplementsCodeStock
<1>1. Spec => Stock!Spec
  BY InitStocks, StepStocks, InventoryAlways, PTL DEF Spec, Stock!Spec
<1>2. QED
  BY <1>1 DEF ImplementsCodeStock
=============================================================================
