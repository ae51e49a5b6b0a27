---------------------------- MODULE PaymentSync -----------------------------
(***************************************************************************)
(* The superadmin's sync: the charges of the last days are fetched from    *)
(* Flutterwave page by page, while students go on paying, and then handled *)
(* one by one.  The pages list the newest charge first, so a charge that   *)
(* arrives between two pages shifts the others down.                       *)
(*                                                                         *)
(* PaymentFulfillment models what verifyAndFulfill and recordFailedPayment *)
(* do to the tables; here a charge is granted or not.  The pending charges *)
(* are handled in any order, the code takes the newest first.              *)
(***************************************************************************)
EXTENDS Naturals

CONSTANTS
  Syncs,        \* sync requests the server handles concurrently
  PageSize,     \* charges on a page of Flutterwave's list
  MaxPages,     \* pages fetched at most
  MaxListed,    \* bound on the charges made
  MaxSyncs,     \* bound on the syncs started
  Successful,   \* the charges that took the money
  Complete,     \* those that the list shows with all their metadata
  Ref           \* the tx_ref of each charge

\* In the order in which they are made.
Charges == 1..MaxListed

ASSUME SizeAssumption ==
  /\ {PageSize, MaxPages} \subseteq Nat \ {0}
  /\ {MaxListed, MaxSyncs} \subseteq Nat

\* A checkout is paid once.
ASSUME ChargeAssumption ==
  /\ Successful \subseteq Charges
  /\ \A c, d \in Successful : Ref[c] = Ref[d] => c = d

VARIABLES
  listed,    \* charges made so far
  granted,   \* the charges that some door has fulfilled
  sync,      \* what each sync is doing
  started

vars == <<listed, granted, sync, started>>

-----------------------------------------------------------------------------

Reports == {"synced", "recorded", "skipped", "failed"}

\* pending counts how often a charge was fetched and is still to be handled;
\* item is the charge being handled, purpose says whether the handler knows
\* what it paid for, and report holds the entries of the summary.
Sync == [pc : {"idle", "fetch", "process", "item", "fulfil"},
         start : Nat, page : Nat, pending : [Charges -> Nat],
         item : Nat, purpose : BOOLEAN, report : SUBSET (Charges \X Reports)]

NoSync == [pc |-> "idle", start |-> 0, page |-> 1,
           pending |-> [c \in Charges |-> 0],
           item |-> 0, purpose |-> FALSE, report |-> {}]

At(r, step) == sync[r].pc = step
Become(r, s) == sync' = [sync EXCEPT ![r] = s]

-----------------------------------------------------------------------------
(* Fetching the list.                                                      *)

Start(r) ==
  /\ At(r, "idle")
  /\ started < MaxSyncs
  /\ started' = started + 1
  /\ Become(r, [NoSync EXCEPT !.pc = "fetch", !.start = listed])
  /\ UNCHANGED <<listed, granted>>

\* A page of the list as it is at this moment.
Page(k) == {c \in 1..listed : (k - 1) * PageSize + c <= listed /\ listed < k * PageSize + c}

\* Mutant: the loop stops before the last page.
LastButOne(k) == k >= MaxPages \/ (k + 1) * PageSize >= listed

\* total_pages, read again with every page, is the list's length in pages,
\* rounded up.  An empty page is a last page too.
LastPage(k) == k >= MaxPages \/ k * PageSize >= listed

FetchPage(r) ==
  /\ At(r, "fetch")
  /\ LET k == sync[r].page
         fetched == [c \in Charges |-> sync[r].pending[c] + IF c \in Page(k) THEN 1 ELSE 0]
     IN  IF LastPage(k)
         THEN Become(r, [sync[r] EXCEPT !.pending = fetched, !.pc = "process"])
         ELSE Become(r, [sync[r] EXCEPT !.pending = fetched, !.page = k + 1])
  /\ UNCHANGED <<listed, granted, started>>

-----------------------------------------------------------------------------
(* Handling the charges.                                                   *)

\* Verification by reference: the attempt that succeeded, if one did.
Verified(c) ==
  LET attempts == {d \in 1..listed : Ref[d] = Ref[c]}
  IN  IF attempts \cap Successful = {} THEN attempts ELSE attempts \cap Successful

\* Mutant: the loop does not go on to the next charge.
Unchanged(pending, c) == pending

Without(pending, c) == [pending EXCEPT ![c] = @ - 1]

\* A charge without its metadata is verified again; when that fails, or does
\* not tell, the charge is handled as listed.
Hydrate(r) ==
  /\ At(r, "process")
  /\ \E c \in Charges :
       /\ sync[r].pending[c] > 0
       /\ \E d \in IF c \in Complete THEN {c} ELSE {c} \cup Verified(c),
             purpose \in IF c \in Complete THEN {TRUE} ELSE BOOLEAN :
            Become(r, [sync[r] EXCEPT !.pc = "item", !.pending = Without(@, c),
                                      !.item = d, !.purpose = purpose])
  /\ UNCHANGED <<listed, granted, started>>

\* Mutant: a nameless entry.
Nameless(r, status) == sync[r].report \cup {<<0, status>>}

Items(r, status) == sync[r].report \cup {<<sync[r].item, status>>}

Report(r, status) ==
  Become(r, [sync[r] EXCEPT !.pc = "process", !.report = Items(r, status)])

\* A failed charge is recorded, unless nobody knows what it was for.
RecordFailed(r) ==
  /\ At(r, "item")
  /\ sync[r].item \notin Successful
  /\ \/ ~sync[r].purpose /\ Report(r, "skipped")
     \/ sync[r].purpose /\ \E status \in {"recorded", "failed"} : Report(r, status)
  /\ UNCHANGED <<listed, granted, started>>

\* A charge that was granted under its own id is skipped, and so is one without
\* a purpose; a course payment without its courses fails.
LookUp(r) ==
  /\ At(r, "item")
  /\ sync[r].item \in Successful
  /\ \/ (sync[r].item \in granted \/ ~sync[r].purpose) /\ Report(r, "skipped")
     \/ sync[r].item \notin Complete /\ Report(r, "failed")
     \/ sync[r].purpose /\ Become(r, [sync[r] EXCEPT !.pc = "fulfil"])
  /\ UNCHANGED <<listed, granted, started>>

Fulfil(r) ==
  /\ At(r, "fulfil")
  /\ \/ /\ sync[r].item \in granted
        /\ Report(r, "skipped")
        /\ UNCHANGED granted
     \/ /\ sync[r].item \notin granted
        /\ granted' = granted \cup {sync[r].item}
        /\ Report(r, "synced")
     \/ /\ Report(r, "failed")
        /\ UNCHANGED granted
  /\ UNCHANGED <<listed, started>>

Handled(r) == At(r, "process") /\ \A c \in Charges : sync[r].pending[c] = 0

\* The summary is returned.
Finish(r) ==
  /\ Handled(r)
  /\ Become(r, NoSync)
  /\ UNCHANGED <<listed, granted, started>>

\* A page cannot be fetched, all of them together take too long, a query fails
\* outside the code's try blocks, or the process dies: nothing is returned.
Fail(r) ==
  /\ ~At(r, "idle")
  /\ Become(r, NoSync)
  /\ UNCHANGED <<listed, granted, started>>

-----------------------------------------------------------------------------
(* Meanwhile.                                                              *)

Pay ==
  /\ listed < MaxListed
  /\ listed' = listed + 1
  /\ UNCHANGED <<granted, sync, started>>

\* A browser's verification or a webhook grants a charge.
OtherDoor(c) ==
  /\ c <= listed
  /\ granted' = granted \cup {c}
  /\ UNCHANGED <<listed, sync, started>>

-----------------------------------------------------------------------------

Init ==
  /\ listed = 0
  /\ granted = {}
  /\ sync = [r \in Syncs |-> NoSync]
  /\ started = 0

Proceed(r) ==
  \/ FetchPage(r) \/ Hydrate(r) \/ RecordFailed(r)
  \/ LookUp(r) \/ Fulfil(r) \/ Finish(r)

Next ==
  \/ \E r \in Syncs : Start(r) \/ Proceed(r) \/ Fail(r)
  \/ \E c \in Successful : OtherDoor(c)
  \/ Pay

\* Every await of a sync has an answer or a timeout, and Node goes on with it.
Spec == Init /\ [][Next]_vars /\ \A r \in Syncs : WF_vars(Proceed(r))

-----------------------------------------------------------------------------
(* Properties.                                                             *)

\* The variables hold what the handlers can hold.
TypeOK ==
  /\ listed \in 0..MaxListed
  /\ granted \in SUBSET Charges
  /\ sync \in [Syncs -> Sync]
  /\ started \in 0..MaxSyncs

Settled(r, c) ==
  \/ c \in granted
  \/ \E status \in {"skipped", "failed"} : <<c, status>> \in sync[r].report

\* A sync that runs to its end leaves none of the payments behind that were
\* there when it began: each is granted, or named in the summary as skipped or
\* failed, however many arrived while it was fetching, as long as the list
\* fits into the pages that are fetched.
NoneLeftBehind ==
  \A r \in Syncs :
    Handled(r) /\ listed <= MaxPages * PageSize =>
      \A c \in Successful : c <= sync[r].start => Settled(r, c)

\* A sync ends, however the list grows while it is fetched.
SyncEnds == \A r \in Syncs : At(r, "fetch") ~> At(r, "idle")

=============================================================================
