------------------------------- MODULE Media --------------------------------
(***************************************************************************)
(* Uploads to an S3 bucket that may be missing: S3Service makes sure of it *)
(* once, shares one look-up among the uploads that need it, and tries an   *)
(* upload again when the bucket turns out to be gone.                      *)
(*                                                                         *)
(* What the storage does and what the process makes of the answer are two  *)
(* steps; any call may fail.  The operator may remove the bucket.          *)
(***************************************************************************)
EXTENDS Container

CONSTANTS
  Uploads,      \* uploads the server handles concurrently
  MaxRemovals   \* bound on the removals of the bucket

VARIABLES
  bucket,    \* does the bucket exist?
  ready,     \* bucketReady
  ensuring,  \* ensureBucketPromise: the answer its call waits for, or "none"
  upload,    \* where each upload is
  removals   \* the times the bucket was removed

mediaVars == <<bucket, ready, ensuring, upload, removals>>

Move(u, step) == upload' = [upload EXCEPT ![u] = step]
OnlyUpload    == UNCHANGED <<bucket, ready, ensuring, removals, containerVars>>

\* An upload that ended makes place for another one.
AskUpload(u) ==
  /\ Serves("media")
  /\ upload[u] \in {"idle", "stored", "failed", "lost"}
  /\ Move(u, "ensure")
  /\ OnlyUpload

\* ensureBucketExists: nothing to do, or the promise there is, or a new one.
EnsureBucket(u) ==
  /\ upload[u] \in {"ensure", "ensureAgain"}
  /\ LET again == upload[u] = "ensureAgain"
     IN  IF ready
         THEN /\ Move(u, IF again THEN "putAgain" ELSE "put")
              /\ UNCHANGED ensuring
         ELSE /\ Move(u, IF again THEN "waitingAgain" ELSE "waiting")
              /\ ensuring' = IF ensuring = "none" THEN "head" ELSE ensuring
  /\ UNCHANGED <<bucket, ready, removals, containerVars>>

\* The promise settles: those that wait for it go on, or fail with it.
Settle(ok) ==
  /\ ready' = (ready \/ ok)
  /\ ensuring' = "none"
  /\ upload' = [u \in Uploads |->
       CASE upload[u] = "waiting"      -> IF ok THEN "put" ELSE "failed"
         [] upload[u] = "waitingAgain" -> IF ok THEN "putAgain" ELSE "failed"
         [] OTHER                      -> upload[u]]

\* HeadBucket answers: the bucket is there, or the process will create it.
HeadBucket ==
  /\ ensuring = "head"
  /\ ensuring' = IF bucket THEN "found" ELSE "create"
  /\ UNCHANGED <<bucket, ready, upload, removals, containerVars>>

\* CreateBucket answers; a bucket that exists already will do.
CreateBucket ==
  /\ ensuring = "create"
  /\ bucket' = TRUE
  /\ ensuring' = "created"
  /\ UNCHANGED <<ready, upload, removals, containerVars>>

BucketEnsured ==
  /\ ensuring \in {"found", "created"}
  /\ Settle(TRUE)
  /\ UNCHANGED <<bucket, removals, containerVars>>

EnsureFails ==
  /\ ensuring # "none"
  /\ Settle(FALSE)
  /\ UNCHANGED <<bucket, removals, containerVars>>

\* PutObject answers: stored, or there is no bucket to store it in.
PutObject(u) ==
  /\ upload[u] \in {"put", "putAgain"}
  /\ Move(u, IF bucket THEN "stored" ELSE IF upload[u] = "put" THEN "missing" ELSE "lost")
  /\ OnlyUpload

PutFails(u) ==
  /\ upload[u] \in {"put", "putAgain"}
  /\ Move(u, "failed")
  /\ OnlyUpload

\* Mutant: the bucket is taken for ready while it is looked for again.
StillReady(was) == was

ReadyAfterMissing(was) == FALSE

\* The upload finds that the bucket is gone, and makes sure of it again.
RetryUpload(u) ==
  /\ upload[u] = "missing"
  /\ ready' = ReadyAfterMissing(ready)
  /\ Move(u, "ensureAgain")
  /\ UNCHANGED <<bucket, ensuring, removals, containerVars>>

RemoveBucket ==
  /\ Serves("media")
  /\ bucket /\ removals < MaxRemovals
  /\ bucket' = FALSE
  /\ removals' = removals + 1
  /\ UNCHANGED <<ready, ensuring, upload, containerVars>>

StoreMedia ==
  \/ \E u \in Uploads : \/ AskUpload(u) \/ EnsureBucket(u) \/ PutObject(u) \/ PutFails(u)
                       \/ RetryUpload(u)
  \/ HeadBucket \/ CreateBucket \/ BucketEnsured \/ EnsureFails
  \/ RemoveBucket

\* onModuleInit makes sure of the bucket, and starts without it if it cannot.
InitMedia ==
  \/ bucket' = TRUE /\ ready' = TRUE
  \/ bucket' \in {bucket, TRUE} /\ ready' = FALSE

-----------------------------------------------------------------------------
(* Properties.                                                             *)

\* An upload that does not find the bucket is tried again, and the second try
\* finds it - unless the bucket was removed twice.
OneRemovalLosesNoUpload == \A u \in Uploads : upload[u] = "lost" => removals >= 2
=============================================================================
