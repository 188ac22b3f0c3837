---------------------------- MODULE MediaUploads ----------------------------
(***************************************************************************)
(* Uploads by a client (backend/internal/media/service.go, repository.go,  *)
(* the handlers of httpapi/media_v1.go, the multipart half of the stores). *)
(* A request runs in some API process and calls the store between its      *)
(* database statements; several requests, and the sweep of expired         *)
(* uploads, may be at work on one upload, and any of them may die.         *)
(*                                                                         *)
(* Abstractions.  An upload and its asset share one name and are the only  *)
(* use of their object key.  Its parts are all stored or not.  The states  *)
(* pending, failed and expired of media_uploads, which no code writes, are *)
(* left out.  All uploads belong to one owner, one device session and, for *)
(* turns, one interview; sizes are counted in units.                       *)
(***************************************************************************)
EXTENDS MediaAssets

CONSTANTS
  Uploads,    \* the assets that are uploads
  Requests,   \* request goroutines of the API, and the sweep
  Keys,       \* values of the Idempotency-Key header
  GuestKeys,  \* the keys under which a guest uploads its preview
  TurnKeys,   \* the keys under which the answers of an interview are uploaded
  TurnLimit   \* the units an interview may upload

ASSUME UploadAssumption ==
  /\ Uploads \subseteq Assets
  /\ GuestKeys \subseteq Keys /\ TurnKeys \subseteq Keys
  /\ None \notin Keys
  /\ GuestKeys \cap TurnKeys = {}
  /\ TurnLimit \in Nat

VARIABLES
  session, \* the device session of the client is valid
  upload,  \* the row of media_uploads of each upload
  parts,   \* the multipart upload in the store
  request  \* what each request is doing

uploadVars == <<session, upload, parts, request>>
allUploadVars == <<mediaVars, uploadVars>>

InProgress == {"uploading", "completing", "aborting"}
Ended      == {"completed", "aborted"}

\* expired: expires_at <= now;  stale: updated_at is 30 minutes old.
UploadRow == [state : {"absent"} \cup InProgress \cup Ended, key : Keys \cup {None},
              expired : BOOLEAN, stale : BOOLEAN]

NoUpload == [state |-> "absent", key |-> None, expired |-> FALSE, stale |-> FALSE]

Free == [phase |-> "free", on |-> None, key |-> None]

Phases == {"insert", "discard", "store", "load", "publish", "describe", "drop", "mark",
           "check", "erase", "eraseMeta", "abort", "aborted"}

Request == [phase : Phases, on : Uploads, key : Keys \cup {None}]

UploadTypeOK ==
  /\ session \in BOOLEAN
  /\ upload \in [Uploads -> UploadRow]
  /\ parts \in [Uploads -> {None, "open", "full"}]
  /\ request \in [Requests -> Request \cup {Free}]

UploadInit ==
  /\ session \in BOOLEAN
  /\ upload = [u \in Uploads |-> NoUpload]
  /\ parts = [u \in Uploads |-> None]
  /\ request = [r \in Requests |-> Free]

Named(k) == {u \in Uploads : upload[u].key = k}

Phase(r, p) == request[r].phase = p
Go(r, p)    == request' = [request EXCEPT ![r].phase = p]
Answer(r)   == request' = [request EXCEPT ![r] = Free]

\* CreateMultipart, PutPart and AbortMultipart of the store.
OpenParts(u) == parts' = [parts EXCEPT ![u] = "open"]
FillParts(u) == parts[u] = "open" /\ parts' = [parts EXCEPT ![u] = "full"]
DropParts(u) == parts' = [parts EXCEPT ![u] = None]

\* validateActiveUpload.
ActiveUpload(u) == upload[u].state = "uploading" /\ ~upload[u].expired

-----------------------------------------------------------------------------
\* POST /media/uploads.

GuestUploads == {u \in Uploads : upload[u].key \in GuestKeys /\ ~asset[u].erased}

\* A key that is known is answered from its row, a second preview of a guest
\* is refused; otherwise a multipart upload is opened under a fresh object key.
CreateUpload(r, k, u) ==
  /\ session /\ request[r] = Free
  /\ Named(k) = {}
  /\ k \in GuestKeys => GuestUploads = {}
  /\ upload[u] = NoUpload /\ parts[u] = None
  /\ \A s \in Requests : request[s].on # u
  /\ OpenParts(u)
  /\ request' = [request EXCEPT ![r] = [phase |-> "insert", on |-> u, key |-> k]]
  /\ UNCHANGED <<mediaVars, session, upload>>

\* What the session has uploaded and not lost counts against the limit.
TurnUploads ==
  {u \in Uploads : upload[u].key \in TurnKeys
                   /\ asset[u].state # "failed" /\ ~asset[u].erased}

\* Mutant of Admitted: the bytes of the other answers are not summed.
AdmittedAlone(k) ==
  /\ Named(k) = {}
  /\ k \in GuestKeys => GuestUploads = {}

\* The unique indexes on the key and on the guest's owner, the client's session,
\* and the sum of the answers, read under the lock of the interview.
Admitted(k) ==
  /\ Named(k) = {}
  /\ k \in GuestKeys \cup TurnKeys => session
  /\ k \in GuestKeys => GuestUploads = {}
  /\ k \in TurnKeys => Cardinality(TurnUploads) + 1 <= TurnLimit

InsertUpload(r) ==
  LET u == request[r].on
      k == request[r].key
  IN /\ Phase(r, "insert")
     /\ \/ /\ Admitted(k)
           /\ upload' = [upload EXCEPT ![u] =
                [state |-> "uploading", key |-> k, expired |-> FALSE, stale |-> FALSE]]
           /\ asset' = [asset EXCEPT ![u] = NewAsset("uploading", u)]
           /\ Answer(r)
           /\ UNCHANGED faults
        \/ /\ ~Admitted(k)
           /\ Go(r, "discard")
           /\ UNCHANGED <<upload, asset, faults>>
        \/ /\ Fault      \* the interview is not recording, the database failed
           /\ Go(r, "discard")
           /\ UNCHANGED <<upload, asset>>
     /\ UNCHANGED <<driver, file, meta, del, eraser, swept, session, parts>>

\* The multipart upload of a refused request is aborted at best; the answer is
\* the upload that won the key, or a conflict.
DiscardUpload(r) ==
  /\ Phase(r, "discard")
  /\ DropParts(request[r].on)
  /\ Answer(r)
  /\ UNCHANGED <<mediaVars, session, upload>>

\* The client sends the parts.  To a local store through the API, which looks at
\* the upload and stores what it is sent later ...
PutLocalPart(r, u) ==
  /\ driver = "local" /\ request[r] = Free
  /\ ActiveUpload(u)
  /\ request' = [request EXCEPT ![r] = [phase |-> "store", on |-> u, key |-> None]]
  /\ UNCHANGED <<mediaVars, session, upload, parts>>

StoreParts(r) ==
  /\ Phase(r, "store")
  /\ FillParts(request[r].on) \/ (parts[request[r].on] # "open" /\ UNCHANGED parts)
  /\ Answer(r)
  /\ UNCHANGED <<mediaVars, session, upload>>

\* ... to a bucket under URLs that were signed while the upload was active and
\* that expire with it, whatever becomes of the upload in between.
PutSignedPart(u) ==
  /\ driver = "s3"
  /\ upload[u].state # "absent" /\ ~upload[u].expired
  /\ FillParts(u)
  /\ UNCHANGED <<mediaVars, session, upload, request>>

-----------------------------------------------------------------------------
\* POST /media/uploads/{id}/complete.

CompleteUpload(r, u) ==
  /\ session /\ request[r] = Free
  /\ \/ /\ ActiveUpload(u)
        /\ upload' = [upload EXCEPT ![u].state = "completing", ![u].stale = FALSE]
     \/ /\ upload[u].state = "completing"       \* a retry
        /\ UNCHANGED upload
  /\ request' = [request EXCEPT ![r] = [phase |-> "load", on |-> u, key |-> None]]
  /\ UNCHANGED <<mediaVars, session, parts>>

\* LocalStore.CompleteMultipart, step by step: the parts are put together ...
LoadParts(r) ==
  LET u == request[r].on
  IN /\ Phase(r, "load") /\ driver = "local"
     /\ \/ parts[u] = "full" /\ Go(r, "publish")
        \/ parts[u] = None /\ Stat(u) /\ Go(r, "mark")
        \/ parts[u] = "open" /\ Answer(r)
        \/ parts[u] = None /\ ~Stat(u) /\ Answer(r)
     /\ UNCHANGED <<mediaVars, session, upload, parts>>

\* ... linked to the object's path unless something is there ...
PublishParts(r) ==
  LET u == request[r].on
  IN /\ Phase(r, "publish")
     /\ IF file[u] = None
          THEN /\ file' = [file EXCEPT ![u] = u]
               /\ Go(r, "describe")
               /\ UNCHANGED parts
          ELSE /\ IF Stat(u) THEN Go(r, "mark") /\ DropParts(u)
                             ELSE Answer(r) /\ UNCHANGED parts
               /\ UNCHANGED file
     /\ UNCHANGED <<driver, asset, meta, del, eraser, swept, faults, session, upload>>

\* ... described by a metadata file, or taken back when that fails ...
DescribeObject(r) ==
  LET u == request[r].on
  IN /\ Phase(r, "describe")
     /\ \/ /\ meta' = [meta EXCEPT ![u] = u]
           /\ Go(r, "drop")
           /\ UNCHANGED <<file, faults>>
        \/ /\ Fault
           /\ file' = [file EXCEPT ![u] = None]
           /\ Answer(r)
           /\ UNCHANGED meta
     /\ UNCHANGED <<driver, asset, del, eraser, swept, session, upload, parts>>

\* ... and the parts are removed.
DropUploaded(r) ==
  /\ Phase(r, "drop")
  /\ DropParts(request[r].on)
  /\ Go(r, "mark")
  /\ UNCHANGED <<mediaVars, session, upload>>

\* verifyStoredObject: the object has the size and the checksum of the upload.
Verified(u) == file[u] = u

\* S3Store.CompleteMultipart: one call; when it fails the object itself tells
\* whether an earlier call had succeeded.
CompleteInBucket(r) ==
  LET u == request[r].on
  IN /\ Phase(r, "load") /\ driver = "s3"
     /\ IF parts[u] = "full"
          THEN /\ file' = [file EXCEPT ![u] = u]
               /\ meta' = [meta EXCEPT ![u] = u]
               /\ DropParts(u)
               /\ Go(r, "mark")
          ELSE /\ IF Verified(u) THEN Go(r, "mark") ELSE Answer(r)
               /\ UNCHANGED <<file, meta, parts>>
     /\ UNCHANGED <<driver, asset, del, eraser, swept, faults, session, upload>>

\* Mutant of Completable: an aborted upload may still be completed.
CompletableAborted(u) == asset[u].state \in {"uploading", "failed", "ready"}

\* The two guards of MarkCompleted.
Completable(u) ==
  /\ upload[u].state \in {"completing", "completed"}
  /\ asset[u].state \in {"uploading", "ready"}

Completed(u) ==
  /\ upload' = [upload EXCEPT ![u].state = "completed"]
  /\ asset' = [asset EXCEPT ![u].state = "ready"]

\* The transaction commits; or it is refused; or it fails or its
\* acknowledgement is lost, and the request looks again.
MarkCompleted(r) ==
  LET u == request[r].on
  IN /\ Phase(r, "mark")
     /\ \/ Completable(u) /\ Completed(u) /\ Answer(r) /\ UNCHANGED faults
        \/ ~Completable(u) /\ Go(r, "check") /\ UNCHANGED <<upload, asset, faults>>
        \/ /\ Fault /\ Go(r, "check")
           /\ \/ Completable(u) /\ Completed(u)
              \/ UNCHANGED <<upload, asset>>
     /\ UNCHANGED <<driver, file, meta, del, eraser, swept, session, parts>>

\* Mutant of Withdrawn: whatever went wrong, the object is removed.
WithdrawnAlways(u) == upload[u].state # "completed" \/ asset[u].state # "ready"

\* Only an abort has fenced every later MarkCompleted.
Withdrawn(u) == upload[u].state \in {"aborting", "aborted"}

CheckUpload(r) ==
  /\ Phase(r, "check")
  /\ IF Withdrawn(request[r].on) THEN Go(r, "erase") ELSE Answer(r)
  /\ UNCHANGED <<mediaVars, session, upload, parts>>

EraseObject(r) ==
  LET u == request[r].on
  IN /\ \/ /\ Phase(r, "erase")
           /\ file' = [file EXCEPT ![u] = None]
           /\ IF driver = "s3"
                THEN meta' = [meta EXCEPT ![u] = None] /\ Answer(r)
                ELSE Go(r, "eraseMeta") /\ UNCHANGED meta
        \/ /\ Phase(r, "eraseMeta")
           /\ meta' = [meta EXCEPT ![u] = None]
           /\ Answer(r)
           /\ UNCHANGED file
     /\ UNCHANGED <<driver, asset, del, eraser, swept, faults, session, upload, parts>>

-----------------------------------------------------------------------------
\* DELETE /media/uploads/{id}, and the sweep of expired uploads.

Aborts(r, u, from) ==
  /\ request[r] = Free
  /\ asset[u].state # "ready"
  /\ \/ /\ upload[u].state \in from
        /\ upload' = [upload EXCEPT ![u].state = "aborting"]
     \/ /\ upload[u].state = "aborting"
        /\ UNCHANGED upload
  /\ request' = [request EXCEPT ![r] = [phase |-> "abort", on |-> u, key |-> None]]
  /\ UNCHANGED <<mediaVars, session, parts>>

AbortUpload(r, u) == session /\ Aborts(r, u, {"uploading"})

\* Mutant of Abandoned: what is completing is left alone.
AbandonedOpen(u) == {"uploading"}

\* An expired upload; one that is completing only if it has been for long.
Abandoned(u) ==
  IF upload[u].stale THEN {"uploading", "completing"} ELSE {"uploading"}

AbortExpiredUpload(r, u) == upload[u].expired /\ Aborts(r, u, Abandoned(u))

AbortMultipart(r) ==
  /\ Phase(r, "abort")
  /\ \/ DropParts(request[r].on) /\ Go(r, "aborted") /\ UNCHANGED faults
     \/ Fault /\ Answer(r) /\ UNCHANGED parts
  /\ UNCHANGED <<driver, asset, file, meta, del, eraser, swept, session, upload>>

MarkAborted(r) ==
  LET u == request[r].on
  IN /\ Phase(r, "aborted")
     /\ Answer(r)
     /\ upload' = [upload EXCEPT ![u].state = "aborted"]
     /\ asset' = IF asset[u].state = "ready" THEN asset
                 ELSE [asset EXCEPT ![u].state = "failed"]
     /\ UNCHANGED <<driver, file, meta, del, eraser, swept, faults, session, parts>>

-----------------------------------------------------------------------------
\* Time, and the processes.

\* expires_at of the upload is the retention of its asset too, except for the
\* answers of an interview, which are kept for longer.
Elapse(u) ==
  /\ upload[u].state # "absent" /\ ~upload[u].expired
  /\ upload' = [upload EXCEPT ![u].expired = TRUE]
  /\ asset' = [asset EXCEPT ![u].due =
       @ \/ (upload[u].key \notin TurnKeys /\ ~asset[u].attached)]
  /\ UNCHANGED <<driver, file, meta, del, eraser, swept, faults, session, parts, request>>

RetentionElapses(u) == upload[u].expired /\ RetentionEnds(u) /\ UNCHANGED uploadVars

\* Half an hour passes over an upload that is completing.
BecomeStale(u) ==
  /\ upload[u].state = "completing" /\ ~upload[u].stale
  /\ upload' = [upload EXCEPT ![u].stale = TRUE]
  /\ UNCHANGED <<mediaVars, session, parts, request>>

\* The session is revoked or expires.
SignOut ==
  /\ session
  /\ session' = FALSE
  /\ UNCHANGED <<mediaVars, upload, parts, request>>

RequestDies(r) ==
  /\ Fault
  /\ request[r] # Free
  /\ Answer(r)
  /\ UNCHANGED <<driver, asset, file, meta, del, eraser, swept, session, upload, parts>>

RequestStep(r) ==
  \/ InsertUpload(r) \/ DiscardUpload(r) \/ StoreParts(r)
  \/ LoadParts(r) \/ PublishParts(r) \/ DescribeObject(r) \/ DropUploaded(r)
  \/ CompleteInBucket(r) \/ MarkCompleted(r) \/ CheckUpload(r) \/ EraseObject(r)
  \/ AbortMultipart(r) \/ MarkAborted(r)

UploadNext ==
  \/ SignOut
  \/ \E r \in Requests :
       \/ RequestStep(r) \/ RequestDies(r)
       \/ \E u \in Uploads :
            \/ \E k \in Keys : CreateUpload(r, k, u)
            \/ PutLocalPart(r, u) \/ CompleteUpload(r, u) \/ AbortUpload(r, u) \/ AbortExpiredUpload(r, u)
  \/ \E u \in Uploads :
       \/ PutSignedPart(u) \/ Elapse(u) \/ BecomeStale(u) \/ RetentionElapses(u)
       \/ (AttachMedia(u) \/ RetireArtifacts(u)
           \/ \E j \in DeleteJobs : QueueAsset(j, u)) /\ UNCHANGED uploadVars

\* Requests run on, time passes, and the worker sweeps again and again.
UploadFairness ==
  /\ \A r \in Requests : WF_allUploadVars(RequestStep(r))
  /\ \A u \in Uploads :
       /\ WF_allUploadVars(Elapse(u)) /\ WF_allUploadVars(BecomeStale(u))
       /\ WF_allUploadVars(RetentionElapses(u))
       /\ SF_allUploadVars(\E r \in Requests : AbortExpiredUpload(r, u))

-----------------------------------------------------------------------------
\* What a recording, a preview or an attempt has taken can be played: while its
\* asset is attached and ready, the object is in the store and is the one the
\* row describes.  A completion whose transaction failed, a second completion,
\* an abort and the sweep may all be under way (CompleteUpload removes an
\* object only after an abort).
AttachedIsStored ==
  \A u \in Uploads :
    asset[u].state = "ready" /\ asset[u].attached => Stat(u) /\ file[u] = asset[u].sum

\* An upload whose abort was claimed never yields an asset that a recording or a
\* preview could take, however late a completing request comes back: that is
\* what makes removing its object safe (ClaimAborting fences MarkCompleted).
AbortFencesCompletion ==
  \A u \in Uploads :
    upload[u].state \in {"aborting", "aborted"} =>
      asset[u].state # "ready" /\ ~asset[u].attached

\* The answers of one interview that are being uploaded or can be used never
\* exceed its limit, over aborted, failed and swept uploads and racing requests.
\* (What the limit is read from, TurnUploads, may exceed it: a failed upload
\* counts again while it is being deleted.)
TurnBudget ==
  Cardinality({u \in TurnUploads : asset[u].state \in {"uploading", "ready"}}) <= TurnLimit

-----------------------------------------------------------------------------
(* The inductive invariant *)

Stored(u) == file[u] = u /\ meta[u] = u

\* The object may still become, or is, what someone attaches.
Wanted(u) == upload[u].state \in {"uploading", "completing"} \/ asset[u].state = "ready"

\* The states of the two rows of an upload go together, nothing is stored before a
\* request completes it, and what is ready is stored.
UploadAgrees(u) ==
  /\ upload[u].state = "absent" => upload[u] = NoUpload /\ asset[u] = NoAsset
  /\ upload[u].state # "absent" => asset[u].sum = u /\ upload[u].key \in Keys
  /\ upload[u].state \in InProgress => asset[u].state = "uploading"
  /\ upload[u].state = "aborted" => asset[u].state \in {"failed", "deleting", "deleted"}
  /\ upload[u].state = "completed" =>
       asset[u].state \in {"ready", "failed", "deleting", "deleted"}
  /\ asset[u].attached => upload[u].state = "completed"
  /\ u \in swept => asset[u].state \in {"failed", "deleting", "deleted"}
  /\ file[u] \in {None, u} /\ meta[u] \in {None, u}
  /\ upload[u].state \in {"absent", "uploading"} => file[u] = None /\ meta[u] = None
  /\ Wanted(u) /\ file[u] = None => meta[u] = None
  /\ Wanted(u) /\ driver = "s3" => meta[u] = file[u]
  /\ asset[u].state = "ready" => Stored(u)

\* What a request has seen or done, as far as it still holds: a completion knows
\* that the object is there before it marks it, unless the upload was given up.
RequestAgrees(r) ==
  LET u == request[r].on
  IN /\ Phase(r, "insert") =>
          /\ upload[u].state = "absent"
          /\ \A s \in Requests : Phase(s, "insert") /\ request[s].on = u => s = r
          /\ request[r].key \in Keys
     /\ request[r].phase \in {"load", "publish", "describe", "drop", "mark", "check"} =>
          upload[u].state \notin {"absent", "uploading"}
     /\ request[r].phase \in {"publish", "describe", "drop"} => driver = "local"
     /\ request[r].phase \in {"erase", "eraseMeta", "abort", "aborted"} =>
          upload[u].state \in {"aborting", "aborted"}
     /\ Phase(r, "describe") /\ Wanted(u) =>
          /\ file[u] = u /\ meta[u] = None
          /\ \A s \in Requests : Phase(s, "describe") /\ request[s].on = u => s = r
     /\ request[r].phase \in {"drop", "mark"} /\ Wanted(u) => Stored(u)

UploadInv ==
  /\ \A u \in Uploads : UploadAgrees(u)
  /\ \A r \in Requests : RequestAgrees(r)
  /\ IsFiniteSet({u \in Uploads : upload[u].state # "absent"})
  /\ TurnBudget

-----------------------------------------------------------------------------
\* Every upload ends, completed or aborted: one its client has left, one whose
\* completing request died, and one whose abort failed half way.
UploadSettles ==
  \A u \in Uploads : upload[u].state \in InProgress ~> upload[u].state \in Ended
=============================================================================
