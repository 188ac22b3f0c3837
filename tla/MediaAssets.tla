----------------------------- MODULE MediaAssets -----------------------------
(***************************************************************************)
(* Media assets and their removal: the rows of media_assets, the objects   *)
(* of the store (backend/internal/storage: a local directory or a bucket), *)
(* the sweep of unused assets and the media.delete handler                 *)
(* (backend/internal/media/cleanup.go).  MediaUploads and GeneratedAudio   *)
(* extend this module with the two ways an asset is made.                  *)
(*                                                                         *)
(* Abstractions.  Of the queue only what WorkQueue shows of it is kept: a  *)
(* job whose lease has run out is delivered again while attempts are left, *)
(* the handler that lost it may go on beside the next one, and only the    *)
(* holder reports.  Bytes are the name of who made them.  Failures of the  *)
(* store or the database, lost leases and crashes are counted in faults    *)
(* and stop at MaxFaults.                                                  *)
(***************************************************************************)
EXTENDS Naturals, FiniteSets

CONSTANTS
  Assets,      \* ids of media assets; an asset has one object key
  Makers,      \* who may produce the bytes of a generated object
  Erasers,     \* consumers that run the media.delete handler
  DeleteJobs,  \* rows of media.delete jobs; a name is used again once its job ended
  DeleteTries, \* max_attempts of a media.delete job
  MaxFaults    \* bound on failures, crashes and lost leases

ASSUME MediaAssumption ==
  /\ MaxFaults \in Nat
  /\ DeleteTries \in Nat \ {0}
  /\ Assets \cap Makers = {}
  /\ "none" \notin Assets \cup Makers \cup DeleteJobs

VARIABLES
  driver,  \* the storage driver of the deployment
  asset,   \* the row of each asset
  file,    \* the bytes under the object key of each asset
  meta,    \* the bytes that its metadata describes;  local: a file of its own
  del,     \* media.delete jobs
  eraser,  \* what each consumer of media.delete is doing
  swept,   \* the assets that a media.delete job was ever enqueued for
  faults

mediaVars == <<driver, asset, file, meta, del, eraser, swept, faults>>

Bytes == Assets \cup Makers
None  == "none"

AssetStates == {"absent", "uploading", "ready", "failed", "deleting", "deleted"}

\* attached: attached_at is set;  due: retention_until <= NOW();  erased:
\* deleted_at is set;  sum: the checksum of the row, which a download compares
\* with the object's.
AssetRow == [state : AssetStates, attached : BOOLEAN, due : BOOLEAN,
             erased : BOOLEAN, sum : Bytes \cup {None}]

NewAsset(state, sum) ==
  [state |-> state, attached |-> FALSE, due |-> FALSE, erased |-> FALSE, sum |-> sum]

NoAsset == NewAsset("absent", None)

NoDelete == [state |-> None, asset |-> None, tries |-> 0]
Resting  == [phase |-> "idle", job |-> None, holds |-> FALSE]

\* lapsed: running, and the lease has expired.
DeleteRow == [state : {"waiting", "running", "lapsed"}, asset : Assets, tries : 0..DeleteTries]
Handler   == [phase : {"file", "meta", "mark"}, job : DeleteJobs, asset : Assets,
              holds : BOOLEAN]

MediaTypeOK ==
  /\ driver \in {"local", "s3"}
  /\ asset \in [Assets -> AssetRow]
  /\ file \in [Assets -> Bytes \cup {None}]
  /\ meta \in [Assets -> Bytes \cup {None}]
  /\ del \in [DeleteJobs -> DeleteRow \cup {NoDelete}]
  /\ eraser \in [Erasers -> Handler \cup {Resting}]
  /\ swept \in SUBSET Assets
  /\ faults \in 0..MaxFaults

\* What Stat finds: an object that its metadata describes (the size is compared).
Stat(a) == file[a] # None /\ meta[a] = file[a]

Fault == faults < MaxFaults /\ faults' = faults + 1

MediaInit ==
  /\ driver \in {"local", "s3"}
  /\ asset = [a \in Assets |-> NoAsset]
  /\ file = [a \in Assets |-> None]
  /\ meta = [a \in Assets |-> None]
  /\ del = [j \in DeleteJobs |-> NoDelete]
  /\ eraser = [e \in Erasers |-> Resting]
  /\ swept = {}
  /\ faults = 0

-----------------------------------------------------------------------------
\* The resource that owns an asset, and time.

\* A recording, a preview or an attempt takes the asset for good.
AttachMedia(a) ==
  /\ asset[a].state = "ready" /\ ~asset[a].attached
  /\ asset' = [asset EXCEPT ![a].attached = TRUE, ![a].due = FALSE]
  /\ UNCHANGED <<driver, file, meta, del, eraser, swept, faults>>

\* retention_until passes.
RetentionEnds(a) ==
  /\ asset[a].state # "absent" /\ ~asset[a].attached /\ ~asset[a].due
  /\ asset' = [asset EXCEPT ![a].due = TRUE]
  /\ UNCHANGED <<driver, file, meta, del, eraser, swept, faults>>

\* The owner, or the interview the upload was made for, gives the asset up; the
\* sweep will find it.
RetireArtifacts(a) ==
  /\ asset[a].state \notin {"absent", "deleting", "deleted"}
  /\ asset' = [asset EXCEPT ![a].attached = FALSE, ![a].due = TRUE]
  /\ UNCHANGED <<driver, file, meta, del, eraser, swept, faults>>

NewDelete(j, a) ==
  /\ del[j] = NoDelete
  /\ \A e \in Erasers : eraser[e].job # j
  /\ del' = [del EXCEPT ![j] = [state |-> "waiting", asset |-> a, tries |-> 0]]
  /\ swept' = swept \cup {a}

\* A recording is deleted, once: its asset is queued at once and keeps attached_at.
QueueAsset(j, a) ==
  /\ asset[a].attached /\ asset[a].state # "deleted" /\ a \notin swept
  /\ asset' = [asset EXCEPT ![a].state = "deleting", ![a].due = TRUE]
  /\ NewDelete(j, a)
  /\ UNCHANGED <<driver, file, meta, eraser, faults>>

\* Mutant of Sweepable: only what was verified is swept.
SweepableReady(a) ==
  ~asset[a].attached /\ asset[a].due /\ asset[a].state = "ready"

Sweepable(a) ==
  ~asset[a].attached /\ asset[a].due /\ asset[a].state \in {"ready", "failed"}

EnqueueExpiredAssets(j, a) ==
  /\ Sweepable(a)
  /\ asset' = [asset EXCEPT ![a].state = "deleting"]
  /\ NewDelete(j, a)
  /\ UNCHANGED <<driver, file, meta, eraser, faults>>

-----------------------------------------------------------------------------
\* The media.delete handler: select, remove the object, update the row.

\* Any consumer that still works on j has lost it to the one that claims it.
Lost(j) ==
  [e \in Erasers |->
     IF eraser[e].job = j THEN [eraser[e] EXCEPT !.holds = FALSE] ELSE eraser[e]]

\* A lapsed row is claimed like a waiting one, if it has an attempt left.
ClaimDelete(e, j) ==
  /\ eraser[e] = Resting
  /\ del[j].state \in {"waiting", "lapsed"} /\ del[j].tries < DeleteTries
  /\ IF asset[del[j].asset].state \in {"absent", "deleted"}
       THEN /\ del' = [del EXCEPT ![j] = NoDelete]
            /\ eraser' = Lost(j)
       ELSE /\ del' = [del EXCEPT ![j].state = "running", ![j].tries = @ + 1]
            /\ eraser' = [Lost(j) EXCEPT ![e] =
                 [phase |-> "file", job |-> j, asset |-> del[j].asset,
                  holds |-> TRUE]]
  /\ UNCHANGED <<driver, asset, file, meta, swept, faults>>

\* Delete removes the object and then, with the local driver, its metadata.
EraseFile(e) ==
  LET a == eraser[e].asset
  IN /\ eraser[e].phase = "file"
     /\ file' = [file EXCEPT ![a] = None]
     /\ IF driver = "s3"
          THEN /\ meta' = [meta EXCEPT ![a] = None]
               /\ eraser' = [eraser EXCEPT ![e].phase = "mark"]
          ELSE /\ eraser' = [eraser EXCEPT ![e].phase = "meta"]
               /\ UNCHANGED meta
     /\ UNCHANGED <<driver, asset, del, swept, faults>>

EraseMeta(e) ==
  /\ eraser[e].phase = "meta"
  /\ meta' = [meta EXCEPT ![eraser[e].asset] = None]
  /\ eraser' = [eraser EXCEPT ![e].phase = "mark"]
  /\ UNCHANGED <<driver, asset, file, del, swept, faults>>

\* The job of a consumer that still holds it ends, whether or not its lease has
\* expired; a stale report is refused.
Reported(e) ==
  IF eraser[e].holds THEN [del EXCEPT ![eraser[e].job] = NoDelete] ELSE del

\* The row is updated whatever its state has become.
EraseMark(e) ==
  /\ eraser[e].phase = "mark"
  /\ asset' = [asset EXCEPT ![eraser[e].asset].state = "deleted",
                             ![eraser[e].asset].erased = TRUE]
  /\ del' = Reported(e)
  /\ eraser' = [eraser EXCEPT ![e] = Resting]
  /\ UNCHANGED <<driver, file, meta, swept, faults>>

\* The lease runs out.  The handler may not know it yet, and holds the job until
\* another consumer claims it.
LoseDelete(e) ==
  /\ Fault
  /\ eraser[e].holds /\ del[eraser[e].job].state = "running"
  /\ del' = [del EXCEPT ![eraser[e].job].state = "lapsed"]
  /\ UNCHANGED <<driver, asset, file, meta, eraser, swept>>

\* A handler that lost its lease notices, or its process has died.
StopErasing(e) ==
  /\ eraser[e].phase # "idle"
  /\ eraser[e].holds => del[eraser[e].job].state = "lapsed"
  /\ eraser' = [eraser EXCEPT ![e] = Resting]
  /\ UNCHANGED <<driver, asset, file, meta, del, swept, faults>>

Failed(a) ==
  IF asset[a].state = "deleting" THEN [asset EXCEPT ![a].state = "failed"] ELSE asset

\* A step failed: the job waits for a retry, or its attempts are spent and
\* FinalizeFailure gives the asset back to the sweep.
FailDelete(e) ==
  /\ Fault
  /\ eraser[e].holds
  /\ \/ /\ del[eraser[e].job].tries < DeleteTries
        /\ del' = [del EXCEPT ![eraser[e].job].state = "waiting"]
        /\ UNCHANGED asset
     \/ /\ del[eraser[e].job].tries = DeleteTries
        /\ del' = [del EXCEPT ![eraser[e].job] = NoDelete]
        /\ asset' = Failed(eraser[e].asset)
  /\ eraser' = [eraser EXCEPT ![e] = Resting]
  /\ UNCHANGED <<driver, file, meta, swept>>

EraseStep(e) == EraseFile(e) \/ EraseMeta(e) \/ EraseMark(e)

\* What the worker does, whoever made the assets.
CleanupNext ==
  \/ \E a \in Assets, j \in DeleteJobs : EnqueueExpiredAssets(j, a)
  \/ \E e \in Erasers :
       \/ \E j \in DeleteJobs : ClaimDelete(e, j)
       \/ EraseStep(e) \/ LoseDelete(e) \/ StopErasing(e) \/ FailDelete(e)

\* The worker polls its queue and sweeps every MediaSweepInterval.
CleanupFairness ==
  /\ \A a \in Assets : SF_mediaVars(\E j \in DeleteJobs : EnqueueExpiredAssets(j, a))
  /\ \A j \in DeleteJobs : SF_mediaVars(\E e \in Erasers : ClaimDelete(e, j))
  /\ \A e \in Erasers : WF_mediaVars(EraseStep(e)) /\ WF_mediaVars(StopErasing(e))

-----------------------------------------------------------------------------
(* The inductive invariant *)

Works(e) == eraser[e].phase # "idle"

\* A job and a handler exist only for what was swept; who holds a job is alone
\* with it, and the job is running or has lapsed.
CleanupInv ==
  /\ \A j \in DeleteJobs : del[j] # NoDelete => del[j].asset \in swept
  /\ \A e \in Erasers : Works(e) => eraser[e].asset \in swept
  /\ \A e \in Erasers : eraser[e].holds =>
       /\ del[eraser[e].job].state \in {"running", "lapsed"}
       /\ \A f \in Erasers : eraser[f].holds /\ eraser[f].job = eraser[e].job => f = e

-----------------------------------------------------------------------------
\* The consumer of the last attempt was lost: Claim passes over the row.
StrandedDelete(j) == del[j].state = "lapsed" /\ del[j].tries = DeleteTries

\* An asset that nothing uses any more is removed: once its retention has run
\* out with nobody attached, or a delete job was made for it, the sweep and the
\* media.delete handler bring it to deleted, through lost leases, failed removals
\* and exhausted jobs.  Three outcomes are excepted: a request attaches it first;
\* it was a deleted recording's, keeps attached_at, and its job failed for good,
\* so that no sweep takes it; the consumer of its job's last attempt was lost.
UnusedIsErased ==
  \A a \in Assets :
    Sweepable(a) \/ asset[a].state = "deleting" ~>
      \/ asset[a].state = "deleted"
      \/ asset[a].attached /\ asset[a].state \in {"ready", "failed"}
      \/ \E j \in DeleteJobs : StrandedDelete(j) /\ del[j].asset = a
=============================================================================
