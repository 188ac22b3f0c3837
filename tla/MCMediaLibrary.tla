--------------------------- MODULE MCMediaLibrary ---------------------------
(***************************************************************************)
(* Uploads and generated audio are rows of their own that share only the   *)
(* sweep and the media.delete handlers, so an initial state offers one of  *)
(* three histories: a client uploads beside an answer it uploaded before,  *)
(* which is in use or was aborted and removed; the feedback of a recording *)
(* is spoken; or a first attempt to remove an asset has failed.            *)
(***************************************************************************)
EXTENDS MediaLibrary, TLC

CONSTANTS u1, u2, p1, w1, w2, r1, r2, k1, k2, e1, e2, d1, d2

MCUploads == {u1, u2}
MCPhrases == {p1}
MCAssets  == MCUploads \cup MCPhrases

Untouched ==
  /\ driver \in {"local", "s3"}
  /\ eraser = [e \in Erasers |-> Resting]
  /\ parts = [u \in Uploads |-> None]
  /\ request = [r \in Requests |-> Free]
  /\ voice = [w \in Makers |-> Silent]

Earlier(u, state, row) ==
  /\ upload = [v \in Uploads |-> IF v # u THEN NoUpload ELSE
                 [state |-> state, key |-> k2, expired |-> TRUE, stale |-> FALSE]]
  /\ asset = [a \in Assets |-> IF a # u THEN NoAsset ELSE row]
  /\ file = [a \in Assets |-> IF a = u /\ row.state # "deleted" THEN u ELSE None]
  /\ meta = file

NothingSwept == del = [j \in DeleteJobs |-> NoDelete] /\ swept = {}

Uploading ==
  /\ NothingSwept
  /\ session = TRUE
  /\ audio = [p \in Phrases |-> NoJob("gone")]
  /\ \/ /\ Earlier(u2, "aborted", [NewAsset("deleted", u2) EXCEPT !.due = TRUE, !.erased = TRUE])
        /\ faults = 0
     \/ /\ Earlier(u2, "completed", [NewAsset("ready", u2) EXCEPT !.attached = TRUE])
        /\ faults = MaxFaults

Speaking ==
  /\ LibraryInit
  /\ session = FALSE
  /\ audio = [p \in Phrases |-> NoJob("none")]

\* Nobody attached the asset, or its recording was deleted; one attempt is left.
Removing ==
  /\ \E attached \in BOOLEAN : Earlier(u2, "completed",
       [NewAsset("deleting", u2) EXCEPT !.attached = attached, !.due = TRUE])
  /\ del = [j \in DeleteJobs |-> IF j # d1 THEN NoDelete ELSE
              [state |-> "waiting", asset |-> u2, tries |-> DeleteTries - 1]]
  /\ swept = {u2}
  /\ session = FALSE
  /\ audio = [p \in Phrases |-> NoJob("gone")]
  /\ faults = 0

MCInit == (Untouched /\ (Uploading \/ Removing)) \/ Speaking

MCSpec == MCInit /\ [][LibraryNext]_libraryVars
MCFairSpec == MCSpec /\ CleanupFairness /\ UploadFairness /\ VoiceFairness
=============================================================================
