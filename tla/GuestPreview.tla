---------------------------- MODULE GuestPreview ----------------------------
(***************************************************************************)
(* What a guest recorded before signing in (backend/internal/guestpreview) *)
(* and its promotion to an account (auth/guest_promotion.go): one preview  *)
(* of one guest, its audio, its guest.preview job, the interview it may    *)
(* have been made from, the sweep that expires it, and a login that takes  *)
(* it over.  The login, the sweep and the handler race for the same rows.  *)
(*                                                                         *)
(* Abstractions.  Corrections are left out, and of transcript and duration *)
(* it is kept that they were saved (one UPDATE writes both; UpdateDuration *)
(* writes the same value again).  The admission limit refuses or does not: *)
(* a refused request changes nothing.  The media.delete job of the audio   *)
(* is that of MediaAssets, shown by its three outcomes: the audio is       *)
(* erased, the job fails for good, or its last attempt loses its consumer. *)
(***************************************************************************)
EXTENDS InterviewSession

CONSTANT Previewers  \* consumers of guest.preview

VARIABLES
  preview,    \* the row of guest_previews, its job, and the stage it is promoted to
  clip,       \* its row of media_assets; stranded: deleting, and Claim passes over the job
  login,      \* a sign-in that carries the guest's session
  previewer   \* what each consumer is doing

guestVars == <<interviewVars, preview, clip, login, previewer>>

PreviewRow ==
  [state : {"none", "queued", "processing", "ready", "failed", "promoted"},
   due : BOOLEAN, text : BOOLEAN,
   error : {"none", "timeline", "other", "expired"},
   job : {"none", "waiting", "running", "lapsed", "over"}, tries : 0..MaxTries,
   stage : {"none", "transcribing", "suggestions"}]

NoPreview == [state |-> "none", due |-> FALSE, text |-> FALSE, error |-> "none",
              job |-> "none", tries |-> 0, stage |-> "none"]
Waiting   == [phase |-> "idle", holds |-> FALSE, text |-> FALSE, linked |-> FALSE]
SignedOut == [phase |-> "idle", fresh |-> FALSE, merged |-> FALSE]

Previewing ==
  [phase : {"idle", "claim", "fetch", "seal", "compose", "hear", "save", "look", "complete",
            "report"},
   holds : BOOLEAN, text : BOOLEAN, linked : BOOLEAN]

GuestTypeOK ==
  /\ preview \in PreviewRow
  /\ clip \in {"ready", "held", "deleting", "stranded", "failed", "deleted", "account"}
  /\ login \in [phase : {"idle", "begun"}, fresh : BOOLEAN, merged : BOOLEAN]
  /\ previewer \in [Previewers -> Previewing]

GuestInit ==
  /\ InterviewInit
  /\ preview = NoPreview
  /\ clip = "ready"
  /\ login = SignedOut
  /\ previewer = [p \in Previewers |-> Waiting]

\* The merge revokes every session of the guest.
GuestMayCall == session.owner = "guest" => ~login.merged

\* A guest who has a preview gets no further interview.
MayInterview == session.owner = "guest" => preview.state = "none"

-----------------------------------------------------------------------------
\* The guest.

CreatePreview(linked) ==
  /\ session.owner = "guest" /\ GuestMayCall
  /\ preview.state = "none" /\ clip = "ready"
  /\ IF linked THEN LinkInterview("guest", "preview") ELSE UNCHANGED session
  /\ preview' = [NoPreview EXCEPT !.state = "queued", !.job = "waiting"]
  /\ clip' = "held"
  /\ UNCHANGED <<turns, reserve, job, worker, faults, login, previewer>>

\* A login takes its clock before its locks.
BeginLogin ==
  /\ session.owner = "guest" /\ login = SignedOut
  /\ login' = [phase |-> "begun", fresh |-> ~preview.due, merged |-> FALSE]
  /\ UNCHANGED <<interviewVars, preview, clip, previewer>>

\* Mutant of Promotable: promotion does not ask for the state of the audio.
PromotableAlways == TRUE

Promotable == clip = "held"

\* Only a ready preview hands over its text; the account job does the rest.
Promoted ==
  [preview EXCEPT !.state = "promoted", !.error = "none",
     !.job = IF @ = "waiting" THEN "over" ELSE @,
     !.stage = IF preview.state = "ready" THEN "suggestions" ELSE "transcribing"]

Transferred ==
  IF session.link = "preview"
    THEN [session EXCEPT !.status = "finalized", !.link = "recording", !.owner = "account"]
    ELSE session

\* mergeGuestPrincipal with promoteGuestPreview, in the transaction of the
\* login, which fails whole when the audio is gone.
Promote ==
  /\ login.phase = "begun"
  /\ \/ /\ preview.state = "none" \/ ~login.fresh
        /\ login' = [SignedOut EXCEPT !.merged = TRUE]
        /\ UNCHANGED <<session, preview, clip>>
     \/ /\ preview.state # "none" /\ login.fresh
        /\ Promotable
        /\ login' = [SignedOut EXCEPT !.merged = TRUE]
        /\ preview' = Promoted
        /\ clip' = IF clip = "held" THEN "account" ELSE clip
        /\ session' = Transferred
     \/ /\ preview.state # "none" /\ login.fresh
        /\ ~Promotable
        /\ login' = SignedOut
        /\ UNCHANGED <<session, preview, clip>>
  /\ UNCHANGED <<turns, reserve, job, worker, faults, previewer>>

-----------------------------------------------------------------------------
\* Time and maintenance.

PreviewDue ==
  /\ preview.state # "none" /\ ~preview.due
  /\ preview' = [preview EXCEPT !.due = TRUE]
  /\ UNCHANGED <<interviewVars, clip, login, previewer>>

\* Mutant of Expirable: audio whose erasure failed is not taken up again.
ExpirableOnce == clip = "held" \/ session.link = "preview"

Expirable == clip \in {"held", "failed"} \/ session.link = "preview"

\* Expire.  A running job keeps its row: its fence asks for the preview.
ExpirePreview ==
  /\ preview.state \notin {"none", "promoted"} /\ preview.due
  /\ Expirable
  /\ preview' = [preview EXCEPT !.state = "failed", !.error = "expired",
                                !.job = IF @ = "waiting" THEN "over" ELSE @]
  /\ clip' = IF clip \in {"held", "failed"} THEN "deleting" ELSE clip
  /\ IF session.link = "preview" THEN DropSession
                                 ELSE UNCHANGED <<session, turns, reserve, job, worker>>
  /\ UNCHANGED <<faults, login, previewer>>

EraseClip ==
  /\ clip \in {"deleting", "stranded"}
  /\ clip' = "deleted"
  /\ UNCHANGED <<interviewVars, preview, login, previewer>>

\* The delete job spends its attempts.
FailErase ==
  /\ Fault
  /\ clip \in {"deleting", "stranded"}
  /\ clip' = "failed"
  /\ UNCHANGED <<session, turns, reserve, job, worker, preview, login, previewer>>

\* The lease of the last attempt runs out.  Its consumer may still erase or report.
LoseErase ==
  /\ Fault
  /\ clip = "deleting"
  /\ clip' = "stranded"
  /\ UNCHANGED <<session, turns, reserve, job, worker, preview, login, previewer>>

-----------------------------------------------------------------------------
\* The handler.

Turn(p, phase) == previewer' = [previewer EXCEPT ![p].phase = phase]

\* The claims of the handler: the row is processing and its job is running with
\* this token, whose lease may have run out; most writes ask that it is not due.
Working(p) ==
  preview.state = "processing" /\ previewer[p].holds /\ preview.job \in {"running", "lapsed"}

Fenced(p) == Working(p) /\ ~preview.due

DeliverPreview(p) ==
  /\ previewer[p] = Waiting
  /\ preview.job \in {"waiting", "lapsed"} /\ preview.tries < MaxTries
  /\ preview' = [preview EXCEPT !.job = "running", !.tries = @ + 1]
  /\ previewer' = [q \in Previewers |->
       IF q = p THEN [Waiting EXCEPT !.phase = "claim", !.holds = TRUE]
                ELSE [previewer[q] EXCEPT !.holds = FALSE]]
  /\ UNCHANGED <<interviewVars, clip, login>>

\* Store.Claim asks for the job of the preview, not for its lease.
ClaimPreview(p) ==
  LET taken == preview.state = "processing" \/ (preview.state = "queued" /\ ~preview.due)
  IN /\ previewer[p].phase = "claim"
     /\ preview' = IF preview.state = "queued" /\ taken
                     THEN [preview EXCEPT !.state = "processing", !.error = "none"]
                     ELSE preview
     /\ previewer' = [previewer EXCEPT ![p] =
          [@ EXCEPT !.phase = IF taken THEN "fetch" ELSE "report",
                    !.text = preview.text, !.linked = session.link = "preview"]]
     /\ UNCHANGED <<interviewVars, clip, login>>

\* Mutant of FailedPreview: a job that gave up leaves the preview alone.
FailedPreviewNot(why) == preview

\* FinalizeFailure.
FailedPreview(why) ==
  IF preview.state \in {"queued", "processing"}
    THEN [preview EXCEPT !.state = "failed", !.error = why] ELSE preview

ReturnPreviewError(p, why) ==
  /\ preview' = IF ~previewer[p].holds THEN preview
                ELSE IF preview.tries < MaxTries THEN [preview EXCEPT !.job = "waiting"]
                ELSE [FailedPreview(why) EXCEPT !.job = "over"]
  /\ previewer' = [previewer EXCEPT ![p] = Waiting]

\* The audio is materialized, if it can be, and its duration measured.
FetchClip(p) ==
  /\ previewer[p].phase = "fetch"
  /\ IF clip \in {"held", "account"}
       THEN /\ Turn(p, IF previewer[p].linked THEN "seal"
                       ELSE IF previewer[p].text THEN "look" ELSE "hear")
            /\ UNCHANGED preview
       ELSE ReturnPreviewError(p, "other")
  /\ UNCHANGED <<interviewVars, clip, login>>

SealInterviewLastTurn(p) ==
  /\ previewer[p].phase = "seal"
  /\ IF Working(p) /\ session.link = "preview" THEN EndLastTurn ELSE UNCHANGED turns
  /\ Turn(p, "compose")
  /\ UNCHANGED <<session, reserve, job, worker, faults, preview, clip, login>>

\* ComposeInterviewTranscript is given the turns that were not skipped, and wants
\* them numbered from 1 without a gap, each with words.
Composes ==
  /\ Visible # {} /\ Visible = 1..Cardinality(Visible)
  /\ \A i \in Visible : turns[i].status = "ready" /\ turns[i].text \in Answers

Compose(p) ==
  /\ previewer[p].phase = "compose"
  /\ IF Composes THEN Turn(p, "save") /\ UNCHANGED preview
                 ELSE ReturnPreviewError(p, "timeline")
  /\ UNCHANGED <<interviewVars, clip, login>>

\* The audio of a free talk is transcribed; silence is an error: see FailPreview.
Transcribe(p) ==
  /\ previewer[p].phase = "hear"
  /\ Turn(p, "save")
  /\ UNCHANGED <<interviewVars, preview, clip, login>>

\* SaveTranscript, SaveInterviewTranscript: a handler that is no longer wanted
\* ends without an error.
SaveText(p) ==
  /\ previewer[p].phase = "save"
  /\ preview' = IF Fenced(p) THEN [preview EXCEPT !.text = TRUE] ELSE preview
  /\ Turn(p, IF Fenced(p) THEN "look" ELSE "report")
  /\ UNCHANGED <<interviewVars, clip, login>>

\* Before the analyzer is paid.
IsActive(p) ==
  /\ previewer[p].phase = "look"
  /\ Turn(p, IF preview.state = "processing" /\ ~preview.due THEN "complete" ELSE "report")
  /\ UNCHANGED <<interviewVars, preview, clip, login>>

Complete(p) ==
  /\ previewer[p].phase = "complete"
  /\ preview' = IF Fenced(p) THEN [preview EXCEPT !.state = "ready", !.error = "none"]
                             ELSE preview
  /\ Turn(p, "report")
  /\ UNCHANGED <<interviewVars, clip, login>>

ReportPreview(p) ==
  /\ previewer[p].phase = "report"
  /\ preview' = IF previewer[p].holds THEN [preview EXCEPT !.job = "over"] ELSE preview
  /\ previewer' = [previewer EXCEPT ![p] = Waiting]
  /\ UNCHANGED <<interviewVars, clip, login>>

\* The store, a provider or the database fails under the handler.
FailPreview(p) ==
  /\ Fault
  /\ previewer[p].phase \notin {"idle", "report"}
  /\ ReturnPreviewError(p, "other")
  /\ UNCHANGED <<session, turns, reserve, job, worker, clip, login>>

LosePreview(p) ==
  /\ Fault
  /\ previewer[p].holds /\ preview.job = "running"
  /\ preview' = [preview EXCEPT !.job = "lapsed"]
  /\ UNCHANGED <<session, turns, reserve, job, worker, clip, login, previewer>>

\* The handler of a lost lease is cancelled, or its process has died.
StopPreview(p) ==
  /\ previewer[p] # Waiting
  /\ ~previewer[p].holds \/ preview.job # "running"
  /\ previewer' = [previewer EXCEPT ![p] = Waiting]
  /\ UNCHANGED <<interviewVars, preview, clip, login>>

HandlePreview(p) ==
  \/ ClaimPreview(p) \/ FetchClip(p) \/ SealInterviewLastTurn(p) \/ Compose(p)
  \/ Transcribe(p) \/ SaveText(p) \/ IsActive(p) \/ Complete(p) \/ ReportPreview(p)

-----------------------------------------------------------------------------
\* The web client polls while it shows an interview without a next question.
Poll == GuestMayCall /\ EnsureRefill /\ UNCHANGED <<preview, clip, login, previewer>>

InterviewStep ==
  /\ \/ GuestMayCall /\ ClientNext /\ (MayInterview \/ session.status # "none")
     \/ SessionExpires \/ ExpireSessions \/ WorkerNext
  /\ UNCHANGED <<preview, clip, login, previewer>>

GuestNext ==
  \/ InterviewStep
  \/ (\E linked \in BOOLEAN : CreatePreview(linked))
  \/ BeginLogin \/ Promote
  \/ PreviewDue \/ ExpirePreview \/ EraseClip \/ FailErase \/ LoseErase
  \/ \E p \in Previewers :
       DeliverPreview(p) \/ HandlePreview(p) \/ FailPreview(p) \/ LosePreview(p) \/ StopPreview(p)

\* The queue delivers, handlers end, maintenance sweeps, clients poll, and the
\* media.delete job runs until it is stranded.  No preview need fall due while its
\* outcome is awaited.
GuestFairness ==
  /\ InterviewFairness
  /\ WF_guestVars(Poll)
  /\ SF_guestVars(\E p \in Previewers : DeliverPreview(p))
  /\ \A p \in Previewers : WF_guestVars(HandlePreview(p))
  /\ WF_guestVars(ExpirePreview) /\ WF_guestVars(clip = "deleting" /\ EraseClip)

GuestSpec == GuestInit /\ [][GuestNext]_guestVars /\ GuestFairness

-----------------------------------------------------------------------------
\* An interview does not run dry: when no question is left a polling client gets
\* another one, unless the recording ends first, the guest signs in elsewhere, or
\* the consumer of a last attempt was lost.
QuestionComes ==
  session.status = "recording" /\ reserve = {} ~>
    \/ reserve # {}
    \/ session.status # "recording"
    \/ ~GuestMayCall
    \/ \E j \in Jobs : Stranded(j)

\* A promotion hands over whole: the recording has its audio and, if it skips
\* transcription, its text; the interview it was made from is reachable from
\* the account.  Whatever the sweep or the handler did first
\* (promoteGuestPreview against Expire and Complete).
PromotionIsWhole ==
  /\ preview.state = "promoted" <=> clip = "account"
  /\ preview.state = "promoted" =>
       /\ preview.stage = "suggestions" => preview.text
       /\ session.link # "preview"

(* The parts of the inductive invariant from which it follows. *)

\* Only a preview that was created has a text, and one that is ready has it.
TextHasPreview == preview.text => preview.state # "none"
ReadyHasText   == preview.state = "ready" \/ preview.stage = "suggestions" => preview.text

\* A handler that goes on without transcribing has seen the text, or saved it.
HandlerHasText ==
  \A p \in Previewers :
    previewer[p].text \/ previewer[p].phase \in {"look", "complete"} => preview.text

\* The interview of a preview goes with it.
LinkHasPreview == session.link = "preview" => preview.state \notin {"none", "promoted"}

GuestPart == /\ TextHasPreview /\ ReadyHasText /\ HandlerHasText /\ LinkHasPreview
             /\ PromotionIsWhole

GuestInv == InterviewInv /\ GuestTypeOK /\ GuestPart

\* A guest is told how the preview ended without waiting for the sweep, unless
\* the consumer of its last attempt was lost.
PreviewEnds ==
  preview.state \in {"queued", "processing"} ~>
    \/ preview.state \in {"ready", "failed", "promoted"}
    \/ preview.job = "lapsed" /\ preview.tries = MaxTries

\* What a guest leaves behind is erased once due, with the interview it was made
\* from, and a failed erasure is taken up again.  The audio stays, unless the
\* handler still ends, when the consumer of a last attempt to erase it was lost.
ExpiredIsErased ==
  preview.due ~> \/ preview.state = "promoted"
                 \/ clip \in {"deleted", "stranded"} /\ session.link # "preview"

\* A skipped question is left out of the dialogue and never fails a preview:
\* only an answer without words does (ComposeInterviewTranscript: "Skipped turns
\* remain in that timeline so its sequence can be validated").
SkippedIsLeftOut ==
  preview.error = "timeline" => \E i \in Visible : turns[i].text \notin Answers
=============================================================================
