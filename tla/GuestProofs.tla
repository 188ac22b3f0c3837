---------------------------- MODULE GuestProofs ----------------------------
(***************************************************************************)
(* Proofs about GuestPreview for any number of consumers, attempts and     *)
(* faults: the guest, the handler and the sweep keep the invariant of the  *)
(* interview, and a promotion is whole.                                    *)
(***************************************************************************)
EXTENDS GuestPreview, InterviewProofs

(* The steps that touch the interview *)

\* Seal ends the last turn of the interview a preview was made from.
LEMMA SealKeeps ==
  ASSUME InterviewInv, EndLastTurn, UNCHANGED <<session, reserve, job, worker, faults>>
  PROVE  InterviewInv'
PROOF
  <1>1. InterviewTypeOK'
    BY EndLastTurnType DEF InterviewInv, InterviewTypeOK
  <1>2. SessionPart'
    BY TurnsType DEF InterviewInv, InterviewTypeOK, SessionRow, SessionPart, NotStarted, LinkedLate,
                     LinkedIsAnswered, Unlinked, Answered, Visible, EndLastTurn
  <1>3. JobPart'
    BY TurnsType DEF InterviewInv, JobPart, OneHolder, HeldIsActive, JobHasItsTurn, Active, Visible,
                     EndLastTurn
  <1>4. QuestionPart'
    BY JobKinds, TurnsType DEF InterviewInv, InterviewTypeOK, JobRow, Consumer, QuestionPart,
       ReadyIsDecided, SourceIsReady, AdaptiveFollowsAnswer, HearingIsFirst, AskingIsCurrent,
       Undecided, Asked, Visible, Leased, Active, JobPart, JobHasItsTurn, EndLastTurn
  <1> QED
    BY <1>1, <1>2, <1>3, <1>4 DEF InterviewInv

\* A link, or a transfer to the account, writes the session row only.
LEMMA SessionRowKeeps ==
  ASSUME InterviewInv, session' \in SessionRow, SessionPart',
         UNCHANGED <<turns, reserve, job, worker, faults>>
  PROVE  InterviewInv'
PROOF
  <1>1. InterviewTypeOK'
    BY DEF InterviewInv, InterviewTypeOK
  <1> QED
    BY <1>1, SessionOnly DEF InterviewInv

LEMMA LinkKeeps ==
  ASSUME InterviewInv, LinkInterview("guest", "preview"),
         UNCHANGED <<turns, reserve, job, worker, faults>>
  PROVE  InterviewInv'
PROOF
  <1>1. session' \in SessionRow
    BY DEF LinkInterview, InterviewInv, InterviewTypeOK, SessionRow
  <1>2. SessionPart'
    BY DEF LinkInterview, InterviewInv, InterviewTypeOK, SessionRow, SessionPart, NotStarted,
           LinkedLate, LinkedIsAnswered, Unlinked, Answered, Visible
  <1> QED
    BY <1>1, <1>2, SessionRowKeeps

LEMMA TransferKeeps ==
  ASSUME InterviewInv, session' = Transferred, UNCHANGED <<turns, reserve, job, worker, faults>>
  PROVE  InterviewInv'
PROOF
  <1>1. session' \in SessionRow
    BY DEF Transferred, InterviewInv, InterviewTypeOK, SessionRow
  <1>2. SessionPart'
    BY DEF Transferred, InterviewInv, InterviewTypeOK, SessionRow, SessionPart, NotStarted,
           LinkedLate, LinkedIsAnswered, Unlinked, Answered, Visible
  <1> QED
    BY <1>1, <1>2, SessionRowKeeps

LEMMA FaultsKeep ==
  ASSUME InterviewInv, faults' \in 0..MaxFaults, UNCHANGED <<session, turns, reserve, job, worker>>
  PROVE  InterviewInv'
PROOF
  <1>1. InterviewTypeOK'
    BY DEF InterviewInv, InterviewTypeOK
  <1>2. SessionPart'
    BY DEF InterviewInv, SessionPart, NotStarted, LinkedLate, LinkedIsAnswered, Unlinked, Answered,
           Visible
  <1> QED
    BY <1>1, <1>2, SessionOnly DEF InterviewInv

LEMMA DropKeeps ==
  ASSUME InterviewInv, DropSession, faults' = faults
  PROVE  InterviewInv'
PROOF
  <1>1. InterviewTypeOK'
    BY DropSessionType DEF InterviewInv
  <1> QED
    BY <1>1, DropSessionKeeps DEF InterviewInv, Parts

LEMMA FaultType ==
  ASSUME InterviewInv, Fault
  PROVE  faults' \in 0..MaxFaults
PROOF
  BY InterviewAssumption DEF InterviewInv, InterviewTypeOK, Fault

LEMMA PreviewerKeeps ==
  ASSUME InterviewInv, NEW p \in Previewers,
         DeliverPreview(p) \/ HandlePreview(p) \/ FailPreview(p) \/ LosePreview(p) \/ StopPreview(p)
  PROVE  InterviewInv'
PROOF
  <1>1. CASE SealInterviewLastTurn(p)
    <2>1. CASE EndLastTurn
      BY <1>1, <2>1, SealKeeps DEF SealInterviewLastTurn
    <2>2. CASE UNCHANGED turns
      BY <1>1, <2>2, UnchangedKeeps DEF SealInterviewLastTurn, interviewVars
    <2> QED
      BY <1>1, <2>1, <2>2 DEF SealInterviewLastTurn
  <1>2. CASE FailPreview(p) \/ LosePreview(p)
    BY <1>2, FaultType, FaultsKeep DEF FailPreview, LosePreview
  <1>3. CASE \/ DeliverPreview(p) \/ StopPreview(p)
             \/ ClaimPreview(p) \/ FetchClip(p) \/ Compose(p) \/ Transcribe(p) \/ SaveText(p)
             \/ IsActive(p) \/ Complete(p) \/ ReportPreview(p)
    BY <1>3, UnchangedKeeps
       DEF DeliverPreview, StopPreview, ClaimPreview, FetchClip, Compose, Transcribe, SaveText,
           IsActive, Complete, ReportPreview
  <1> QED
    BY <1>1, <1>2, <1>3 DEF HandlePreview

LEMMA GuestKeepsInterview ==
  ASSUME InterviewInv, [GuestNext]_guestVars
  PROVE  InterviewInv'
PROOF
  <1>1. CASE InterviewStep
    BY <1>1, InterviewInductive DEF InterviewStep, InterviewNext
  <1>2. CASE \E linked \in BOOLEAN : CreatePreview(linked)
    <2> PICK linked \in BOOLEAN : CreatePreview(linked)
      BY <1>2
    <2>1. CASE linked
      BY <2>1, LinkKeeps DEF CreatePreview
    <2>2. CASE ~linked
      BY <2>2, UnchangedKeeps DEF CreatePreview, interviewVars
    <2> QED
      BY <2>1, <2>2
  <1>3. CASE Promote
    <2>1. CASE session' = Transferred
      BY <1>3, <2>1, TransferKeeps DEF Promote
    <2>2. CASE UNCHANGED session
      BY <1>3, <2>2, UnchangedKeeps DEF Promote, interviewVars
    <2> QED
      BY <1>3, <2>1, <2>2 DEF Promote
  <1>4. CASE BeginLogin \/ PreviewDue \/ EraseClip \/ UNCHANGED guestVars
    BY <1>4, UnchangedKeeps DEF BeginLogin, PreviewDue, EraseClip, guestVars
  <1>5. CASE ExpirePreview
    <2>1. CASE session.link = "preview"
      BY <1>5, <2>1, DropKeeps DEF ExpirePreview
    <2>2. CASE session.link # "preview"
      BY <1>5, <2>2, UnchangedKeeps DEF ExpirePreview, interviewVars
    <2> QED
      BY <2>1, <2>2
  <1>6. CASE FailErase \/ LoseErase
    BY <1>6, FaultType, FaultsKeep DEF FailErase, LoseErase
  <1> QED
    BY <1>1, <1>2, <1>3, <1>4, <1>5, <1>6, PreviewerKeeps DEF GuestNext

(* Types *)

LEMMA ReturnPreviewErrorType ==
  ASSUME GuestTypeOK, NEW p \in Previewers, NEW why \in {"timeline", "other"},
         ReturnPreviewError(p, why)
  PROVE  preview' \in PreviewRow /\ previewer' \in [Previewers -> Previewing]
PROOF
  <1>1. Waiting \in Previewing
    BY DEF Waiting, Previewing
  <1>2. FailedPreview(why) \in PreviewRow
    BY DEF FailedPreview, GuestTypeOK, PreviewRow
  <1>3. preview' \in PreviewRow
    BY <1>2 DEF ReturnPreviewError, GuestTypeOK, PreviewRow
  <1> QED
    BY <1>1, <1>3 DEF ReturnPreviewError, GuestTypeOK

LEMMA TurnEffect ==
  ASSUME GuestTypeOK, NEW p \in Previewers,
         NEW phase \in {"seal", "compose", "hear", "save", "look", "complete", "report"},
         Turn(p, phase)
  PROVE  /\ previewer' \in [Previewers -> Previewing]
         /\ \A q \in Previewers : previewer'[q].text = previewer[q].text
         /\ \A q \in Previewers : previewer'[q].phase = IF q = p THEN phase ELSE previewer[q].phase
PROOF
  BY DEF Turn, GuestTypeOK, Previewing

LEMMA PreviewerType ==
  ASSUME GuestTypeOK, InterviewInv, NEW p \in Previewers,
         DeliverPreview(p) \/ HandlePreview(p) \/ FailPreview(p) \/ LosePreview(p) \/ StopPreview(p)
  PROVE  GuestTypeOK'
PROOF
  <1> USE DEF GuestTypeOK
  <1>1. CASE DeliverPreview(p)
    <2>1. preview' \in PreviewRow
      <3>1. preview.tries + 1 \in 0..MaxTries
        BY <1>1, InterviewAssumption DEF DeliverPreview, PreviewRow
      <3>2. preview' = [preview EXCEPT !.job = "running", !.tries = preview.tries + 1]
        BY <1>1 DEF DeliverPreview
      <3> QED
        BY <3>1, <3>2 DEF PreviewRow
    <2>2. previewer' \in [Previewers -> Previewing]
      BY <1>1 DEF DeliverPreview, Previewing, Waiting
    <2> QED
      BY <1>1, <2>1, <2>2 DEF DeliverPreview
  <1>2. CASE ClaimPreview(p)
    <2>1. preview' \in PreviewRow
      BY <1>2 DEF ClaimPreview, PreviewRow
    <2>2. preview.text \in BOOLEAN
      BY DEF PreviewRow
    <2>3. previewer' \in [Previewers -> Previewing]
      <3> DEFINE taken == preview.state = "processing" \/ (preview.state = "queued" /\ ~preview.due)
                 phase  == IF taken THEN "fetch" ELSE "report"
                 linked == session.link = "preview"
                 new    == [previewer[p] EXCEPT !.phase = phase, !.text = preview.text, !.linked = linked]
      <3>1. phase \in {"fetch", "report"} /\ linked \in BOOLEAN
        OBVIOUS
      <3>2. new \in Previewing
        <4> HIDE DEF phase, linked
        <4> QED
          BY <2>2, <3>1 DEF Previewing
      <3>3. previewer' = [previewer EXCEPT ![p] = new]
        BY <1>2 DEF ClaimPreview
      <3> HIDE DEF new
      <3> QED
        BY <3>2, <3>3
    <2> QED
      BY <1>2, <2>1, <2>3 DEF ClaimPreview
  <1>3. CASE FetchClip(p)
    BY <1>3, TurnEffect, ReturnPreviewErrorType DEF FetchClip
  <1>4. CASE SealInterviewLastTurn(p)
    BY <1>4, TurnEffect DEF SealInterviewLastTurn
  <1>5. CASE Compose(p)
    BY <1>5, TurnEffect, ReturnPreviewErrorType DEF Compose
  <1>6. CASE Transcribe(p) \/ IsActive(p)
    BY <1>6, TurnEffect DEF Transcribe, IsActive
  <1>7. CASE SaveText(p)
    <2>1. preview' \in PreviewRow
      BY <1>7 DEF SaveText, PreviewRow
    <2> QED
      BY <1>7, <2>1, TurnEffect DEF SaveText
  <1>8. CASE Complete(p)
    <2>1. preview' \in PreviewRow
      BY <1>8 DEF Complete, PreviewRow
    <2> QED
      BY <1>8, <2>1, TurnEffect DEF Complete
  <1>9. CASE ReportPreview(p)
    <2>1. preview' \in PreviewRow
      BY <1>9 DEF ReportPreview, PreviewRow
    <2>2. previewer' \in [Previewers -> Previewing]
      BY <1>9 DEF ReportPreview, Waiting, Previewing
    <2> QED
      BY <1>9, <2>1, <2>2 DEF ReportPreview
  <1>10. CASE FailPreview(p)
    BY <1>10, ReturnPreviewErrorType DEF FailPreview
  <1>11. CASE LosePreview(p)
    BY <1>11 DEF LosePreview, PreviewRow
  <1>12. CASE StopPreview(p)
    BY <1>12 DEF StopPreview, Waiting, Previewing
  <1> QED
    BY <1>1, <1>2, <1>3, <1>4, <1>5, <1>6, <1>7, <1>8, <1>9, <1>10, <1>11, <1>12 DEF HandlePreview

LEMMA GuestTypeStep ==
  ASSUME GuestTypeOK, InterviewInv, [GuestNext]_guestVars
  PROVE  GuestTypeOK'
PROOF
  <1> USE DEF GuestTypeOK
  <1>1. CASE InterviewStep \/ UNCHANGED guestVars
    BY <1>1 DEF InterviewStep, guestVars
  <1>2. CASE \E linked \in BOOLEAN : CreatePreview(linked)
    <2>1. preview' \in PreviewRow
      <3>1. NoPreview \in PreviewRow
        BY InterviewAssumption DEF NoPreview, PreviewRow
      <3>2. preview' = [NoPreview EXCEPT !.state = "queued", !.job = "waiting"]
        BY <1>2 DEF CreatePreview
      <3> QED
        BY <3>1, <3>2 DEF PreviewRow
    <2> QED
      BY <1>2, <2>1 DEF CreatePreview
  <1>3. CASE BeginLogin
    <2>1. preview.due \in BOOLEAN
      BY DEF PreviewRow
    <2> QED
      BY <1>3, <2>1 DEF BeginLogin
  <1>4. CASE Promote
    <2>1. Promoted \in PreviewRow
      BY DEF Promoted, PreviewRow
    <2>2. login' \in [phase : {"idle", "begun"}, fresh : BOOLEAN, merged : BOOLEAN]
      <3>1. SignedOut \in [phase : {"idle", "begun"}, fresh : BOOLEAN, merged : BOOLEAN]
        BY DEF SignedOut
      <3>2. login' = [SignedOut EXCEPT !.merged = TRUE] \/ login' = SignedOut
        BY <1>4 DEF Promote
      <3> QED
        BY <3>1, <3>2
    <2> QED
      BY <1>4, <2>1, <2>2 DEF Promote
  <1>5. CASE PreviewDue
    BY <1>5 DEF PreviewDue, PreviewRow
  <1>6. CASE ExpirePreview
    <2>1. preview' \in PreviewRow
      BY <1>6 DEF ExpirePreview, PreviewRow
    <2> QED
      BY <1>6, <2>1 DEF ExpirePreview
  <1>7. CASE EraseClip \/ FailErase \/ LoseErase
    BY <1>7 DEF EraseClip, FailErase, LoseErase
  <1> QED
    BY <1>1, <1>2, <1>3, <1>4, <1>5, <1>6, <1>7, PreviewerType DEF GuestNext

(* A promotion is whole *)

\* No step of the interview itself gives it to a preview.
LEMMA LinkStays ==
  ASSUME InterviewTypeOK, InterviewNext
  PROVE  session'.link = "preview" => session.link = "preview"
PROOF
  <1> USE DEF InterviewTypeOK, SessionRow
  <1>1. CASE ClientNext
    BY <1>1 DEF ClientNext, CreateSession, FailExpired, Start, Advance, SkipTurn, AttachAudio,
                SaveTurnTranscript, EnsureRefill, Cancel, LinkRecording, LinkInterview, Finalize
  <1>2. CASE SessionExpires \/ ExpireSessions
    BY <1>2 DEF SessionExpires, ExpireSessions, DropSession
  <1>3. CASE WorkerNext
    <2> PICK w \in Workers :
          \/ \E j \in Jobs : ClaimJob(w, j)
          \/ HandleJob(w) \/ FailJob(w) \/ LoseLease(w) \/ StopJob(w)
      BY <1>3 DEF WorkerNext
    <2>1. ReturnError(w) => session'.link = session.link
      BY DEF ReturnError
    <2>2. CASE HandleJob(w)
      BY <2>1, <2>2 DEF HandleJob, LoadWork, SavePreparation, SaveTranscript, SaveAdaptive, Offer,
                        SaveRefill, ReportJob
    <2>3. CASE \/ \E j \in Jobs : ClaimJob(w, j)
               \/ FailJob(w) \/ LoseLease(w) \/ StopJob(w)
      BY <2>1, <2>3 DEF ClaimJob, FailJob, LoseLease, StopJob
    <2> QED
      BY <2>2, <2>3
  <1> QED
    BY <1>1, <1>2, <1>3 DEF InterviewNext

LEMMA ErrorKeeps ==
  ASSUME GuestTypeOK, GuestPart, NEW p \in Previewers, NEW why \in {"timeline", "other"},
         ReturnPreviewError(p, why), UNCHANGED <<session, clip>>
  PROVE  GuestPart'
PROOF
  <1>1. /\ preview'.text = preview.text /\ preview'.stage = preview.stage
        /\ \/ preview'.state = preview.state
           \/ preview.state \in {"queued", "processing"} /\ preview'.state = "failed"
    BY DEF ReturnPreviewError, FailedPreview, GuestTypeOK, PreviewRow
  <1>2. HandlerHasText'
    BY <1>1 DEF GuestPart, HandlerHasText, GuestTypeOK, ReturnPreviewError, Waiting
  <1> QED
    BY <1>1, <1>2
       DEF GuestPart, TextHasPreview, ReadyHasText, LinkHasPreview, PromotionIsWhole

LEMMA PreviewerKeepsWhole ==
  ASSUME GuestTypeOK, GuestPart, NEW p \in Previewers,
         DeliverPreview(p) \/ HandlePreview(p) \/ FailPreview(p) \/ LosePreview(p) \/ StopPreview(p)
  PROVE  GuestPart'
PROOF
  <1>0. UNCHANGED <<session, clip>>
    BY DEF DeliverPreview, HandlePreview, ClaimPreview, FetchClip, SealInterviewLastTurn, Compose,
           Transcribe, SaveText, IsActive, Complete, ReportPreview, FailPreview, LosePreview,
           StopPreview, interviewVars
  <1>1. CASE DeliverPreview(p)
    <2>1. /\ preview'.text = preview.text /\ preview'.stage = preview.stage
          /\ preview'.state = preview.state
      BY <1>1 DEF DeliverPreview, GuestTypeOK, PreviewRow
    <2>2. HandlerHasText'
      BY <1>1, <2>1 DEF DeliverPreview, GuestPart, HandlerHasText, GuestTypeOK, Previewing, Waiting
    <2> QED
      BY <1>0, <2>1, <2>2
         DEF GuestPart, TextHasPreview, ReadyHasText, LinkHasPreview, PromotionIsWhole
  <1>2. CASE ClaimPreview(p)
    <2>1. /\ preview'.text = preview.text /\ preview'.stage = preview.stage
          /\ \/ preview'.state = preview.state
             \/ preview.state = "queued" /\ preview'.state = "processing"
      BY <1>2 DEF ClaimPreview, GuestTypeOK, PreviewRow
    <2>2. HandlerHasText'
      BY <1>2, <2>1 DEF ClaimPreview, GuestPart, HandlerHasText, GuestTypeOK, Previewing
    <2> QED
      BY <1>0, <2>1, <2>2
         DEF GuestPart, TextHasPreview, ReadyHasText, LinkHasPreview, PromotionIsWhole
  <1>3. CASE /\ UNCHANGED preview
             /\ \E phase \in {"seal", "compose", "hear", "save", "look", "complete", "report"} :
                  /\ Turn(p, phase)
                  /\ phase = "look" => previewer[p].text
                  /\ phase = "complete" => previewer[p].phase = "look"
    <2>1. HandlerHasText'
      BY <1>3, TurnEffect DEF GuestPart, HandlerHasText
    <2> QED
      BY <1>0, <1>3, <2>1
         DEF GuestPart, TextHasPreview, ReadyHasText, LinkHasPreview, PromotionIsWhole
  <1>4. CASE SaveText(p)
    <2>1. /\ preview'.state = preview.state /\ preview'.stage = preview.stage
          /\ preview.text => preview'.text
          /\ Fenced(p) => preview'.text /\ preview.state = "processing"
          /\ ~Fenced(p) => preview'.text = preview.text
      BY <1>4 DEF SaveText, Fenced, Working, GuestTypeOK, PreviewRow
    <2>2. HandlerHasText'
      <3>1. CASE Fenced(p)
        BY <2>1, <3>1 DEF HandlerHasText
      <3>2. CASE ~Fenced(p)
        <4>1. Turn(p, "report")
          BY <1>4, <3>2 DEF SaveText
        <4> QED
          BY <2>1, <3>2, <4>1, TurnEffect DEF GuestPart, HandlerHasText
      <3> QED
        BY <3>1, <3>2
    <2> QED
      BY <1>0, <2>1, <2>2
         DEF GuestPart, TextHasPreview, ReadyHasText, LinkHasPreview, PromotionIsWhole
  <1>5. CASE Complete(p)
    <2>1. /\ preview'.text = preview.text /\ preview'.stage = preview.stage
          /\ \/ preview'.state = preview.state
             \/ preview.state = "processing" /\ preview'.state = "ready"
      BY <1>5 DEF Complete, Fenced, Working, GuestTypeOK, PreviewRow
    <2>2. preview.text
      BY <1>5 DEF Complete, GuestPart, HandlerHasText
    <2>3. HandlerHasText'
      BY <2>1, <2>2 DEF HandlerHasText
    <2> QED
      BY <1>0, <2>1, <2>2, <2>3
         DEF GuestPart, TextHasPreview, ReadyHasText, LinkHasPreview, PromotionIsWhole
  <1>6. CASE ReportPreview(p) \/ LosePreview(p) \/ StopPreview(p)
    <2>1. /\ preview'.text = preview.text /\ preview'.stage = preview.stage
          /\ preview'.state = preview.state
      BY <1>6 DEF ReportPreview, LosePreview, StopPreview, GuestTypeOK, PreviewRow
    <2>2. HandlerHasText'
      BY <1>6, <2>1
         DEF ReportPreview, LosePreview, StopPreview, GuestPart, HandlerHasText, GuestTypeOK, Waiting
    <2> QED
      BY <1>0, <2>1, <2>2
         DEF GuestPart, TextHasPreview, ReadyHasText, LinkHasPreview, PromotionIsWhole
  <1>7. CASE \E why \in {"timeline", "other"} : ReturnPreviewError(p, why)
    BY <1>0, <1>7, ErrorKeeps
  <1>8. FetchClip(p) \/ Compose(p) \/ FailPreview(p) =>
          \/ \E why \in {"timeline", "other"} : ReturnPreviewError(p, why)
          \/ /\ UNCHANGED preview
             /\ \E phase \in {"seal", "hear", "save", "look"} :
                  Turn(p, phase) /\ (phase = "look" => previewer[p].text)
    BY DEF FetchClip, Compose, FailPreview
  <1>9. SealInterviewLastTurn(p) \/ Transcribe(p) \/ IsActive(p) =>
          /\ UNCHANGED preview
          /\ \E phase \in {"compose", "save", "complete", "report"} :
               Turn(p, phase) /\ (phase = "complete" => previewer[p].phase = "look")
    BY DEF SealInterviewLastTurn, Transcribe, IsActive
  <1>10. CASE FetchClip(p) \/ Compose(p) \/ FailPreview(p)
    <2>1. CASE \E why \in {"timeline", "other"} : ReturnPreviewError(p, why)
      BY <1>7, <2>1
    <2>2. CASE /\ UNCHANGED preview
               /\ \E phase \in {"seal", "hear", "save", "look"} :
                    Turn(p, phase) /\ (phase = "look" => previewer[p].text)
      BY <1>3, <2>2
    <2> QED
      BY <1>8, <1>10, <2>1, <2>2
  <1>11. CASE SealInterviewLastTurn(p) \/ Transcribe(p) \/ IsActive(p)
    BY <1>3, <1>9, <1>11
  <1> QED
    BY <1>1, <1>2, <1>4, <1>5, <1>6, <1>10, <1>11 DEF HandlePreview

LEMMA GuestKeepsWhole ==
  ASSUME InterviewInv, GuestTypeOK, GuestPart, [GuestNext]_guestVars
  PROVE  GuestPart'
PROOF
  <1> USE DEF GuestPart
  <1>1. CASE InterviewStep \/ UNCHANGED guestVars
    <2>1. UNCHANGED <<preview, clip, previewer>>
      BY <1>1 DEF InterviewStep, guestVars
    <2>2. session'.link = "preview" => session.link = "preview"
      <3>1. CASE InterviewNext
        BY <3>1, LinkStays DEF InterviewInv
      <3>2. CASE UNCHANGED session
        BY <3>2
      <3> QED
        BY <1>1, <3>1, <3>2 DEF InterviewStep, InterviewNext, guestVars, interviewVars
    <2> QED
      BY <2>1, <2>2
         DEF TextHasPreview, ReadyHasText, HandlerHasText, LinkHasPreview, PromotionIsWhole
  <1>2. CASE \E linked \in BOOLEAN : CreatePreview(linked)
    <2>1. /\ preview.state = "none" /\ clip = "ready" /\ clip' = "held" /\ previewer' = previewer
          /\ preview'.state = "queued" /\ preview'.text = FALSE /\ preview'.stage = "none"
      BY <1>2 DEF CreatePreview, NoPreview
    <2>2. HandlerHasText'
      BY <2>1 DEF HandlerHasText, TextHasPreview
    <2> QED
      BY <2>1, <2>2 DEF TextHasPreview, ReadyHasText, LinkHasPreview, PromotionIsWhole
  <1>3. CASE Promote
    <2>1. CASE UNCHANGED <<session, preview, clip>>
      BY <1>3, <2>1
         DEF Promote, TextHasPreview, ReadyHasText, HandlerHasText, LinkHasPreview, PromotionIsWhole
    <2>2. CASE /\ preview.state # "none" /\ clip = "held" /\ clip' = "account"
               /\ preview' = Promoted /\ session' = Transferred
      <3>1. /\ preview'.state = "promoted" /\ preview'.text = preview.text
            /\ preview'.stage = "suggestions" => preview.state = "ready"
        BY <2>2 DEF Promoted, GuestTypeOK, PreviewRow
      <3>2. session'.link # "preview"
        BY <2>2 DEF Transferred, InterviewInv, InterviewTypeOK, SessionRow
      <3>3. HandlerHasText'
        BY <1>3, <3>1 DEF Promote, HandlerHasText
      <3> QED
        BY <2>2, <3>1, <3>2, <3>3
           DEF TextHasPreview, ReadyHasText, LinkHasPreview, PromotionIsWhole
    <2> QED
      BY <1>3, <2>1, <2>2 DEF Promote, Promotable
  <1>4. CASE BeginLogin \/ PreviewDue
    <2>1. /\ UNCHANGED <<session, clip, previewer>>
          /\ preview'.state = preview.state /\ preview'.text = preview.text
          /\ preview'.stage = preview.stage
      BY <1>4 DEF BeginLogin, PreviewDue, interviewVars, GuestTypeOK, PreviewRow
    <2> QED
      BY <2>1 DEF TextHasPreview, ReadyHasText, HandlerHasText, LinkHasPreview, PromotionIsWhole
  <1>5. CASE ExpirePreview
    <2>1. /\ preview'.state = "failed" /\ preview'.text = preview.text
          /\ preview'.stage = preview.stage /\ previewer' = previewer
          /\ preview.state # "promoted"
      BY <1>5 DEF ExpirePreview, GuestTypeOK, PreviewRow
    <2>2. clip' # "account"
      BY <1>5, <2>1 DEF ExpirePreview, PromotionIsWhole
    <2> QED
      BY <2>1, <2>2
         DEF TextHasPreview, ReadyHasText, HandlerHasText, LinkHasPreview, PromotionIsWhole
  <1>6. CASE EraseClip \/ FailErase \/ LoseErase
    <2>1. /\ UNCHANGED <<session, preview, previewer>>
          /\ clip \in {"deleting", "stranded"}
          /\ clip' \in {"deleted", "failed", "stranded"}
      BY <1>6 DEF EraseClip, FailErase, LoseErase, interviewVars
    <2> QED
      BY <2>1 DEF TextHasPreview, ReadyHasText, HandlerHasText, LinkHasPreview, PromotionIsWhole
  <1> QED
    BY <1>1, <1>2, <1>3, <1>4, <1>5, <1>6, PreviewerKeepsWhole DEF GuestNext

LEMMA GuestInitInv ==
  ASSUME GuestInit
  PROVE  GuestInv
PROOF
  <1>1. InterviewInv
    BY InitInv DEF GuestInit
  <1>2. preview \in PreviewRow /\ preview = NoPreview
    BY InterviewAssumption DEF GuestInit, NoPreview, PreviewRow
  <1>3. previewer \in [Previewers -> Previewing] /\ \A p \in Previewers : previewer[p] = Waiting
    BY DEF GuestInit, Waiting, Previewing
  <1>4. GuestTypeOK
    BY <1>2, <1>3 DEF GuestInit, GuestTypeOK, SignedOut
  <1>5. session.link = "none"
    BY DEF GuestInit, InterviewInit
  <1>6. GuestPart
    BY <1>2, <1>3, <1>5
       DEF GuestInit, NoPreview, Waiting, GuestPart, TextHasPreview, ReadyHasText, HandlerHasText,
           LinkHasPreview, PromotionIsWhole
  <1> QED
    BY <1>1, <1>4, <1>6 DEF GuestInv

-----------------------------------------------------------------------------
\* With the guest, the sweep, the login and the preview's handler beside it the
\* interview keeps its invariant, and the rows of the preview their types.
THEOREM GuestIsInvariant == GuestSpec => []GuestInv
PROOF
  <1>1. GuestInit => GuestInv
    BY GuestInitInv
  <1>2. GuestInv /\ [GuestNext]_guestVars => GuestInv'
    BY GuestKeepsInterview, GuestTypeStep, GuestKeepsWhole DEF GuestInv
  <1> QED
    BY <1>1, <1>2, PTL DEF GuestSpec

\* Whatever the sweep, the handler and the login do to one another, a promoted
\* preview hands over its audio and, if it skips transcription, its text, and
\* leaves no interview behind (promoteGuestPreview, Expire, Complete).
THEOREM PromotionIsAlwaysWhole == GuestSpec => []PromotionIsWhole
PROOF
  <1>1. GuestInv => PromotionIsWhole
    BY DEF GuestInv, GuestPart
  <1> QED
    BY <1>1, GuestIsInvariant, PTL

\* A preview takes an interview as its timeline as a recording does, and the
\* answers it was made from stay (LinkInterview, SealInterviewLastTurn, Expire).
THEOREM GuestLinkStaysAnswered == GuestSpec => []LinkedIsAnswered
PROOF
  <1>1. GuestInv => LinkedIsAnswered
    BY DEF GuestInv, InterviewInv, SessionPart
  <1> QED
    BY <1>1, GuestIsInvariant, PTL
============================================================================
