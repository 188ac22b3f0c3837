-------------------------- MODULE InterviewSession --------------------------
(***************************************************************************)
(* One adaptive interview (backend/internal/interview): the session, its   *)
(* turns, the question kept one ahead, and the interview.process jobs that *)
(* prepare it, transcribe an answer and ask the next question, or refill   *)
(* the reserve.  Every operation of the client locks the session row; the  *)
(* handlers fence each write with their lease.                             *)
(*                                                                         *)
(* Abstractions.  Times within the recording, wording and the overlap of   *)
(* questions are left out (a question that overlaps is a choice), and so   *)
(* are the rows of question audio, which nothing here reads: they follow   *)
(* the protocol of GeneratedAudio.  A client that repeats a request with   *)
(* the same key is answered from the row and changes nothing.  Of the      *)
(* queue what WorkQueue shows of it is kept: a lease may lapse, then the   *)
(* job is delivered again while attempts last, and the handler that lost   *)
(* it may go on.  Failures and lapses are counted in faults.               *)
(***************************************************************************)
EXTENDS Naturals, Sequences, FiniteSets

CONSTANTS
  MaxTurns,  \* bound on the turns of a session
  Spoken,    \* final texts of realtime transcription
  Heard,     \* texts of the batch transcription of an uploaded answer
  Workers,   \* consumers of interview.process
  MaxTries,  \* max_attempts of a job
  MaxFaults  \* bound on failures, crashes and lapsed leases

ASSUME InterviewAssumption ==
  /\ MaxTurns \in Nat \ {0} /\ MaxTries \in Nat \ {0} /\ MaxFaults \in Nat

VARIABLES
  session,  \* the row of interview_sessions
  turns,    \* its rows of interview_turns, by seq
  reserve,  \* its rows of interview_candidates that no turn has consumed
  job,      \* its rows of processing_jobs
  worker,   \* what each consumer is doing
  faults

interviewVars == <<session, turns, reserve, job, worker, faults>>

None    == "none"
Silence == "silence"  \* the empty transcript
Answers == Spoken \cup Heard

\* link: recording_id or guest_preview_id is set;  expired: expires_at <= NOW().
SessionRow ==
  [status : {"none", "preparing", "ready", "recording", "finalizing", "finalized",
             "failed", "cancelled", "gone"},
   owner : {"account", "guest"}, link : {"none", "recording", "preview"},
   expired : BOOLEAN]

\* A question asked without context, or after an answer: source_turn_seq, and
\* the transcript the model was shown.
Questions == [seq : 0..MaxTurns, said : Answers \cup {None}]
Prepared  == [seq |-> 0, said |-> None]

TurnRow ==
  [asked : Questions, ended : BOOLEAN, skipped : BOOLEAN, audio : BOOLEAN,
   status : {"pending", "queued", "ready", "failed"},
   origin : {"none", "turn_realtime", "turn_batch"},
   text : Answers \cup {None, Silence}]

NewTurn(q) ==
  [asked |-> q, ended |-> FALSE, skipped |-> FALSE, audio |-> FALSE,
   status |-> "pending", origin |-> "none", text |-> None]

\* A job is known by its idempotency key.  Refill 0 is that of a polling client,
\* whose key names the minute: a later one is a new row.
Prepare   == <<"prepare", 0>>
TurnJob(i) == <<"turn", i>>
Refill(k) == <<"refill", k>>
Refills   == {Refill(k) : k \in {0} \cup 2..MaxTurns}
Jobs == {Prepare} \cup {TurnJob(i) : i \in 1..MaxTurns} \cup Refills

JobRow    == [state : {"none", "waiting", "running", "lapsed", "over"}, tries : 0..MaxTries]
Consumer  == [phase : {"idle", "load", "save", "hear", "ask", "report"}, job : Jobs,
              holds : BOOLEAN, said : Answers \cup {None, Silence}, live : BOOLEAN]

NewJob  == [state |-> "waiting", tries |-> 0]
Resting == [phase |-> "idle", job |-> Prepare, holds |-> FALSE, said |-> None, live |-> FALSE]

InterviewTypeOK ==
  /\ session \in SessionRow
  /\ turns \in Seq(TurnRow) /\ Len(turns) <= MaxTurns
  /\ \E q \in Questions : reserve \subseteq {q}
  /\ job \in [Jobs -> JobRow]
  /\ worker \in [Workers -> Consumer]
  /\ faults \in 0..MaxFaults

InterviewInit ==
  /\ session \in [status : {"none"}, owner : {"account", "guest"}, link : {"none"},
                  expired : {FALSE}]
  /\ turns = <<>>
  /\ reserve = {}
  /\ job = [j \in Jobs |-> [state |-> "none", tries |-> 0]]
  /\ worker = [w \in Workers |-> Resting]
  /\ faults = 0

Fault == faults < MaxFaults /\ faults' = faults + 1

Active(j)   == job[j].state \in {"waiting", "running", "lapsed"}
Stranded(j) == job[j].state = "lapsed" /\ job[j].tries = MaxTries

\* Enqueue: ON CONFLICT (idempotency_key) DO NOTHING.
Enqueued(j) == IF job[j].state = "none" THEN [job EXCEPT ![j] = NewJob] ELSE job

\* Whoever works for a job of js has lost it.
Dropped(js) ==
  [w \in Workers |->
     IF worker[w].job \in js THEN [worker[w] EXCEPT !.holds = FALSE] ELSE worker[w]]

\* retireSessionArtifacts cancels every active job of the session, running ones too.
Retire ==
  /\ job' = [j \in Jobs |-> IF Active(j) THEN [job[j] EXCEPT !.state = "over"] ELSE job[j]]
  /\ worker' = Dropped(Jobs)

Visible  == {i \in DOMAIN turns : ~turns[i].skipped}
Last     == Len(turns)
Unlinked == session.link = "none"

\* Nothing was said in turn i and nothing is on its way.
Unanswered(i) ==
  turns[i].status = "pending" /\ ~turns[i].audio /\ turns[i].text \in {None, Silence}

-----------------------------------------------------------------------------
\* The client.

CreateSession ==
  /\ session.status = "none"
  /\ session' = [session EXCEPT !.status = "preparing"]
  /\ job' = Enqueued(Prepare)
  /\ UNCHANGED <<turns, reserve, worker, faults>>

\* The owner's next Create fails this session if it has expired.
FailExpired ==
  /\ session.status \in {"preparing", "ready", "recording"} /\ session.expired
  /\ session' = [session EXCEPT !.status = "failed"]
  /\ UNCHANGED <<turns, reserve, job, worker, faults>>

\* By request, or before a transcription token is issued for a ready session.
Start ==
  /\ session.status = "ready" /\ ~session.expired
  /\ Cardinality(reserve) = 1
  /\ session' = [session EXCEPT !.status = "recording"]
  /\ turns' = <<NewTurn(Prepared)>>
  /\ UNCHANGED <<reserve, job, worker, faults>>

\* The next question is asked; an unanswered one may be skipped by it.
Advance(skip) ==
  /\ session.status = "recording" /\ ~session.expired /\ Unlinked
  /\ 0 < Last /\ Last < MaxTurns
  /\ ~turns[Last].ended /\ ~turns[Last].skipped
  /\ skip => Unanswered(Last)
  /\ \E q \in reserve :
       /\ turns' = Append([turns EXCEPT ![Last] = [@ EXCEPT !.ended = TRUE, !.skipped = skip]],
                          NewTurn(q))
       /\ reserve' = reserve \ {q}
  /\ job' = IF skip /\ reserve' = {} THEN Enqueued(Refill(Last + 1)) ELSE job
  /\ UNCHANGED <<session, worker, faults>>

\* The recording stops on a question nobody answered.
SkipTurn ==
  /\ session.status = "recording" /\ ~session.expired /\ Unlinked
  /\ 0 < Last /\ ~turns[Last].ended /\ Unanswered(Last)
  /\ turns' = [turns EXCEPT ![Last] = [@ EXCEPT !.ended = TRUE, !.skipped = TRUE]]
  /\ UNCHANGED <<session, reserve, job, worker, faults>>

\* Mutant of Awaiting: audio always sends the turn back to the queue.
AwaitingAlways(status) == "queued"

Awaiting(status) == IF status = "ready" THEN "ready" ELSE "queued"

AttachAudio(i) ==
  /\ session.status \in {"recording", "finalizing", "finalized"}
  /\ i \in Visible /\ ~turns[i].audio
  /\ turns' = [turns EXCEPT ![i] = [@ EXCEPT !.audio = TRUE, !.status = Awaiting(turns[i].status)]]
  /\ job' = Enqueued(TurnJob(i))
  /\ UNCHANGED <<session, reserve, worker, faults>>

\* Mutant of Undecided: a realtime text replaces that of the batch transcription.
UndecidedRealtime(i) == turns[i].origin # "turn_realtime"

\* Neither a realtime nor a batch transcript has been accepted for turn i.
Undecided(i) == turns[i].origin = "none"

SaveTurnTranscript(i, text) ==
  /\ session.status = "recording"
  /\ i \in Visible /\ Undecided(i)
  /\ turns' = [turns EXCEPT ![i] =
       [@ EXCEPT !.status = "ready", !.origin = "turn_realtime", !.text = text]]
  /\ job' = Enqueued(TurnJob(i))
  /\ UNCHANGED <<session, reserve, worker, faults>>

\* Mutant of Answering: a turn whose answer never came blocks the refill.
AnsweringForEver(i) ==
  Active(TurnJob(i)) \/ turns[i].status \in {"pending", "queued"}

\* The job of turn i may still bring a question (a turn without a job is given
\* 15 seconds, which pass).
Answering(i) == Active(TurnJob(i))

\* A polling client finds the reserve empty.
EnsureRefill ==
  /\ session.status = "recording" /\ Unlinked
  /\ reserve = {}
  /\ \A i \in Visible :
       turns[i].ended /\ (\A k \in Visible : turns[k].ended => k <= i) => ~Answering(i)
  /\ \A r \in Refills : ~Active(r)
  /\ job' = [job EXCEPT ![Refill(0)] = NewJob]
  /\ worker' = Dropped({Refill(0)})
  /\ UNCHANGED <<session, turns, reserve, faults>>

Cancel ==
  /\ session.status \in {"preparing", "ready", "recording", "failed"} /\ Unlinked
  /\ session' = [session EXCEPT !.status = "cancelled"]
  /\ Retire
  /\ UNCHANGED <<turns, reserve, faults>>

Answered == Visible # {} /\ \A i \in Visible : turns[i].status = "ready"

\* A recording, or a guest preview, takes the session as its timeline.
LinkInterview(owner, link) ==
  /\ session.status = "recording" /\ session.owner = owner /\ Unlinked
  /\ Answered
  /\ session' = [session EXCEPT !.status = "finalizing", !.link = link]

LinkRecording ==
  /\ LinkInterview("account", "recording")
  /\ UNCHANGED <<turns, reserve, job, worker, faults>>

EndLastTurn ==
  turns' = [i \in DOMAIN turns |->
              IF i \in Visible /\ \A k \in Visible : k <= i
                THEN [turns[i] EXCEPT !.ended = TRUE] ELSE turns[i]]

Finalize ==
  /\ session.status \in {"recording", "finalizing"} /\ ~Unlinked
  /\ session' = [session EXCEPT !.status = "finalized"]
  /\ EndLastTurn
  /\ UNCHANGED <<reserve, job, worker, faults>>

-----------------------------------------------------------------------------
\* Time and maintenance.

SessionExpires ==
  /\ session.status \notin {"none", "gone"} /\ ~session.expired
  /\ session' = [session EXCEPT !.expired = TRUE]
  /\ UNCHANGED <<turns, reserve, job, worker, faults>>

DropSession ==
  /\ session' = [session EXCEPT !.status = "gone", !.link = "none"]
  /\ turns' = <<>>
  /\ reserve' = {}
  /\ Retire

ExpireSessions ==
  /\ session.expired
  /\ \/ /\ Unlinked
        /\ session.status \in {"preparing", "ready", "recording", "failed", "cancelled"}
        /\ DropSession
     \/ /\ ~Unlinked /\ session.status = "finalizing"
        /\ session' = [session EXCEPT !.status = "finalized"]
        /\ UNCHANGED <<turns, reserve, job, worker>>
  /\ UNCHANGED faults

-----------------------------------------------------------------------------
\* The handler.

Go(w, phase) == worker' = [worker EXCEPT ![w].phase = phase]

\* requireInterviewLease: running, with this token, unexpired.
Leased(w) == worker[w].holds /\ job[worker[w].job].state = "running"

ClaimJob(w, j) ==
  /\ worker[w] = Resting
  /\ job[j].state \in {"waiting", "lapsed"} /\ job[j].tries < MaxTries
  /\ job' = [job EXCEPT ![j] = [state |-> "running", tries |-> @.tries + 1]]
  /\ worker' = [Dropped({j}) EXCEPT ![w] =
       [phase |-> "load", job |-> j, holds |-> TRUE, said |-> None, live |-> FALSE]]
  /\ UNCHANGED <<session, turns, reserve, faults>>

\* With the answer of the turn, a question is wanted if the session was still
\* recording when the work was loaded.
Continue(w, said, live) ==
  worker' = [worker EXCEPT ![w] =
    [@ EXCEPT !.phase = IF said \in Answers /\ live THEN "ask" ELSE "report",
              !.said = said, !.live = live]]

LoadWork(w) ==
  LET j    == worker[w].job
      i    == j[2]
      live == session.status = "recording"
  IN /\ worker[w].phase = "load"
     /\ CASE j = Prepare ->
               Go(w, IF session.status = "preparing" THEN "save" ELSE "report")
          [] j \in Refills ->
               Go(w, IF live /\ reserve = {} THEN "save" ELSE "report")
          [] OTHER ->
               IF i \notin Visible THEN Go(w, "report")
               ELSE IF turns[i].status = "ready" THEN Continue(w, turns[i].text, live)
               ELSE worker' = [worker EXCEPT ![w] = [@ EXCEPT !.phase = "hear", !.live = live]]
     /\ UNCHANGED <<session, turns, reserve, job, faults>>

FailedTurns(j) ==
  [i \in DOMAIN turns |->
     IF j = TurnJob(i) /\ i \in Visible /\ turns[i].status # "ready"
       THEN [turns[i] EXCEPT !.status = "failed"] ELSE turns[i]]

\* The handler returned an error.  Fail: the job waits for a retry, or its
\* attempts are spent and FinalizeFailure runs with it.
ReturnError(w) ==
  LET j     == worker[w].job
      final == worker[w].holds /\ job[j].tries = MaxTries
  IN /\ worker' = [worker EXCEPT ![w] = Resting]
     /\ job' = IF worker[w].holds
                 THEN [job EXCEPT ![j].state = IF final THEN "over" ELSE "waiting"] ELSE job
     /\ session' = IF final /\ j = Prepare /\ session.status = "preparing"
                     THEN [session EXCEPT !.status = "failed"] ELSE session
     /\ turns' = IF final THEN FailedTurns(j) ELSE turns

SavePreparation(w) ==
  /\ worker[w].phase = "save" /\ worker[w].job = Prepare
  /\ IF ~Leased(w) THEN ReturnError(w) /\ UNCHANGED reserve ELSE
       /\ IF session.status = "preparing"
            THEN session' = [session EXCEPT !.status = "ready"] /\ reserve' = {Prepared}
            ELSE UNCHANGED <<session, reserve>>
       /\ Go(w, "report")
       /\ UNCHANGED <<turns, job>>
  /\ UNCHANGED faults

\* The answer is transcribed and saved, unless a realtime text was first: that
\* one is then the text to continue with.
SaveTranscript(w, text) ==
  LET i    == worker[w].job[2]
      mine == Leased(w) /\ i \in Visible
  IN /\ worker[w].phase = "hear"
     /\ \/ ~mine /\ ReturnError(w)
        \/ /\ mine /\ turns[i].origin # "turn_realtime"
           /\ turns' = [turns EXCEPT ![i] =
                [@ EXCEPT !.status = "ready", !.origin = "turn_batch", !.text = text]]
           /\ Continue(w, text, worker[w].live)
           /\ UNCHANGED <<session, job>>
        \/ /\ mine /\ turns[i].origin = "turn_realtime"
           /\ Continue(w, turns[i].text, worker[w].live)
           /\ UNCHANGED <<session, turns, job>>
     /\ UNCHANGED <<reserve, faults>>

\* A question that is new, and still wanted, becomes the reserve.
Offer(w, wanted, q) ==
  /\ \/ wanted /\ reserve' = {q}
     \/ UNCHANGED reserve
  /\ Go(w, "report")
  /\ UNCHANGED <<session, turns, job>>

SaveAdaptive(w) ==
  LET i == worker[w].job[2]
  IN /\ worker[w].phase = "ask"
     /\ IF Leased(w)
          THEN Offer(w, session.status = "recording" /\ reserve = {} /\ i + 2 >= Last,
                     [seq |-> i, said |-> worker[w].said])
          ELSE ReturnError(w) /\ UNCHANGED reserve
     /\ UNCHANGED faults

\* A reserve question that overlaps an old one is an error: see FailJob.
SaveRefill(w) ==
  /\ worker[w].phase = "save" /\ worker[w].job \in Refills
  /\ IF ~Leased(w) THEN ReturnError(w) /\ UNCHANGED reserve ELSE
       /\ reserve' = IF session.status = "recording" /\ reserve = {} THEN {Prepared} ELSE reserve
       /\ Go(w, "report")
       /\ UNCHANGED <<session, turns, job>>
  /\ UNCHANGED faults

\* Complete asks for the token only.
ReportJob(w) ==
  /\ worker[w].phase = "report"
  /\ job' = IF worker[w].holds THEN [job EXCEPT ![worker[w].job].state = "over"] ELSE job
  /\ worker' = [worker EXCEPT ![w] = Resting]
  /\ UNCHANGED <<session, turns, reserve, faults>>

\* A provider, the store or the database fails under the handler.
FailJob(w) ==
  /\ Fault
  /\ worker[w].phase \in {"load", "save", "hear", "ask"}
  /\ ReturnError(w)
  /\ UNCHANGED reserve

LoseLease(w) ==
  /\ Fault
  /\ Leased(w)
  /\ job' = [job EXCEPT ![worker[w].job].state = "lapsed"]
  /\ UNCHANGED <<session, turns, reserve, worker>>

\* The handler of a lost lease is cancelled, or its process has died.
StopJob(w) ==
  /\ worker[w] # Resting /\ ~Leased(w)
  /\ worker' = [worker EXCEPT ![w] = Resting]
  /\ UNCHANGED <<session, turns, reserve, job, faults>>

HandleJob(w) ==
  \/ LoadWork(w) \/ SavePreparation(w) \/ (\E text \in Heard \cup {Silence} : SaveTranscript(w, text))
  \/ SaveAdaptive(w) \/ SaveRefill(w) \/ ReportJob(w)

WorkerNext ==
  \E w \in Workers :
    \/ \E j \in Jobs : ClaimJob(w, j)
    \/ HandleJob(w) \/ FailJob(w) \/ LoseLease(w) \/ StopJob(w)

ClientNext ==
  \/ CreateSession \/ FailExpired \/ Start
  \/ (\E skip \in BOOLEAN : Advance(skip)) \/ SkipTurn
  \/ \E i \in 1..MaxTurns :
       AttachAudio(i) \/ (\E text \in Spoken : SaveTurnTranscript(i, text))
  \/ EnsureRefill \/ Cancel \/ LinkRecording \/ Finalize

InterviewNext == ClientNext \/ SessionExpires \/ ExpireSessions \/ WorkerNext
InterviewSpec == InterviewInit /\ [][InterviewNext]_interviewVars

\* The worker polls its queue and its handlers end.
InterviewFairness ==
  /\ \A j \in Jobs : SF_interviewVars(\E w \in Workers : ClaimJob(w, j))
  /\ \A w \in Workers : WF_interviewVars(HandleJob(w))

-----------------------------------------------------------------------------
Asked == reserve \cup {turns[i].asked : i \in DOMAIN turns}

\* A question that follows an answer follows the answer the learner is shown:
\* a late realtime text never replaces the batch transcript from which the next
\* question was made, nor the other way round (SaveTurnTranscript, SaveTranscript).
AdaptiveFollowsAnswer ==
  \A q \in Asked : q.seq # 0 => q.seq \in Visible /\ turns[q.seq].text = q.said

\* What a recording or a preview was made from stays complete: every turn that
\* was not skipped keeps a transcript, whatever audio arrives and whatever job
\* fails after the link.
LinkedIsAnswered == ~Unlinked => Answered

-----------------------------------------------------------------------------
(* The parts of the inductive invariant from which the two follow. *)

\* Start writes the first turn of a session that has none.
NotStarted == session.status \in {"none", "preparing", "ready"} => turns = <<>>

\* A linked session has left recording for good.
LinkedLate == ~Unlinked => session.status \in {"finalizing", "finalized"}

\* A claim takes the job from whoever held it.
OneHolder ==
  \A v, w \in Workers :
    worker[v].holds /\ worker[w].holds /\ worker[v].job = worker[w].job => v = w

\* A job that is over was taken from whoever worked for it.
HeldIsActive == \A w \in Workers : worker[w].holds => Active(worker[w].job)

\* The job of a turn is for a turn that can no longer be skipped.
JobHasItsTurn ==
  \A i \in 1..MaxTurns :
    Active(TurnJob(i)) => i \in Visible /\ turns[i].status # "pending"

ReadyIsDecided == \A i \in DOMAIN turns : turns[i].status = "ready" <=> ~Undecided(i)

SourceIsReady == \A q \in Asked : q.seq # 0 => q.seq \in Visible /\ turns[q.seq].status = "ready"

\* Nothing was asked after an answer that is still being transcribed.
HearingIsFirst ==
  \A w \in Workers : Leased(w) /\ worker[w].phase = "hear" =>
    \E i \in 1..MaxTurns : worker[w].job = TurnJob(i) /\ \A q \in Asked : q.seq # i

\* The model is shown the transcript that the turn keeps.
AskingIsCurrent ==
  \A w \in Workers : Leased(w) /\ worker[w].phase = "ask" =>
    \E i \in 1..MaxTurns :
      /\ worker[w].job = TurnJob(i)
      /\ turns[i].status = "ready" /\ turns[i].text = worker[w].said
      /\ worker[w].said \in Answers

SessionPart  == NotStarted /\ LinkedLate /\ LinkedIsAnswered
JobPart      == OneHolder /\ HeldIsActive /\ JobHasItsTurn
QuestionPart == /\ ReadyIsDecided /\ SourceIsReady /\ AdaptiveFollowsAnswer
                /\ HearingIsFirst /\ AskingIsCurrent

InterviewInv == InterviewTypeOK /\ SessionPart /\ JobPart /\ QuestionPart
=============================================================================
