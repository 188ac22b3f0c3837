-------------------------- MODULE InterviewProofs --------------------------
(***************************************************************************)
(* Proofs about InterviewSession for any number of turns, texts, consumers *)
(* and attempts: types, and InterviewInv, from which it follows that a     *)
(* question follows the answer the learner is shown and that what was      *)
(* linked stays answered.                                                  *)
(***************************************************************************)
EXTENDS InterviewSession, SequenceTheorems, TLAPS

\* The inductive invariant beside the types.
Parts == SessionPart /\ JobPart /\ QuestionPart

(* Jobs *)

\* A key names one kind of job, and the job of a turn its turn (idempotency keys
\* "interview.prepare:", "interview.turn:" and "interview.refill:").
LEMMA JobKinds ==
  /\ Prepare \in Jobs /\ Prepare \notin Refills /\ Refill(0) \in Refills /\ Refills \subseteq Jobs
  /\ \A i : TurnJob(i) # Prepare /\ TurnJob(i) \notin Refills /\ TurnJob(i)[2] = i
  /\ \A i, k : TurnJob(i) = TurnJob(k) => i = k
  /\ \A i \in 1..MaxTurns : TurnJob(i) \in Jobs
  /\ \A j \in Jobs : j = Prepare \/ j \in Refills \/ \E i \in 1..MaxTurns : j = TurnJob(i)
PROOF
  BY DEF Jobs, Prepare, TurnJob, Refill, Refills

LEMMA EnqueuedType ==
  ASSUME NEW j, InterviewTypeOK
  PROVE  Enqueued(j) \in [Jobs -> JobRow]
PROOF
  <1>1. NewJob \in JobRow
    BY InterviewAssumption DEF NewJob, JobRow
  <1> QED
    BY <1>1 DEF Enqueued, InterviewTypeOK

LEMMA DroppedType ==
  ASSUME NEW js, InterviewTypeOK
  PROVE  Dropped(js) \in [Workers -> Consumer]
PROOF
  BY DEF Dropped, InterviewTypeOK, Consumer

LEMMA RetireType ==
  ASSUME InterviewTypeOK, Retire
  PROVE  job' \in [Jobs -> JobRow] /\ worker' \in [Workers -> Consumer]
PROOF
  <1>1. job' \in [Jobs -> JobRow]
    BY DEF Retire, InterviewTypeOK, JobRow
  <1>2. worker' \in [Workers -> Consumer]
    BY DroppedType DEF Retire
  <1> QED
    BY <1>1, <1>2

LEMMA NewTurnType ==
  ASSUME NEW q \in Questions
  PROVE  NewTurn(q) \in TurnRow
PROOF
  BY DEF NewTurn, TurnRow

LEMMA EndLastTurnType ==
  ASSUME InterviewTypeOK, EndLastTurn
  PROVE  turns' \in Seq(TurnRow) /\ Len(turns') = Len(turns)
PROOF
  <1>1. \A i \in 1..Len(turns) : turns[i] \in TurnRow
    BY DEF InterviewTypeOK
  <1>2. \A i \in 1..Len(turns) : [turns[i] EXCEPT !.ended = TRUE] \in TurnRow
    BY <1>1 DEF TurnRow
  <1>3. DOMAIN turns' = 1..Len(turns) /\ \A i \in 1..Len(turns) : turns'[i] \in TurnRow
    BY <1>1, <1>2 DEF EndLastTurn, InterviewTypeOK
  <1>4. turns' = [i \in 1..Len(turns) |-> turns'[i]]
    BY <1>3 DEF EndLastTurn, InterviewTypeOK
  <1> QED
    BY <1>3, <1>4 DEF InterviewTypeOK

-----------------------------------------------------------------------------
(* Types *)

\* An edit of one turn.
LEMMA OneTurnType ==
  ASSUME InterviewTypeOK, NEW i, NEW t, i \in DOMAIN turns => t \in TurnRow
  PROVE  [turns EXCEPT ![i] = t] \in Seq(TurnRow) /\ Len([turns EXCEPT ![i] = t]) = Len(turns)
PROOF
  <1>1. CASE i \in DOMAIN turns
    BY <1>1, ExceptSeq DEF InterviewTypeOK
  <1>2. CASE i \notin DOMAIN turns
    <2>1. [turns EXCEPT ![i] = t] = turns
      BY <1>2 DEF InterviewTypeOK
    <2> QED
      BY <2>1 DEF InterviewTypeOK
  <1> QED
    BY <1>1, <1>2

LEMMA TurnsType ==
  ASSUME InterviewTypeOK
  PROVE  DOMAIN turns = 1..Last /\ Last \in Nat /\ \A i \in DOMAIN turns : turns[i] \in TurnRow
PROOF
  BY DEF InterviewTypeOK, Last

LEMMA OneFewer ==
  ASSUME InterviewTypeOK, NEW q
  PROVE  \E r \in Questions : reserve \ {q} \subseteq {r}
PROOF
  BY DEF InterviewTypeOK

LEMMA PreparedIsQuestion == Prepared \in Questions
PROOF
  BY InterviewAssumption DEF Prepared, Questions

LEMMA DropSessionType ==
  ASSUME InterviewTypeOK, DropSession, faults' = faults
  PROVE  InterviewTypeOK'
PROOF
  <1>1. session' \in SessionRow
    BY DEF DropSession, InterviewTypeOK, SessionRow
  <1>2. turns' \in Seq(TurnRow) /\ Len(turns') <= MaxTurns
    BY InterviewAssumption DEF DropSession
  <1>3. \E q \in Questions : reserve' \subseteq {q}
    BY PreparedIsQuestion DEF DropSession
  <1>4. job' \in [Jobs -> JobRow] /\ worker' \in [Workers -> Consumer]
    BY RetireType DEF DropSession
  <1> QED
    BY <1>1, <1>2, <1>3, <1>4 DEF InterviewTypeOK

\* What the client does.
LEMMA ClientType ==
  ASSUME InterviewTypeOK, ClientNext
  PROVE  InterviewTypeOK'
PROOF
  <1> USE DEF InterviewTypeOK
  <1>1. CASE CreateSession
    BY <1>1, EnqueuedType DEF CreateSession, SessionRow
  <1>2. CASE FailExpired
    BY <1>2 DEF FailExpired, SessionRow
  <1>3. CASE Start
    <2>1. NewTurn(Prepared) \in TurnRow
      BY NewTurnType, InterviewAssumption DEF Prepared, Questions
    <2>2. turns' \in Seq(TurnRow) /\ Len(turns') = 1
      BY <1>3, <2>1 DEF Start
    <2>3. session' \in SessionRow
      BY <1>3 DEF Start, SessionRow
    <2> QED
      BY <1>3, <2>2, <2>3, InterviewAssumption DEF Start
  <1>4. CASE \E skip \in BOOLEAN : Advance(skip)
    <2> PICK skip \in BOOLEAN : Advance(skip)
      BY <1>4
    <2> PICK q \in reserve :
          /\ turns' = Append([turns EXCEPT ![Last] = [@ EXCEPT !.ended = TRUE, !.skipped = skip]], NewTurn(q))
          /\ reserve' = reserve \ {q}
      BY DEF Advance
    <2> DEFINE past == [turns EXCEPT ![Last] = [@ EXCEPT !.ended = TRUE, !.skipped = skip]]
    <2>1. past \in Seq(TurnRow) /\ Len(past) = Last
      <3>1. turns[Last] \in TurnRow /\ Last \in DOMAIN turns
        BY TurnsType DEF Advance
      <3>2. [turns[Last] EXCEPT !.ended = TRUE, !.skipped = skip] \in TurnRow
        BY <3>1 DEF TurnRow
      <3> QED
        BY <3>1, <3>2, OneTurnType DEF Last
    <2>2. NewTurn(q) \in TurnRow
      BY NewTurnType
    <2>3. turns' \in Seq(TurnRow) /\ Len(turns') <= MaxTurns
      BY <2>1, <2>2, InterviewAssumption DEF Advance, Last
    <2>4. \E r \in Questions : reserve' \subseteq {r}
      BY OneFewer
    <2>5. job' \in [Jobs -> JobRow]
      BY EnqueuedType DEF Advance
    <2> QED
      BY <2>3, <2>4, <2>5 DEF Advance
  <1>5. CASE SkipTurn
    <2>1. turns[Last] \in TurnRow
      BY <1>5, TurnsType DEF SkipTurn
    <2>2. [turns[Last] EXCEPT !.ended = TRUE, !.skipped = TRUE] \in TurnRow
      BY <2>1 DEF TurnRow
    <2> QED
      BY <1>5, <2>2, OneTurnType DEF SkipTurn
  <1>6. CASE \E i \in 1..MaxTurns : AttachAudio(i)
    <2> PICK i \in 1..MaxTurns : AttachAudio(i)
      BY <1>6
    <2>1. turns[i] \in TurnRow
      BY TurnsType DEF AttachAudio, Visible
    <2>2. [turns[i] EXCEPT !.audio = TRUE, !.status = Awaiting(turns[i].status)] \in TurnRow
      BY <2>1 DEF TurnRow, Awaiting
    <2>3. turns' = [turns EXCEPT ![i] = [turns[i] EXCEPT !.audio = TRUE, !.status = Awaiting(turns[i].status)]]
      BY DEF AttachAudio
    <2>4. turns' \in Seq(TurnRow) /\ Len(turns') = Len(turns)
      BY <2>2, <2>3, OneTurnType
    <2>5. job' \in [Jobs -> JobRow] /\ UNCHANGED <<session, reserve, worker, faults>>
      BY EnqueuedType DEF AttachAudio
    <2> QED
      BY <2>4, <2>5
  <1>7. CASE \E i \in 1..MaxTurns, text \in Spoken : SaveTurnTranscript(i, text)
    <2> PICK i \in 1..MaxTurns, text \in Spoken : SaveTurnTranscript(i, text)
      BY <1>7
    <2>1. turns[i] \in TurnRow
      BY TurnsType DEF SaveTurnTranscript, Visible
    <2>2. [turns[i] EXCEPT !.status = "ready", !.origin = "turn_realtime", !.text = text] \in TurnRow
      BY <2>1 DEF TurnRow, Answers
    <2> QED
      BY <2>2, OneTurnType, EnqueuedType DEF SaveTurnTranscript
  <1>8. CASE EnsureRefill
    <2>1. NewJob \in JobRow
      BY InterviewAssumption DEF NewJob, JobRow
    <2> QED
      BY <1>8, <2>1, DroppedType DEF EnsureRefill
  <1>9. CASE Cancel
    BY <1>9, RetireType DEF Cancel, SessionRow
  <1>10. CASE LinkRecording
    BY <1>10 DEF LinkRecording, LinkInterview, SessionRow
  <1>11. CASE Finalize
    BY <1>11, EndLastTurnType DEF Finalize, SessionRow
  <1> QED
    BY <1>1, <1>2, <1>3, <1>4, <1>5, <1>6, <1>7, <1>8, <1>9, <1>10, <1>11 DEF ClientNext

LEMMA RestingType == Resting \in Consumer
PROOF
  BY JobKinds DEF Resting, Consumer

LEMMA ReturnErrorType ==
  ASSUME InterviewTypeOK, NEW w \in Workers, ReturnError(w)
  PROVE  /\ session' \in SessionRow
         /\ turns' \in Seq(TurnRow) /\ Len(turns') = Len(turns)
         /\ job' \in [Jobs -> JobRow]
         /\ worker' \in [Workers -> Consumer]
PROOF
  <1>1. session' \in SessionRow
    BY DEF ReturnError, InterviewTypeOK, SessionRow
  <1>2. \A j : FailedTurns(j) \in Seq(TurnRow) /\ Len(FailedTurns(j)) = Len(turns)
    <2> TAKE j
    <2> DEFINE ts == FailedTurns(j)
    <2>1. \A i \in 1..Len(turns) : ts[i] \in TurnRow
      BY TurnsType DEF FailedTurns, TurnRow, Last
    <2>2. ts = [i \in 1..Len(turns) |-> ts[i]]
      BY TurnsType DEF FailedTurns, Last
    <2> QED
      BY <2>1, <2>2, TurnsType DEF Last
  <1>3. turns' \in Seq(TurnRow) /\ Len(turns') = Len(turns)
    BY <1>2 DEF ReturnError, InterviewTypeOK
  <1>4. job' \in [Jobs -> JobRow]
    BY DEF ReturnError, InterviewTypeOK, JobRow
  <1>6. worker' \in [Workers -> Consumer]
    BY RestingType DEF ReturnError, InterviewTypeOK
  <1> QED
    BY <1>1, <1>3, <1>4, <1>6

LEMMA GoType ==
  ASSUME InterviewTypeOK, NEW w \in Workers,
         NEW phase \in {"idle", "load", "save", "hear", "ask", "report"}, Go(w, phase)
  PROVE  worker' \in [Workers -> Consumer]
PROOF
  BY DEF Go, InterviewTypeOK, Consumer

LEMMA ContinueType ==
  ASSUME InterviewTypeOK, NEW w \in Workers, NEW said \in Answers \cup {None, Silence},
         NEW live \in BOOLEAN, Continue(w, said, live)
  PROVE  worker' \in [Workers -> Consumer]
PROOF
  <1> DEFINE next == [worker[w] EXCEPT
               !.phase = IF said \in Answers /\ live THEN "ask" ELSE "report",
               !.said = said, !.live = live]
  <1>1. next \in Consumer
    BY DEF InterviewTypeOK, Consumer
  <1>2. worker' = [worker EXCEPT ![w] = next]
    BY DEF Continue
  <1> QED
    BY <1>1, <1>2 DEF InterviewTypeOK

LEMMA LoadWorkType ==
  ASSUME InterviewTypeOK, NEW w \in Workers, LoadWork(w)
  PROVE  worker' \in [Workers -> Consumer]
PROOF
  <1> DEFINE j == worker[w].job
             i == j[2]
             live == session.status = "recording"
  <1>1. CASE Go(w, "save") \/ Go(w, "report")
    BY <1>1, GoType
  <1>2. CASE i \in Visible /\ Continue(w, turns[i].text, live)
    <2>1. turns[i].text \in Answers \cup {None, Silence}
      BY <1>2, TurnsType DEF Visible, TurnRow
    <2> QED
      BY <1>2, <2>1, ContinueType
  <1>3. CASE worker' = [worker EXCEPT ![w] = [worker[w] EXCEPT !.phase = "hear", !.live = live]]
    <2>1. [worker[w] EXCEPT !.phase = "hear", !.live = live] \in Consumer
      BY DEF InterviewTypeOK, Consumer
    <2> QED
      BY <1>3, <2>1 DEF InterviewTypeOK
  <1> QED
    BY <1>1, <1>2, <1>3 DEF LoadWork

\* What the handlers do.
LEMMA HandleType ==
  ASSUME InterviewTypeOK, AskingIsCurrent, NEW w \in Workers, HandleJob(w)
  PROVE  InterviewTypeOK'
PROOF
  <1> USE DEF InterviewTypeOK
  <1>1. CASE LoadWork(w)
    BY <1>1, LoadWorkType DEF LoadWork
  <1>2. CASE SavePreparation(w)
    <2>1. CASE ReturnError(w) /\ UNCHANGED reserve
      BY <1>2, <2>1, ReturnErrorType DEF SavePreparation
    <2>2. CASE Go(w, "report")
      <3>1. session' \in SessionRow /\ \E q \in Questions : reserve' \subseteq {q}
        BY <1>2, PreparedIsQuestion DEF SavePreparation, SessionRow, ReturnError
      <3> QED
        BY <1>2, <2>2, <3>1, GoType, ReturnErrorType DEF SavePreparation
    <2> QED
      BY <1>2, <2>1, <2>2 DEF SavePreparation
  <1>3. CASE \E text \in Heard \cup {Silence} : SaveTranscript(w, text)
    <2> PICK text \in Heard \cup {Silence} : SaveTranscript(w, text)
      BY <1>3
    <2> DEFINE i == worker[w].job[2]
    <2>1. CASE ReturnError(w)
      BY <2>1, ReturnErrorType DEF SaveTranscript
    <2>2. CASE /\ i \in Visible
               /\ turns' = [turns EXCEPT ![i] = [turns[i] EXCEPT !.status = "ready",
                                 !.origin = "turn_batch", !.text = text]]
               /\ Continue(w, text, worker[w].live)
               /\ UNCHANGED <<session, job>>
      <3>0. turns[i] \in TurnRow
        BY <2>2, TurnsType DEF Visible
      <3>1. [turns[i] EXCEPT !.status = "ready", !.origin = "turn_batch", !.text = text] \in TurnRow
        BY <3>0 DEF TurnRow, Answers
      <3>2. turns' \in Seq(TurnRow) /\ Len(turns') = Len(turns)
        BY <2>2, <3>1, OneTurnType
      <3>3. worker' \in [Workers -> Consumer]
        <4>1. text \in Answers \cup {None, Silence} /\ worker[w].live \in BOOLEAN
          BY DEF Answers, Consumer
        <4> QED
          BY <2>2, <4>1, ContinueType
      <3> QED
        BY <2>2, <3>2, <3>3 DEF SaveTranscript
    <2>3. CASE /\ i \in Visible
               /\ turns[i].origin = "turn_realtime"
               /\ Continue(w, turns[i].text, worker[w].live)
               /\ UNCHANGED <<session, turns, job>>
      <3>1. turns[i].text \in Answers \cup {None, Silence} /\ worker[w].live \in BOOLEAN
        BY <2>3, TurnsType DEF Visible, TurnRow, Consumer
      <3>2. worker' \in [Workers -> Consumer]
        BY <2>3, <3>1, ContinueType
      <3> QED
        BY <2>3, <3>2 DEF SaveTranscript
    <2> QED
      BY <2>1, <2>2, <2>3 DEF SaveTranscript
  <1>4. CASE SaveAdaptive(w)
    <2> DEFINE q == [seq |-> worker[w].job[2], said |-> worker[w].said]
    <2>1. CASE ReturnError(w) /\ UNCHANGED reserve
      BY <1>4, <2>1, ReturnErrorType DEF SaveAdaptive
    <2>2. CASE \E wanted \in BOOLEAN : Leased(w) /\ Offer(w, wanted, q)
      <3>1. q \in Questions
        BY <1>4, <2>2, JobKinds DEF AskingIsCurrent, SaveAdaptive, Questions
      <3>2. \E r \in Questions : reserve' \subseteq {r}
        BY <2>2, <3>1 DEF Offer
      <3>3. worker' \in [Workers -> Consumer]
        BY <2>2, GoType DEF Offer
      <3> QED
        BY <1>4, <2>2, <3>2, <3>3 DEF SaveAdaptive, Offer
    <2> QED
      BY <1>4, <2>1, <2>2 DEF SaveAdaptive
  <1>5. CASE SaveRefill(w)
    <2>1. CASE ReturnError(w) /\ UNCHANGED reserve
      BY <1>5, <2>1, ReturnErrorType DEF SaveRefill
    <2>2. CASE Go(w, "report")
      <3>1. \E q \in Questions : reserve' \subseteq {q}
        BY <1>5, PreparedIsQuestion DEF SaveRefill, ReturnError
      <3> QED
        BY <1>5, <2>2, <3>1, GoType, ReturnErrorType DEF SaveRefill
    <2> QED
      BY <1>5, <2>1, <2>2 DEF SaveRefill
  <1>6. CASE ReportJob(w)
    <2>1. job' \in [Jobs -> JobRow]
      BY <1>6 DEF ReportJob, JobRow
    <2>2. worker' \in [Workers -> Consumer]
      BY <1>6, RestingType DEF ReportJob
    <2> QED
      BY <1>6, <2>1, <2>2 DEF ReportJob
  <1> QED
    BY <1>1, <1>2, <1>3, <1>4, <1>5, <1>6 DEF HandleJob

LEMMA WorkerType ==
  ASSUME InterviewTypeOK, AskingIsCurrent, WorkerNext
  PROVE  InterviewTypeOK'
PROOF
  <1> USE DEF InterviewTypeOK
  <1> PICK w \in Workers :
        \/ \E j \in Jobs : ClaimJob(w, j)
        \/ HandleJob(w) \/ FailJob(w) \/ LoseLease(w) \/ StopJob(w)
    BY DEF WorkerNext
  <1>1. CASE \E j \in Jobs : ClaimJob(w, j)
    <2> PICK j \in Jobs : ClaimJob(w, j)
      BY <1>1
    <2>1. job' \in [Jobs -> JobRow]
      BY InterviewAssumption DEF ClaimJob, JobRow
    <2>2. [phase |-> "load", job |-> j, holds |-> TRUE, said |-> None, live |-> FALSE] \in Consumer
      BY DEF Consumer
    <2>3. worker' \in [Workers -> Consumer]
      BY <2>2, DroppedType DEF ClaimJob
    <2> QED
      BY <2>1, <2>3 DEF ClaimJob
  <1>2. CASE HandleJob(w)
    BY <1>2, HandleType
  <1>3. CASE FailJob(w)
    <2>1. ReturnError(w) /\ UNCHANGED reserve
      BY <1>3 DEF FailJob
    <2>2. faults' \in 0..MaxFaults
      BY <1>3, InterviewAssumption DEF FailJob, Fault
    <2> QED
      BY <2>1, <2>2, ReturnErrorType
  <1>4. CASE LoseLease(w)
    <2>1. job' \in [Jobs -> JobRow]
      BY <1>4 DEF LoseLease, JobRow
    <2>2. faults' \in 0..MaxFaults
      BY <1>4, InterviewAssumption DEF LoseLease, Fault
    <2> QED
      BY <1>4, <2>1, <2>2 DEF LoseLease
  <1>5. CASE StopJob(w)
    BY <1>5, RestingType DEF StopJob
  <1> QED
    BY <1>1, <1>2, <1>3, <1>4, <1>5

LEMMA TypeStep ==
  ASSUME InterviewTypeOK, AskingIsCurrent, [InterviewNext]_interviewVars
  PROVE  InterviewTypeOK'
PROOF
  <1>1. CASE ClientNext
    BY <1>1, ClientType
  <1>2. CASE SessionExpires
    BY <1>2 DEF SessionExpires, InterviewTypeOK, SessionRow
  <1>3. CASE ExpireSessions
    <2>1. CASE DropSession
      BY <1>3, <2>1, DropSessionType DEF ExpireSessions
    <2>2. CASE session' = [session EXCEPT !.status = "finalized"] /\ UNCHANGED <<turns, reserve, job, worker>>
      BY <1>3, <2>2 DEF ExpireSessions, InterviewTypeOK, SessionRow
    <2> QED
      BY <1>3, <2>1, <2>2 DEF ExpireSessions
  <1>4. CASE WorkerNext
    BY <1>4, WorkerType
  <1>5. CASE UNCHANGED interviewVars
    BY <1>5 DEF interviewVars, InterviewTypeOK
  <1> QED
    BY <1>1, <1>2, <1>3, <1>4, <1>5 DEF InterviewNext

(* What a step does to the consumers *)

USE DEF InterviewInv, SessionPart, JobPart, QuestionPart
LEMMA GoEffect ==
  ASSUME InterviewTypeOK, NEW w \in Workers, NEW phase, Go(w, phase)
  PROVE  \A v \in Workers :
           /\ worker'[v].holds = worker[v].holds /\ worker'[v].job = worker[v].job
           /\ worker'[v].said = worker[v].said
           /\ worker'[v].phase = IF v = w THEN phase ELSE worker[v].phase
PROOF
  BY DEF Go, InterviewTypeOK, Consumer

LEMMA ContinueEffect ==
  ASSUME InterviewTypeOK, NEW w \in Workers, NEW said, NEW live, Continue(w, said, live)
  PROVE  \A v \in Workers :
           /\ worker'[v].holds = worker[v].holds /\ worker'[v].job = worker[v].job
           /\ v # w => worker'[v] = worker[v]
           /\ worker'[w].said = said /\ worker'[w].phase # "hear"
           /\ worker'[w].phase = "ask" => said \in Answers
PROOF
  BY DEF Continue, InterviewTypeOK, Consumer

LEMMA HearEffect ==
  ASSUME InterviewTypeOK, NEW w \in Workers, NEW live,
         worker' = [worker EXCEPT ![w] = [worker[w] EXCEPT !.phase = "hear", !.live = live]]
  PROVE  \A v \in Workers :
           /\ worker'[v].holds = worker[v].holds /\ worker'[v].job = worker[v].job
           /\ v # w => worker'[v] = worker[v]
           /\ worker'[w].phase = "hear"
PROOF
  BY DEF InterviewTypeOK, Consumer

\* The other consumers of a claimed job have lost it.
LEMMA ClaimEffect ==
  ASSUME InterviewTypeOK, NEW w \in Workers, NEW j \in Jobs, ClaimJob(w, j)
  PROVE  /\ worker'[w].job = j /\ worker'[w].phase = "load"
         /\ \A v \in Workers \ {w} :
              /\ worker'[v].job = worker[v].job /\ worker'[v].phase = worker[v].phase
              /\ worker'[v].said = worker[v].said
              /\ worker'[v].holds <=> worker[v].holds /\ worker[v].job # j
PROOF
  BY DEF ClaimJob, Dropped, InterviewTypeOK, Consumer

(* Steps that leave the rows, or the consumers, alone *)

\* What does not depend on the consumers stays when the rows stay.
LEMMA SameRows ==
  ASSUME InterviewInv, UNCHANGED <<session, turns, reserve, job>>
  PROVE  SessionPart' /\ JobHasItsTurn' /\ ReadyIsDecided' /\ SourceIsReady' /\ AdaptiveFollowsAnswer'
PROOF
  BY DEF InterviewInv, SessionPart, NotStarted, LinkedLate, LinkedIsAnswered, Unlinked, Answered,
         Visible, JobPart, JobHasItsTurn, Active, QuestionPart, ReadyIsDecided, Undecided,
         SourceIsReady, AdaptiveFollowsAnswer, Asked

LEMMA SameHolders ==
  ASSUME InterviewInv, UNCHANGED job,
         \A v \in Workers : worker'[v].holds = worker[v].holds /\ worker'[v].job = worker[v].job
  PROVE  OneHolder' /\ HeldIsActive'
PROOF
  BY DEF InterviewInv, JobPart, OneHolder, HeldIsActive, Active

LEMMA SessionOnly ==
  ASSUME InterviewInv, UNCHANGED <<turns, reserve, job, worker>>
  PROVE  JobPart' /\ QuestionPart'
PROOF
  BY DEF InterviewInv, JobPart, OneHolder, HeldIsActive, JobHasItsTurn, Active, Visible,
         QuestionPart, ReadyIsDecided, Undecided, SourceIsReady, AdaptiveFollowsAnswer,
         HearingIsFirst, AskingIsCurrent, Leased, Asked

\* A consumer that hears or asks with its lease goes on undisturbed.
Undisturbed(v) ==
  Leased(v)' => /\ Leased(v) /\ worker'[v].phase = worker[v].phase
                /\ worker'[v].job = worker[v].job /\ worker'[v].said = worker[v].said

Hears(w) == worker[w].phase = "hear" =>
  \E i \in 1..MaxTurns : worker[w].job = TurnJob(i) /\ \A q \in Asked : q.seq # i

Asks(w) == worker[w].phase = "ask" =>
  \E i \in 1..MaxTurns :
    /\ worker[w].job = TurnJob(i)
    /\ turns[i].status = "ready" /\ turns[i].text = worker[w].said
    /\ worker[w].said \in Answers

LEMMA QuietStep ==
  ASSUME InterviewInv, UNCHANGED <<turns, reserve>>,
         \A v \in Workers : worker'[v].phase \in {"hear", "ask"} => Undisturbed(v)
  PROVE  HearingIsFirst' /\ AskingIsCurrent'
PROOF
  <1> USE DEF InterviewInv, QuestionPart
  <1>1. Asked' = Asked
    BY DEF Asked
  <1>2. HearingIsFirst'
    BY <1>1 DEF HearingIsFirst, Undisturbed
  <1>3. AskingIsCurrent'
    BY DEF AskingIsCurrent, Undisturbed
  <1> QED
    BY <1>2, <1>3

LEMMA OthersUndisturbed ==
  ASSUME InterviewInv, UNCHANGED <<turns, reserve>>, NEW w \in Workers,
         \A v \in Workers \ {w} : Undisturbed(v), Hears(w)', Asks(w)'
  PROVE  HearingIsFirst' /\ AskingIsCurrent'
PROOF
  <1> USE DEF InterviewInv, QuestionPart
  <1>1. Asked' = Asked
    BY DEF Asked
  <1>2. HearingIsFirst'
    <2> SUFFICES ASSUME NEW v \in Workers, Leased(v)', worker'[v].phase = "hear"
                 PROVE  \E i \in 1..MaxTurns : worker'[v].job = TurnJob(i) /\ \A q \in Asked' : q.seq # i
      BY DEF HearingIsFirst
    <2>1. CASE v = w
      BY <2>1 DEF Hears
    <2>2. CASE v # w
      BY <1>1, <2>2 DEF HearingIsFirst, Undisturbed
    <2> QED
      BY <2>1, <2>2
  <1>3. AskingIsCurrent'
    <2> SUFFICES ASSUME NEW v \in Workers, Leased(v)', worker'[v].phase = "ask"
                 PROVE  \E i \in 1..MaxTurns :
                          /\ worker'[v].job = TurnJob(i)
                          /\ turns'[i].status = "ready" /\ turns'[i].text = worker'[v].said
                          /\ worker'[v].said \in Answers
      BY DEF AskingIsCurrent
    <2>1. CASE v = w
      BY <2>1 DEF Asks
    <2>2. CASE v # w
      BY <2>2 DEF AskingIsCurrent, Undisturbed
    <2> QED
      BY <2>1, <2>2
  <1> QED
    BY <1>2, <1>3

(* The client *)

LEMMA CreateSessionKeeps ==
  ASSUME InterviewInv, InterviewTypeOK', CreateSession
  PROVE  Parts'
PROOF
  <1>1. SessionPart'
    BY TurnsType DEF InterviewInv, InterviewTypeOK, SessionRow, SessionPart, NotStarted,
       LinkedLate, LinkedIsAnswered, Unlinked, Answered, Visible, Last, CreateSession, Enqueued
  <1>2. JobPart'
    BY JobKinds, TurnsType DEF InterviewInv, InterviewTypeOK, JobRow, Consumer, JobPart,
       OneHolder, HeldIsActive, JobHasItsTurn, Active, NewJob, Leased, Visible, SessionPart,
       NotStarted, Last, CreateSession, Enqueued
  <1>3. QuestionPart'
    BY JobKinds, TurnsType DEF InterviewInv, InterviewTypeOK, JobRow, Consumer, QuestionPart,
       ReadyIsDecided, SourceIsReady, AdaptiveFollowsAnswer, HearingIsFirst, AskingIsCurrent,
       Undecided, Asked, Visible, Leased, Active, NewJob, JobPart, JobHasItsTurn, SessionPart,
       NotStarted, Last, CreateSession, Enqueued
  <1> QED
    BY <1>1, <1>2, <1>3 DEF Parts

LEMMA FailExpiredKeeps ==
  ASSUME InterviewInv, InterviewTypeOK', FailExpired
  PROVE  Parts'
PROOF
  <1>1. SessionPart'
    BY TurnsType DEF InterviewInv, InterviewTypeOK, SessionRow, SessionPart, NotStarted,
       LinkedLate, LinkedIsAnswered, Unlinked, Answered, Visible, Last, FailExpired
  <1>2. JobPart' /\ QuestionPart'
    BY SessionOnly DEF FailExpired
  <1> QED
    BY <1>1, <1>2 DEF Parts

LEMMA StartKeeps ==
  ASSUME InterviewInv, InterviewTypeOK', Start
  PROVE  Parts'
PROOF
  <1>1. SessionPart'
    BY TurnsType DEF InterviewInv, InterviewTypeOK, SessionRow, SessionPart, NotStarted,
       LinkedLate, LinkedIsAnswered, Unlinked, Answered, Visible, Last, Start, NewTurn, Prepared
  <1>2. JobPart'
    BY JobKinds, TurnsType DEF InterviewInv, InterviewTypeOK, JobRow, Consumer, JobPart,
       OneHolder, HeldIsActive, JobHasItsTurn, Active, NewJob, Leased, Visible, SessionPart,
       NotStarted, Last, Start, NewTurn, Prepared
  <1>3. QuestionPart'
    BY JobKinds, TurnsType DEF InterviewInv, InterviewTypeOK, JobRow, Consumer, QuestionPart,
       ReadyIsDecided, SourceIsReady, AdaptiveFollowsAnswer, HearingIsFirst, AskingIsCurrent,
       Undecided, Asked, Visible, Leased, Active, NewJob, JobPart, JobHasItsTurn, SessionPart,
       NotStarted, Last, Start, NewTurn, Prepared
  <1> QED
    BY <1>1, <1>2, <1>3 DEF Parts

LEMMA AdvanceKeeps ==
  ASSUME InterviewInv, InterviewTypeOK', NEW skip \in BOOLEAN, Advance(skip)
  PROVE  Parts'
PROOF
  <1> PICK q \in reserve :
        /\ turns' = Append([turns EXCEPT ![Last] = [@ EXCEPT !.ended = TRUE, !.skipped = skip]],
                           NewTurn(q))
        /\ reserve' = reserve \ {q}
    BY DEF Advance
  <1>1. /\ Last \in DOMAIN turns /\ DOMAIN turns = 1..Last /\ DOMAIN turns' = 1..Last + 1
        /\ turns'[Last + 1] = NewTurn(q)
        /\ \A k \in 1..Last - 1 : turns'[k] = turns[k]
        /\ turns'[Last] = [turns[Last] EXCEPT !.ended = TRUE, !.skipped = skip]
        /\ turns[Last] \in TurnRow
    <2> DEFINE final == [turns[Last] EXCEPT !.ended = TRUE, !.skipped = skip]
               ended == [turns EXCEPT ![Last] = final]
    <2>1. Last \in Nat /\ 0 < Last /\ DOMAIN turns = 1..Last /\ turns[Last] \in TurnRow
      BY TurnsType DEF InterviewInv, Advance
    <2>2. final \in TurnRow
      BY <2>1 DEF TurnRow
    <2>3. ended \in Seq(TurnRow) /\ Len(ended) = Last
      BY <2>2, OneTurnType DEF InterviewInv, Last
    <2>4. NewTurn(q) \in TurnRow
      BY NewTurnType DEF InterviewInv, InterviewTypeOK
    <2>5. turns' = Append(ended, NewTurn(q))
      OBVIOUS
    <2>6. /\ Len(turns') = Last + 1 /\ turns'[Last + 1] = NewTurn(q)
          /\ \A k \in 1..Last : turns'[k] = ended[k]
      BY <2>3, <2>4, <2>5, AppendProperties
    <2>7. /\ ended[Last] = final
          /\ \A k \in 1..Last : k # Last => ended[k] = turns[k]
      <3> HIDE DEF final
      <3> QED
        BY <2>1
    <2>8. DOMAIN turns' = 1..Last + 1
      BY <2>6 DEF InterviewTypeOK
    <2> QED
      BY <2>1, <2>6, <2>7, <2>8
  <1>2. \A k \in DOMAIN turns :
          /\ turns'[k].asked = turns[k].asked /\ turns'[k].status = turns[k].status
          /\ turns'[k].text = turns[k].text /\ turns'[k].origin = turns[k].origin
          /\ turns[k].status # "pending" => turns'[k].skipped = turns[k].skipped
    BY <1>1 DEF TurnRow, Advance, Unanswered
  <1>3. SessionPart'
    BY DEF InterviewInv, InterviewTypeOK, SessionRow, SessionPart, NotStarted, LinkedLate,
           LinkedIsAnswered, Unlinked, Advance
  <1>4. \A j \in Jobs : job'[j] = job[j] \/ (j \in Refills /\ job'[j] = NewJob /\ job[j].state = "none")
    <2>1. CASE skip /\ reserve' = {}
      <3>1. Last + 1 \in 2..MaxTurns
        BY TurnsType, InterviewAssumption DEF InterviewInv, Advance
      <3>2. job' = Enqueued(Refill(Last + 1)) /\ Refill(Last + 1) \in Refills
        BY <2>1, <3>1 DEF Advance, Refills
      <3> QED
        BY <3>2 DEF Enqueued, InterviewInv, InterviewTypeOK
    <2>2. CASE ~(skip /\ reserve' = {})
      BY <2>2 DEF Advance
    <2> QED
      BY <2>1, <2>2
  <1>5. UNCHANGED worker /\ \A w \in Workers : worker[w].job \in Jobs
    BY DEF InterviewInv, InterviewTypeOK, Consumer, Advance
  <1>6. OneHolder' /\ HeldIsActive'
    BY <1>4, <1>5 DEF InterviewInv, JobPart, OneHolder, HeldIsActive, Active
  <1>7. JobHasItsTurn'
    BY JobKinds, <1>1, <1>2, <1>4 DEF InterviewInv, JobPart, JobHasItsTurn, Active, Visible
  <1>8. Asked' \subseteq Asked
    <2> SUFFICES ASSUME NEW k \in DOMAIN turns' PROVE turns'[k].asked \in Asked
      BY DEF Asked
    <2>1. CASE k = Last + 1
      BY <1>1, <2>1 DEF NewTurn, Asked
    <2>2. CASE k \in DOMAIN turns
      BY <1>2, <2>2 DEF Asked
    <2> QED
      BY <1>1, <2>1, <2>2, TurnsType DEF InterviewInv
  <1>9. ReadyIsDecided'
    BY <1>1, <1>2 DEF InterviewInv, QuestionPart, ReadyIsDecided, Undecided, NewTurn
  <1>10. SourceIsReady' /\ AdaptiveFollowsAnswer'
    BY <1>1, <1>2, <1>8
       DEF InterviewInv, QuestionPart, SourceIsReady, AdaptiveFollowsAnswer, Visible
  <1>11. \A w \in Workers : Leased(w)' => Leased(w)
    BY <1>4, <1>5 DEF Leased, NewJob
  <1>12. HearingIsFirst'
    BY <1>5, <1>8, <1>11 DEF InterviewInv, QuestionPart, HearingIsFirst
  <1>13. AskingIsCurrent'
    <2> SUFFICES ASSUME NEW w \in Workers, Leased(w)', worker'[w].phase = "ask"
                 PROVE  \E k \in 1..MaxTurns :
                          /\ worker'[w].job = TurnJob(k)
                          /\ turns'[k].status = "ready" /\ turns'[k].text = worker'[w].said
                          /\ worker'[w].said \in Answers
      BY DEF AskingIsCurrent
    <2>1. Leased(w) /\ worker[w].phase = "ask"
      BY <1>5, <1>11
    <2>2. PICK k \in 1..MaxTurns :
            /\ worker[w].job = TurnJob(k)
            /\ turns[k].status = "ready" /\ turns[k].text = worker[w].said
            /\ worker[w].said \in Answers
      BY <2>1 DEF InterviewInv, QuestionPart, AskingIsCurrent
    <2>3. k \in DOMAIN turns
      BY <2>1, <2>2 DEF InterviewInv, JobPart, JobHasItsTurn, Leased, Active, Visible
    <2> QED
      BY <1>2, <1>5, <2>2, <2>3
  <1> QED
    BY <1>3, <1>6, <1>7, <1>9, <1>10, <1>12, <1>13 DEF Parts, JobPart, QuestionPart

LEMMA SkipTurnKeeps ==
  ASSUME InterviewInv, InterviewTypeOK', SkipTurn
  PROVE  Parts'
PROOF
  <1>1. SessionPart'
    BY TurnsType DEF InterviewInv, InterviewTypeOK, SessionRow, SessionPart, NotStarted,
       LinkedLate, LinkedIsAnswered, Unlinked, Answered, Visible, Last, SkipTurn, Unanswered
  <1>2. JobPart'
    BY JobKinds, TurnsType DEF InterviewInv, InterviewTypeOK, JobRow, Consumer, JobPart,
       OneHolder, HeldIsActive, JobHasItsTurn, Active, NewJob, Leased, Visible, SessionPart,
       NotStarted, Last, SkipTurn, Unanswered
  <1>3. QuestionPart'
    BY JobKinds, TurnsType DEF InterviewInv, InterviewTypeOK, JobRow, Consumer, QuestionPart,
       ReadyIsDecided, SourceIsReady, AdaptiveFollowsAnswer, HearingIsFirst, AskingIsCurrent,
       Undecided, Asked, Visible, Leased, Active, NewJob, JobPart, JobHasItsTurn, SessionPart,
       NotStarted, Last, SkipTurn, Unanswered
  <1> QED
    BY <1>1, <1>2, <1>3 DEF Parts

LEMMA AttachAudioKeeps ==
  ASSUME InterviewInv, InterviewTypeOK', NEW i \in 1..MaxTurns, AttachAudio(i)
  PROVE  Parts'
PROOF
  <1>1. SessionPart'
    BY TurnsType
       DEF InterviewInv, InterviewTypeOK, SessionRow, SessionPart, NotStarted, LinkedLate,
           LinkedIsAnswered, Unlinked, Answered, Visible, AttachAudio, Awaiting
  <1>2. JobPart'
    BY JobKinds, TurnsType
       DEF InterviewInv, InterviewTypeOK, JobRow, Consumer, JobPart, OneHolder, HeldIsActive,
           JobHasItsTurn, Active, NewJob, Visible, AttachAudio, Enqueued, Awaiting
  <1>3. \A k \in DOMAIN turns :
          /\ k \in DOMAIN turns'
          /\ turns'[k].asked = turns[k].asked /\ turns'[k].skipped = turns[k].skipped
          /\ turns'[k].text = turns[k].text /\ turns'[k].origin = turns[k].origin
          /\ turns'[k].status = "ready" <=> turns[k].status = "ready"
    BY TurnsType DEF InterviewInv, AttachAudio, Awaiting, TurnRow, Visible
  <1>4. DOMAIN turns' = DOMAIN turns /\ reserve' = reserve /\ worker' = worker
    BY DEF AttachAudio
  <1>5. Asked' = Asked /\ Visible' = Visible
    BY <1>3, <1>4 DEF Asked, Visible
  <1>6. \A w \in Workers : Leased(w)' => Leased(w)
    BY DEF InterviewInv, InterviewTypeOK, Consumer, Leased, AttachAudio, Enqueued, NewJob
  <1>7. ReadyIsDecided' /\ SourceIsReady' /\ AdaptiveFollowsAnswer'
    BY <1>3, <1>4, <1>5
       DEF InterviewInv, QuestionPart, ReadyIsDecided, Undecided, SourceIsReady,
           AdaptiveFollowsAnswer, Visible
  <1>8. HearingIsFirst'
    BY <1>4, <1>5, <1>6 DEF InterviewInv, QuestionPart, HearingIsFirst
  <1>9. AskingIsCurrent'
    <2> SUFFICES ASSUME NEW w \in Workers, Leased(w)', worker'[w].phase = "ask"
                 PROVE  \E k \in 1..MaxTurns :
                          /\ worker'[w].job = TurnJob(k)
                          /\ turns'[k].status = "ready" /\ turns'[k].text = worker'[w].said
                          /\ worker'[w].said \in Answers
      BY DEF AskingIsCurrent
    <2>1. Leased(w) /\ worker[w].phase = "ask"
      BY <1>4, <1>6
    <2>2. PICK k \in 1..MaxTurns :
            /\ worker[w].job = TurnJob(k)
            /\ turns[k].status = "ready" /\ turns[k].text = worker[w].said
            /\ worker[w].said \in Answers
      BY <2>1 DEF InterviewInv, QuestionPart, AskingIsCurrent
    <2>3. k \in DOMAIN turns
      BY <2>1, <2>2 DEF InterviewInv, JobPart, JobHasItsTurn, Leased, Active, Visible
    <2> QED
      BY <1>3, <1>4, <2>2, <2>3
  <1> QED
    BY <1>1, <1>2, <1>7, <1>8, <1>9 DEF Parts, QuestionPart

LEMMA SaveTurnTranscriptKeeps ==
  ASSUME InterviewInv, InterviewTypeOK', NEW i \in 1..MaxTurns, NEW text \in Spoken,
         SaveTurnTranscript(i, text)
  PROVE  Parts'
PROOF
  <1>1. SessionPart'
    BY TurnsType
       DEF InterviewInv, InterviewTypeOK, SessionRow, SessionPart, NotStarted, LinkedLate,
           LinkedIsAnswered, Unlinked, Answered, Visible, SaveTurnTranscript
  <1>2. JobPart'
    BY JobKinds, TurnsType
       DEF InterviewInv, InterviewTypeOK, JobRow, Consumer, JobPart, OneHolder, HeldIsActive,
           JobHasItsTurn, Active, NewJob, Visible, SaveTurnTranscript, Enqueued
  <1>3. i \in DOMAIN turns /\ turns[i].status # "ready"
    BY DEF InterviewInv, QuestionPart, ReadyIsDecided, SaveTurnTranscript, Visible, Undecided
  <1>4. /\ DOMAIN turns' = DOMAIN turns /\ reserve' = reserve /\ worker' = worker
        /\ \A k \in DOMAIN turns : k # i => turns'[k] = turns[k]
        /\ turns'[i].asked = turns[i].asked /\ turns'[i].skipped = turns[i].skipped
        /\ turns'[i].status = "ready" /\ turns'[i].origin = "turn_realtime"
    BY TurnsType, <1>3 DEF InterviewInv, SaveTurnTranscript, TurnRow
  <1>5. Asked' = Asked /\ Visible' = Visible
    BY <1>4 DEF Asked, Visible
  <1>6. \A w \in Workers : Leased(w)' => Leased(w)
    BY DEF InterviewInv, InterviewTypeOK, Consumer, Leased, SaveTurnTranscript, Enqueued, NewJob
  <1>7. ReadyIsDecided'
    BY <1>4 DEF InterviewInv, QuestionPart, ReadyIsDecided, Undecided
  <1>8. SourceIsReady' /\ AdaptiveFollowsAnswer'
    <2>1. \A q \in Asked : q.seq # 0 => turns'[q.seq] = turns[q.seq] /\ q.seq \in Visible
      BY <1>3, <1>4 DEF InterviewInv, QuestionPart, SourceIsReady, Visible
    <2> QED
      BY <1>5, <2>1 DEF InterviewInv, QuestionPart, SourceIsReady, AdaptiveFollowsAnswer
  <1>9. HearingIsFirst'
    BY <1>4, <1>5, <1>6 DEF InterviewInv, QuestionPart, HearingIsFirst
  <1>10. AskingIsCurrent'
    <2> SUFFICES ASSUME NEW w \in Workers, Leased(w)', worker'[w].phase = "ask"
                 PROVE  \E k \in 1..MaxTurns :
                          /\ worker'[w].job = TurnJob(k)
                          /\ turns'[k].status = "ready" /\ turns'[k].text = worker'[w].said
                          /\ worker'[w].said \in Answers
      BY DEF AskingIsCurrent
    <2>1. Leased(w) /\ worker[w].phase = "ask"
      BY <1>4, <1>6
    <2>2. PICK k \in 1..MaxTurns :
            /\ worker[w].job = TurnJob(k)
            /\ turns[k].status = "ready" /\ turns[k].text = worker[w].said
            /\ worker[w].said \in Answers
      BY <2>1 DEF InterviewInv, QuestionPart, AskingIsCurrent
    <2>3. k \in DOMAIN turns
      BY <2>1, <2>2 DEF InterviewInv, JobPart, JobHasItsTurn, Leased, Active, Visible
    <2> QED
      BY <1>3, <1>4, <2>2, <2>3
  <1> QED
    BY <1>1, <1>2, <1>7, <1>8, <1>9, <1>10 DEF Parts, QuestionPart

LEMMA EnsureRefillKeeps ==
  ASSUME InterviewInv, InterviewTypeOK', EnsureRefill
  PROVE  Parts'
PROOF
  <1>1. SessionPart'
    BY TurnsType DEF InterviewInv, InterviewTypeOK, SessionRow, SessionPart, NotStarted,
       LinkedLate, LinkedIsAnswered, Unlinked, Answered, Visible, Last, EnsureRefill, Dropped
  <1>2. JobPart'
    BY JobKinds, TurnsType DEF InterviewInv, InterviewTypeOK, JobRow, Consumer, JobPart,
       OneHolder, HeldIsActive, JobHasItsTurn, Active, NewJob, Leased, Visible, SessionPart,
       NotStarted, Last, EnsureRefill, Dropped
  <1>3. QuestionPart'
    BY JobKinds, TurnsType DEF InterviewInv, InterviewTypeOK, JobRow, Consumer, QuestionPart,
       ReadyIsDecided, SourceIsReady, AdaptiveFollowsAnswer, HearingIsFirst, AskingIsCurrent,
       Undecided, Asked, Visible, Leased, Active, NewJob, JobPart, JobHasItsTurn, SessionPart,
       NotStarted, Last, EnsureRefill, Dropped
  <1> QED
    BY <1>1, <1>2, <1>3 DEF Parts

LEMMA CancelKeeps ==
  ASSUME InterviewInv, InterviewTypeOK', Cancel
  PROVE  Parts'
PROOF
  <1>1. SessionPart'
    BY TurnsType DEF InterviewInv, InterviewTypeOK, SessionRow, SessionPart, NotStarted,
       LinkedLate, LinkedIsAnswered, Unlinked, Answered, Visible, Last, Cancel, Retire, Dropped
  <1>2. JobPart'
    BY JobKinds, TurnsType DEF InterviewInv, InterviewTypeOK, JobRow, Consumer, JobPart,
       OneHolder, HeldIsActive, JobHasItsTurn, Active, NewJob, Leased, Visible, SessionPart,
       NotStarted, Last, Cancel, Retire, Dropped
  <1>3. QuestionPart'
    BY JobKinds, TurnsType DEF InterviewInv, InterviewTypeOK, JobRow, Consumer, QuestionPart,
       ReadyIsDecided, SourceIsReady, AdaptiveFollowsAnswer, HearingIsFirst, AskingIsCurrent,
       Undecided, Asked, Visible, Leased, Active, NewJob, JobPart, JobHasItsTurn, SessionPart,
       NotStarted, Last, Cancel, Retire, Dropped
  <1> QED
    BY <1>1, <1>2, <1>3 DEF Parts

LEMMA LinkRecordingKeeps ==
  ASSUME InterviewInv, InterviewTypeOK', LinkRecording
  PROVE  Parts'
PROOF
  <1>1. SessionPart'
    BY TurnsType DEF InterviewInv, InterviewTypeOK, SessionRow, SessionPart, NotStarted,
       LinkedLate, LinkedIsAnswered, Unlinked, Answered, Visible, Last, LinkRecording,
       LinkInterview
  <1>2. JobPart' /\ QuestionPart'
    BY SessionOnly DEF LinkRecording, LinkInterview
  <1> QED
    BY <1>1, <1>2 DEF Parts

LEMMA FinalizeKeeps ==
  ASSUME InterviewInv, InterviewTypeOK', Finalize
  PROVE  Parts'
PROOF
  <1>1. SessionPart'
    BY TurnsType DEF InterviewInv, InterviewTypeOK, SessionRow, SessionPart, NotStarted,
       LinkedLate, LinkedIsAnswered, Unlinked, Answered, Visible, Last, Finalize, EndLastTurn
  <1>2. JobPart'
    BY JobKinds, TurnsType DEF InterviewInv, InterviewTypeOK, JobRow, Consumer, JobPart,
       OneHolder, HeldIsActive, JobHasItsTurn, Active, NewJob, Leased, Visible, SessionPart,
       NotStarted, Last, Finalize, EndLastTurn
  <1>3. QuestionPart'
    BY JobKinds, TurnsType DEF InterviewInv, InterviewTypeOK, JobRow, Consumer, QuestionPart,
       ReadyIsDecided, SourceIsReady, AdaptiveFollowsAnswer, HearingIsFirst, AskingIsCurrent,
       Undecided, Asked, Visible, Leased, Active, NewJob, JobPart, JobHasItsTurn, SessionPart,
       NotStarted, Last, Finalize, EndLastTurn
  <1> QED
    BY <1>1, <1>2, <1>3 DEF Parts

(* Time and maintenance *)

LEMMA SessionExpiresKeeps ==
  ASSUME InterviewInv, InterviewTypeOK', SessionExpires
  PROVE  Parts'
PROOF
  <1>1. SessionPart'
    BY TurnsType DEF InterviewInv, InterviewTypeOK, SessionRow, SessionPart, NotStarted,
       LinkedLate, LinkedIsAnswered, Unlinked, Answered, Visible, Last, SessionExpires
  <1>2. JobPart' /\ QuestionPart'
    BY SessionOnly DEF SessionExpires
  <1> QED
    BY <1>1, <1>2 DEF Parts

LEMMA DropSessionKeeps ==
  ASSUME InterviewInv, InterviewTypeOK', DropSession
  PROVE  Parts'
PROOF
  <1>1. SessionPart'
    BY TurnsType DEF InterviewInv, InterviewTypeOK, SessionRow, SessionPart, NotStarted,
       LinkedLate, LinkedIsAnswered, Unlinked, Answered, Visible, Last, DropSession, Retire,
       Dropped
  <1>2. JobPart'
    BY JobKinds, TurnsType DEF InterviewInv, InterviewTypeOK, JobRow, Consumer, JobPart,
       OneHolder, HeldIsActive, JobHasItsTurn, Active, NewJob, Leased, Visible, SessionPart,
       NotStarted, Last, DropSession, Retire, Dropped
  <1>3. QuestionPart'
    BY JobKinds, TurnsType DEF InterviewInv, InterviewTypeOK, JobRow, Consumer, QuestionPart,
       ReadyIsDecided, SourceIsReady, AdaptiveFollowsAnswer, HearingIsFirst, AskingIsCurrent,
       Undecided, Asked, Visible, Leased, Active, NewJob, JobPart, JobHasItsTurn, SessionPart,
       NotStarted, Last, DropSession, Retire, Dropped
  <1> QED
    BY <1>1, <1>2, <1>3 DEF Parts

(* The handler *)

\* ClaimJob
LEMMA ClaimKeeps ==
  ASSUME InterviewInv, NEW w \in Workers, NEW j \in Jobs, ClaimJob(w, j)
  PROVE  OneHolder' /\ HearingIsFirst' /\ AskingIsCurrent'
PROOF
  <1> USE DEF InterviewInv, JobPart
  <1>1. \A v \in Workers \ {w} : Undisturbed(v)
    <2> SUFFICES ASSUME NEW v \in Workers \ {w}, Leased(v)'
                 PROVE  Leased(v)
      BY ClaimEffect DEF Undisturbed
    <2>1. worker[v].holds /\ worker[v].job # j /\ worker'[v].job = worker[v].job
      BY ClaimEffect DEF Leased
    <2>2. worker[v].job \in Jobs
      BY DEF InterviewTypeOK, Consumer
    <2>3. job'[worker[v].job] = job[worker[v].job]
      BY <2>1, <2>2 DEF ClaimJob, InterviewTypeOK
    <2> QED
      BY <2>1, <2>3 DEF Leased
  <1>2. OneHolder'
    BY ClaimEffect DEF OneHolder
  <1>3. UNCHANGED <<turns, reserve>>
    BY DEF ClaimJob
  <1> QED
    BY <1>1, <1>2, <1>3, ClaimEffect, QuietStep

LEMMA ClaimJobKeeps ==
  ASSUME InterviewInv, NEW w \in Workers, NEW j \in Jobs, ClaimJob(w, j)
  PROVE  Parts'
PROOF
  <1>1. SessionPart' /\ ReadyIsDecided' /\ SourceIsReady' /\ AdaptiveFollowsAnswer'
    BY DEF InterviewInv, SessionPart, NotStarted, LinkedLate, LinkedIsAnswered, Unlinked, Answered,
           Visible, QuestionPart, ReadyIsDecided, Undecided, SourceIsReady, AdaptiveFollowsAnswer,
           Asked, ClaimJob
  <1>2. \A k \in Jobs : Active(k)' <=> Active(k)
    BY DEF InterviewInv, InterviewTypeOK, JobRow, Active, ClaimJob
  <1>3. OneHolder' /\ HearingIsFirst' /\ AskingIsCurrent'
    BY ClaimKeeps
  <1>4. JobHasItsTurn'
    BY JobKinds, <1>2 DEF InterviewInv, JobPart, JobHasItsTurn, Visible, ClaimJob
  <1>5. HeldIsActive'
    <2> SUFFICES ASSUME NEW v \in Workers, worker'[v].holds
                 PROVE  job'[worker'[v].job].state \in {"waiting", "running", "lapsed"}
      BY DEF HeldIsActive, Active
    <2>1. CASE v = w
      <3>1. job'[j].state = "running"
        BY DEF InterviewInv, InterviewTypeOK, ClaimJob
      <3> QED
        BY <2>1, <3>1, ClaimEffect DEF InterviewInv
    <2>2. CASE v # w
      BY <1>2, <2>2, ClaimEffect
         DEF InterviewInv, InterviewTypeOK, Consumer, JobPart, HeldIsActive, Active
    <2> QED
      BY <2>1, <2>2
  <1> QED
    BY <1>1, <1>3, <1>4, <1>5 DEF Parts, JobPart, QuestionPart

LEMMA GoKeeps ==
  ASSUME InterviewInv, NEW w \in Workers, NEW phase \in {"save", "report"}, Go(w, phase),
         UNCHANGED <<turns, reserve, job>>
  PROVE  HearingIsFirst' /\ AskingIsCurrent'
PROOF
  <1> USE DEF InterviewInv, QuestionPart
  <1>1. \A v \in Workers \ {w} : Undisturbed(v)
    BY GoEffect DEF Leased, Undisturbed
  <1> QED
    BY <1>1, GoEffect, QuietStep

\* LoadWork
LEMMA LoadKeeps ==
  ASSUME InterviewInv, NEW w \in Workers, LoadWork(w)
  PROVE  HearingIsFirst' /\ AskingIsCurrent'
PROOF
  <1> USE DEF InterviewInv, QuestionPart
  <1> DEFINE j == worker[w].job
             i == j[2]
             live == session.status = "recording"
  <1>0. UNCHANGED <<turns, reserve, job>> /\ j \in Jobs
    BY DEF LoadWork, InterviewTypeOK, Consumer
  <1>1. CASE Go(w, "save") \/ Go(w, "report")
    BY <1>0, <1>1, GoEffect, GoKeeps
  <1>2. CASE /\ j # Prepare /\ j \notin Refills
             /\ i \in Visible /\ turns[i].status = "ready"
             /\ Continue(w, turns[i].text, live)
    <2>1. \A v \in Workers \ {w} : Undisturbed(v)
      BY <1>0, <1>2, ContinueEffect DEF Undisturbed, Leased
    <2>2. PICK k \in 1..MaxTurns : j = TurnJob(k) /\ i = k
      BY <1>0, <1>2, JobKinds
    <2>3. Asks(w)'
      BY <1>0, <1>2, <2>2, ContinueEffect DEF Asks
    <2>4. Hears(w)'
      BY <1>2, ContinueEffect DEF Hears
    <2> QED
      BY <1>0, <2>1, <2>3, <2>4, OthersUndisturbed
  <1>3. CASE /\ j # Prepare /\ j \notin Refills
             /\ i \in Visible /\ turns[i].status # "ready"
             /\ worker' = [worker EXCEPT ![w] = [worker[w] EXCEPT !.phase = "hear", !.live = live]]
    <2>1. \A v \in Workers \ {w} : Undisturbed(v)
      BY <1>0, <1>3, HearEffect DEF Undisturbed, Leased
    <2>2. PICK k \in 1..MaxTurns : j = TurnJob(k) /\ i = k
      BY <1>0, <1>3, JobKinds
    <2>3. \A q \in Asked : q.seq # k
      BY <1>3, <2>2 DEF SourceIsReady
    <2>4. Hears(w)'
      <3>1. Asked' = Asked
        BY <1>0 DEF Asked
      <3>2. worker'[w].job = TurnJob(k)
        BY <1>3, <2>2, HearEffect
      <3> QED
        BY <2>3, <3>1, <3>2 DEF Hears
    <2>5. Asks(w)'
      BY <1>3, HearEffect DEF Asks
    <2> QED
      BY <1>0, <2>1, <2>4, <2>5, OthersUndisturbed
  <1> QED
    BY <1>1, <1>2, <1>3 DEF LoadWork

LEMMA LoadWorkKeeps ==
  ASSUME InterviewInv, NEW w \in Workers, LoadWork(w)
  PROVE  Parts'
PROOF
  <1>1. UNCHANGED <<session, turns, reserve, job>>
    BY DEF LoadWork
  <1>2. OneHolder' /\ HeldIsActive'
    <2>1. \A v \in Workers : worker'[v].holds = worker[v].holds /\ worker'[v].job = worker[v].job
      BY GoEffect, ContinueEffect, HearEffect, ZenonT(40) DEF LoadWork, InterviewInv
    <2> QED
      BY <1>1, <2>1, SameHolders
  <1> QED
    BY <1>1, <1>2, LoadKeeps, SameRows DEF Parts, JobPart, QuestionPart

\* A new question keeps everything if the answer it follows is that of a turn
\* which nobody else still transcribes.
LEMMA OfferKeeps ==
  ASSUME InterviewInv, NEW w \in Workers, NEW q \in Questions, Go(w, "report"),
         UNCHANGED <<turns, job>>, reserve' \subseteq reserve \cup {q},
         q.seq # 0 =>
           /\ q.seq \in Visible /\ turns[q.seq].status = "ready" /\ turns[q.seq].text = q.said
           /\ \A v \in Workers \ {w} : Leased(v) => worker[v].job # TurnJob(q.seq)
  PROVE  JobPart' /\ QuestionPart'
PROOF
  <1>1. Asked' \subseteq Asked \cup {q} /\ Visible' = Visible
    BY DEF Asked, Visible
  <1>2. ReadyIsDecided' /\ SourceIsReady' /\ AdaptiveFollowsAnswer'
    BY <1>1 DEF InterviewInv, QuestionPart, ReadyIsDecided, Undecided, SourceIsReady,
                AdaptiveFollowsAnswer
  <1>3. OneHolder' /\ HeldIsActive'
    BY GoEffect, SameHolders DEF InterviewInv
  <1>4. JobHasItsTurn'
    BY <1>1 DEF InterviewInv, JobPart, JobHasItsTurn, Active
  <1>5. \A v \in Workers \ {w} :
          /\ worker'[v].phase = worker[v].phase /\ worker'[v].job = worker[v].job
          /\ worker'[v].said = worker[v].said /\ (Leased(v)' => Leased(v))
    BY GoEffect DEF InterviewInv, Leased
  <1>6. worker'[w].phase = "report"
    BY GoEffect DEF InterviewInv
  <1>7. HearingIsFirst'
    <2> SUFFICES ASSUME NEW v \in Workers, Leased(v)', worker'[v].phase = "hear"
                 PROVE  \E i \in 1..MaxTurns : worker'[v].job = TurnJob(i) /\ \A r \in Asked' : r.seq # i
      BY DEF HearingIsFirst
    <2>1. v # w /\ Leased(v) /\ worker[v].phase = "hear" /\ worker'[v].job = worker[v].job
      BY <1>5, <1>6
    <2>2. PICK i \in 1..MaxTurns : worker[v].job = TurnJob(i) /\ \A r \in Asked : r.seq # i
      BY <2>1 DEF InterviewInv, QuestionPart, HearingIsFirst
    <2>3. q.seq # i
      BY <2>1, <2>2
    <2> QED
      BY <1>1, <2>1, <2>2, <2>3
  <1>8. AskingIsCurrent'
    BY <1>5, <1>6 DEF InterviewInv, QuestionPart, AskingIsCurrent
  <1> QED
    BY <1>2, <1>3, <1>4, <1>7, <1>8 DEF JobPart, QuestionPart

LEMMA SavePreparationKeeps ==
  ASSUME InterviewInv, InterviewTypeOK', NEW w \in Workers, Leased(w), SavePreparation(w)
  PROVE  Parts'
PROOF
  <1>1. Go(w, "report") /\ UNCHANGED <<turns, job>> /\ reserve' \subseteq reserve \cup {Prepared}
    BY DEF SavePreparation
  <1>2. JobPart' /\ QuestionPart'
    BY <1>1, OfferKeeps, PreparedIsQuestion DEF Prepared
  <1>3. SessionPart'
    BY DEF InterviewInv, InterviewTypeOK, SessionRow, SessionPart, NotStarted, LinkedLate,
           LinkedIsAnswered, Unlinked, Answered, Visible, SavePreparation
  <1> QED
    BY <1>2, <1>3 DEF Parts

LEMMA SaveRefillKeeps ==
  ASSUME InterviewInv, NEW w \in Workers, Leased(w), SaveRefill(w)
  PROVE  Parts'
PROOF
  <1>1. /\ Go(w, "report") /\ UNCHANGED <<session, turns, job>>
        /\ reserve' \subseteq reserve \cup {Prepared}
    BY DEF SaveRefill
  <1>2. JobPart' /\ QuestionPart'
    BY <1>1, OfferKeeps, PreparedIsQuestion DEF Prepared
  <1>3. SessionPart'
    BY <1>1 DEF InterviewInv, SessionPart, NotStarted, LinkedLate, LinkedIsAnswered, Unlinked,
                Answered, Visible
  <1> QED
    BY <1>2, <1>3 DEF Parts

LEMMA SaveAdaptiveKeeps ==
  ASSUME InterviewInv, NEW w \in Workers, Leased(w), SaveAdaptive(w)
  PROVE  Parts'
PROOF
  <1>1. PICK i \in 1..MaxTurns :
          /\ worker[w].job = TurnJob(i)
          /\ turns[i].status = "ready" /\ turns[i].text = worker[w].said
          /\ worker[w].said \in Answers
    BY DEF InterviewInv, QuestionPart, AskingIsCurrent, SaveAdaptive
  <1> DEFINE q == [seq |-> i, said |-> worker[w].said]
  <1>2. i \in Visible
    BY <1>1 DEF InterviewInv, JobPart, JobHasItsTurn, Leased, Active
  <1>3. q \in Questions
    BY <1>1 DEF Questions
  <1>4. \A v \in Workers \ {w} : Leased(v) => worker[v].job # TurnJob(i)
    BY <1>1 DEF InterviewInv, JobPart, OneHolder, Leased
  <1>5. /\ Go(w, "report") /\ UNCHANGED <<session, turns, job>>
        /\ reserve' \subseteq reserve \cup {q}
    BY JobKinds, <1>1 DEF SaveAdaptive, Offer
  <1>6. JobPart' /\ QuestionPart'
    BY <1>1, <1>2, <1>3, <1>4, <1>5, OfferKeeps
  <1>7. SessionPart'
    BY <1>5 DEF InterviewInv, SessionPart, NotStarted, LinkedLate, LinkedIsAnswered, Unlinked,
                Answered, Visible
  <1> QED
    BY <1>6, <1>7 DEF Parts

\* The job whose lease it is, and nobody else, writes the answer.
LEMMA SaveTranscriptKeeps ==
  ASSUME InterviewInv, InterviewTypeOK', NEW w \in Workers, NEW text \in Heard \cup {Silence},
         Leased(w), SaveTranscript(w, text), ~ReturnError(w)
  PROVE  Parts'
PROOF
  <1>1. PICK i \in 1..MaxTurns : worker[w].job = TurnJob(i) /\ \A q \in Asked : q.seq # i
    BY DEF InterviewInv, QuestionPart, HearingIsFirst, SaveTranscript
  <1>2. i \in DOMAIN turns /\ i \in Visible /\ worker[w].job[2] = i
    BY JobKinds, <1>1 DEF InterviewInv, JobPart, JobHasItsTurn, Leased, Active, Visible
  <1>3. \A v \in Workers \ {w} : Leased(v) => worker[v].job # TurnJob(i)
    BY <1>1 DEF InterviewInv, JobPart, OneHolder, Leased
  <1>4. PICK said : /\ Continue(w, said, worker[w].live)
                    /\ UNCHANGED <<session, job, reserve>>
                    /\ DOMAIN turns' = DOMAIN turns
                    /\ \A k \in DOMAIN turns : k # i => turns'[k] = turns[k]
                    /\ turns'[i].asked = turns[i].asked /\ turns'[i].skipped = turns[i].skipped
                    /\ turns'[i].status = "ready" /\ turns'[i].origin # "none"
                    /\ turns'[i].text = said
    <2>1. CASE turns[i].origin # "turn_realtime"
      <3>1. /\ turns' = [turns EXCEPT ![i] =
                 [@ EXCEPT !.status = "ready", !.origin = "turn_batch", !.text = text]]
            /\ Continue(w, text, worker[w].live) /\ UNCHANGED <<session, job, reserve>>
        BY <1>2, <2>1 DEF SaveTranscript
      <3> QED
        BY <1>2, <3>1, TurnsType, ZenonT(40) DEF InterviewInv, TurnRow
    <2>2. CASE turns[i].origin = "turn_realtime"
      BY <1>2, <2>2, TurnsType
         DEF InterviewInv, SaveTranscript, QuestionPart, ReadyIsDecided, Undecided
    <2> QED
      BY <2>1, <2>2
  <1>5. Asked' = Asked /\ Visible' = Visible
    BY <1>2, <1>4 DEF Asked, Visible
  <1>6. /\ \A v \in Workers : worker'[v].holds = worker[v].holds /\ worker'[v].job = worker[v].job
        /\ \A v \in Workers \ {w} : worker'[v] = worker[v]
        /\ worker'[w].said = said /\ worker'[w].phase # "hear"
        /\ worker'[w].phase = "ask" => said \in Answers
    BY <1>4, ContinueEffect DEF InterviewInv
  <1>7. SessionPart'
    BY <1>2, <1>4, <1>5
       DEF InterviewInv, SessionPart, NotStarted, LinkedLate, LinkedIsAnswered, Unlinked, Answered,
           Visible
  <1>8. OneHolder' /\ HeldIsActive'
    BY <1>4, <1>6, SameHolders
  <1>9. JobHasItsTurn'
    BY <1>4, <1>5 DEF InterviewInv, JobPart, JobHasItsTurn, Active, Visible
  <1>10. ReadyIsDecided'
    BY <1>4 DEF InterviewInv, QuestionPart, ReadyIsDecided, Undecided
  <1>11. SourceIsReady' /\ AdaptiveFollowsAnswer'
    BY <1>1, <1>4, <1>5
       DEF InterviewInv, QuestionPart, SourceIsReady, AdaptiveFollowsAnswer, Visible
  <1>12. HearingIsFirst'
    BY <1>4, <1>5, <1>6 DEF InterviewInv, QuestionPart, HearingIsFirst, Leased
  <1>13. AskingIsCurrent'
    <2> SUFFICES ASSUME NEW v \in Workers, Leased(v)', worker'[v].phase = "ask"
                 PROVE  \E k \in 1..MaxTurns :
                          /\ worker'[v].job = TurnJob(k)
                          /\ turns'[k].status = "ready" /\ turns'[k].text = worker'[v].said
                          /\ worker'[v].said \in Answers
      BY DEF AskingIsCurrent
    <2>1. CASE v = w
      BY <1>1, <1>4, <1>6, <2>1
    <2>2. CASE v # w
      <3>1. Leased(v) /\ worker'[v] = worker[v]
        BY <1>4, <1>6, <2>2 DEF Leased
      <3>2. PICK k \in 1..MaxTurns :
              /\ worker[v].job = TurnJob(k)
              /\ turns[k].status = "ready" /\ turns[k].text = worker[v].said
              /\ worker[v].said \in Answers
        BY <3>1 DEF InterviewInv, QuestionPart, AskingIsCurrent
      <3>3. k # i /\ k \in DOMAIN turns
        BY <1>3, <2>2, <3>1, <3>2
           DEF InterviewInv, JobPart, JobHasItsTurn, Leased, Active, Visible
      <3> QED
        BY <1>4, <3>1, <3>2, <3>3
    <2> QED
      BY <2>1, <2>2
  <1> QED
    BY <1>7, <1>8, <1>9, <1>10, <1>11, <1>12, <1>13 DEF Parts, JobPart, QuestionPart

LEMMA ReturnErrorKeeps ==
  ASSUME InterviewInv, InterviewTypeOK', NEW w \in Workers, UNCHANGED reserve, ReturnError(w)
  PROVE  Parts'
PROOF
  <1>1. SessionPart'
    BY TurnsType DEF InterviewInv, InterviewTypeOK, SessionRow, SessionPart, NotStarted,
       LinkedLate, LinkedIsAnswered, Unlinked, Answered, Visible, Last, ReturnError, FailedTurns,
       Resting
  <1>2. JobPart'
    BY JobKinds, TurnsType DEF InterviewInv, InterviewTypeOK, JobRow, Consumer, JobPart,
       OneHolder, HeldIsActive, JobHasItsTurn, Active, NewJob, Leased, Visible, SessionPart,
       NotStarted, Last, ReturnError, FailedTurns, Resting
  <1>3. QuestionPart'
    BY JobKinds, TurnsType DEF InterviewInv, InterviewTypeOK, JobRow, Consumer, QuestionPart,
       ReadyIsDecided, SourceIsReady, AdaptiveFollowsAnswer, HearingIsFirst, AskingIsCurrent,
       Undecided, Asked, Visible, Leased, Active, NewJob, JobPart, JobHasItsTurn, SessionPart,
       NotStarted, Last, ReturnError, FailedTurns, Resting
  <1> QED
    BY <1>1, <1>2, <1>3 DEF Parts

LEMMA ReportJobKeeps ==
  ASSUME InterviewInv, InterviewTypeOK', NEW w \in Workers, ReportJob(w)
  PROVE  Parts'
PROOF
  <1>1. SessionPart'
    BY TurnsType DEF InterviewInv, InterviewTypeOK, SessionRow, SessionPart, NotStarted,
       LinkedLate, LinkedIsAnswered, Unlinked, Answered, Visible, Last, ReportJob, Resting
  <1>2. JobPart'
    BY JobKinds, TurnsType DEF InterviewInv, InterviewTypeOK, JobRow, Consumer, JobPart,
       OneHolder, HeldIsActive, JobHasItsTurn, Active, NewJob, Leased, Visible, SessionPart,
       NotStarted, Last, ReportJob, Resting
  <1>3. QuestionPart'
    BY JobKinds, TurnsType DEF InterviewInv, InterviewTypeOK, JobRow, Consumer, QuestionPart,
       ReadyIsDecided, SourceIsReady, AdaptiveFollowsAnswer, HearingIsFirst, AskingIsCurrent,
       Undecided, Asked, Visible, Leased, Active, NewJob, JobPart, JobHasItsTurn, SessionPart,
       NotStarted, Last, ReportJob, Resting
  <1> QED
    BY <1>1, <1>2, <1>3 DEF Parts

LEMMA LoseLeaseKeeps ==
  ASSUME InterviewInv, InterviewTypeOK', NEW w \in Workers, LoseLease(w)
  PROVE  Parts'
PROOF
  <1>1. SessionPart'
    BY TurnsType DEF InterviewInv, InterviewTypeOK, SessionRow, SessionPart, NotStarted,
       LinkedLate, LinkedIsAnswered, Unlinked, Answered, Visible, Last, LoseLease, Fault
  <1>2. JobPart'
    BY JobKinds, TurnsType DEF InterviewInv, InterviewTypeOK, JobRow, Consumer, JobPart,
       OneHolder, HeldIsActive, JobHasItsTurn, Active, NewJob, Leased, Visible, SessionPart,
       NotStarted, Last, LoseLease, Fault
  <1>3. QuestionPart'
    BY JobKinds, TurnsType DEF InterviewInv, InterviewTypeOK, JobRow, Consumer, QuestionPart,
       ReadyIsDecided, SourceIsReady, AdaptiveFollowsAnswer, HearingIsFirst, AskingIsCurrent,
       Undecided, Asked, Visible, Leased, Active, NewJob, JobPart, JobHasItsTurn, SessionPart,
       NotStarted, Last, LoseLease, Fault
  <1> QED
    BY <1>1, <1>2, <1>3 DEF Parts

LEMMA StopJobKeeps ==
  ASSUME InterviewInv, InterviewTypeOK', NEW w \in Workers, StopJob(w)
  PROVE  Parts'
PROOF
  <1>1. SessionPart'
    BY TurnsType DEF InterviewInv, InterviewTypeOK, SessionRow, SessionPart, NotStarted,
       LinkedLate, LinkedIsAnswered, Unlinked, Answered, Visible, Last, StopJob, Resting
  <1>2. JobPart'
    BY JobKinds, TurnsType DEF InterviewInv, InterviewTypeOK, JobRow, Consumer, JobPart,
       OneHolder, HeldIsActive, JobHasItsTurn, Active, NewJob, Leased, Visible, SessionPart,
       NotStarted, Last, StopJob, Resting
  <1>3. QuestionPart'
    BY JobKinds, TurnsType DEF InterviewInv, InterviewTypeOK, JobRow, Consumer, QuestionPart,
       ReadyIsDecided, SourceIsReady, AdaptiveFollowsAnswer, HearingIsFirst, AskingIsCurrent,
       Undecided, Asked, Visible, Leased, Active, NewJob, JobPart, JobHasItsTurn, SessionPart,
       NotStarted, Last, StopJob, Resting
  <1> QED
    BY <1>1, <1>2, <1>3 DEF Parts

LEMMA HandleKeeps ==
  ASSUME InterviewInv, InterviewTypeOK', NEW w \in Workers, HandleJob(w)
  PROVE  Parts'
PROOF
  <1>0. Leased(w) \/ ~Leased(w)
    OBVIOUS
  <1>1. CASE LoadWork(w)
    BY <1>1, LoadWorkKeeps
  <1>2. CASE SavePreparation(w)
    <2>1. CASE Leased(w)
      BY <1>2, <2>1, SavePreparationKeeps
    <2>2. CASE ~Leased(w)
      BY <1>2, <2>2, ReturnErrorKeeps DEF SavePreparation
    <2> QED
      BY <2>1, <2>2
  <1>3. CASE \E text \in Heard \cup {Silence} : SaveTranscript(w, text)
    <2> PICK text \in Heard \cup {Silence} : SaveTranscript(w, text)
      BY <1>3
    <2>1. CASE ReturnError(w)
      BY <2>1, ReturnErrorKeeps DEF SaveTranscript
    <2>2. CASE ~ReturnError(w)
      <3>1. Leased(w)
        BY <2>2 DEF SaveTranscript
      <3> QED
        BY <2>2, <3>1, SaveTranscriptKeeps
    <2> QED
      BY <2>1, <2>2
  <1>4. CASE SaveAdaptive(w)
    <2>1. CASE Leased(w)
      BY <1>4, <2>1, SaveAdaptiveKeeps
    <2>2. CASE ~Leased(w)
      BY <1>4, <2>2, ReturnErrorKeeps DEF SaveAdaptive
    <2> QED
      BY <2>1, <2>2
  <1>5. CASE SaveRefill(w)
    <2>1. CASE Leased(w)
      BY <1>5, <2>1, SaveRefillKeeps
    <2>2. CASE ~Leased(w)
      BY <1>5, <2>2, ReturnErrorKeeps DEF SaveRefill
    <2> QED
      BY <2>1, <2>2
  <1>6. CASE ReportJob(w)
    BY <1>6, ReportJobKeeps
  <1> QED
    BY <1>1, <1>2, <1>3, <1>4, <1>5, <1>6 DEF HandleJob

LEMMA WorkerKeeps ==
  ASSUME InterviewInv, InterviewTypeOK', WorkerNext
  PROVE  Parts'
PROOF
  <1> PICK w \in Workers :
        \/ \E j \in Jobs : ClaimJob(w, j)
        \/ HandleJob(w) \/ FailJob(w) \/ LoseLease(w) \/ StopJob(w)
    BY DEF WorkerNext
  <1>1. CASE \E j \in Jobs : ClaimJob(w, j)
    BY <1>1, ClaimJobKeeps
  <1>2. CASE HandleJob(w)
    BY <1>2, HandleKeeps
  <1>3. CASE FailJob(w)
    BY <1>3, ReturnErrorKeeps DEF FailJob
  <1>4. CASE LoseLease(w)
    BY <1>4, LoseLeaseKeeps
  <1>5. CASE StopJob(w)
    BY <1>5, StopJobKeeps
  <1> QED
    BY <1>1, <1>2, <1>3, <1>4, <1>5

LEMMA ClientKeeps ==
  ASSUME InterviewInv, InterviewTypeOK', ClientNext
  PROVE  Parts'
PROOF
  <1>1. CASE \E skip \in BOOLEAN : Advance(skip)
    BY <1>1, AdvanceKeeps
  <1>2. CASE \E i \in 1..MaxTurns :
               AttachAudio(i) \/ (\E text \in Spoken : SaveTurnTranscript(i, text))
    BY <1>2, AttachAudioKeeps, SaveTurnTranscriptKeeps
  <1> QED
    BY <1>1, <1>2, CreateSessionKeeps, FailExpiredKeeps, StartKeeps, SkipTurnKeeps,
       EnsureRefillKeeps, CancelKeeps, LinkRecordingKeeps, FinalizeKeeps DEF ClientNext

LEMMA ExpireKeeps ==
  ASSUME InterviewInv, InterviewTypeOK', ExpireSessions
  PROVE  Parts'
PROOF
  <1>1. CASE DropSession
    BY <1>1, DropSessionKeeps
  <1>2. CASE /\ ~Unlinked /\ session' = [session EXCEPT !.status = "finalized"]
             /\ UNCHANGED <<turns, reserve, job, worker>>
    <2>1. SessionPart'
      BY <1>2 DEF InterviewInv, InterviewTypeOK, SessionRow, SessionPart, NotStarted, LinkedLate,
                  LinkedIsAnswered, Unlinked, Answered, Visible
    <2>2. JobPart' /\ QuestionPart'
      BY <1>2, SessionOnly
    <2> QED
      BY <2>1, <2>2 DEF Parts
  <1> QED
    BY <1>1, <1>2 DEF ExpireSessions

LEMMA UnchangedKeeps ==
  ASSUME InterviewInv, UNCHANGED interviewVars
  PROVE  InterviewInv'
PROOF
  BY DEF interviewVars, InterviewInv, InterviewTypeOK, SessionPart, NotStarted, LinkedLate,
         LinkedIsAnswered, Unlinked, Answered, Visible, JobPart, OneHolder, HeldIsActive,
         JobHasItsTurn, Active, QuestionPart, ReadyIsDecided, Undecided, SourceIsReady,
         AdaptiveFollowsAnswer, HearingIsFirst, AskingIsCurrent, Leased, Asked

LEMMA InterviewInductive ==
  ASSUME InterviewInv, [InterviewNext]_interviewVars
  PROVE  InterviewInv'
PROOF
  <1>1. InterviewTypeOK'
    BY TypeStep DEF InterviewInv, QuestionPart
  <1>2. CASE InterviewNext
    BY <1>1, <1>2, ClientKeeps, SessionExpiresKeeps, ExpireKeeps, WorkerKeeps
       DEF InterviewNext, InterviewInv, Parts
  <1>3. CASE UNCHANGED interviewVars
    BY <1>3, UnchangedKeeps
  <1> QED
    BY <1>2, <1>3

LEMMA InitInv ==
  ASSUME InterviewInit
  PROVE  InterviewInv
PROOF
  <1>1. session \in SessionRow
    BY DEF InterviewInit, SessionRow
  <1>2. turns \in Seq(TurnRow) /\ Len(turns) = 0
    BY DEF InterviewInit
  <1>3. job \in [Jobs -> JobRow]
    BY InterviewAssumption DEF InterviewInit, JobRow
  <1>4. worker \in [Workers -> Consumer] /\ \A w \in Workers : worker[w] = Resting
    BY RestingType DEF InterviewInit
  <1>5. InterviewTypeOK
    BY <1>1, <1>2, <1>3, <1>4, InterviewAssumption, PreparedIsQuestion
       DEF InterviewInit, InterviewTypeOK
  <1>6. SessionPart
    BY DEF InterviewInit, SessionPart, NotStarted, LinkedLate, LinkedIsAnswered, Unlinked
  <1>7. JobPart
    BY <1>4, JobKinds
       DEF InterviewInit, JobPart, OneHolder, HeldIsActive, JobHasItsTurn, Active, Resting
  <1>8. QuestionPart
    BY <1>4 DEF InterviewInit, QuestionPart, ReadyIsDecided, SourceIsReady, AdaptiveFollowsAnswer,
                HearingIsFirst, AskingIsCurrent, Leased, Asked, Resting
  <1> QED
    BY <1>5, <1>6, <1>7, <1>8 DEF InterviewInv

-----------------------------------------------------------------------------
\* The rows have their types in every reachable state, and every part of the
\* inductive invariant holds with them.
THEOREM InterviewIsInvariant == InterviewSpec => []InterviewInv
PROOF
  <1>1. InterviewInit => InterviewInv
    BY InitInv
  <1>2. InterviewInv /\ [InterviewNext]_interviewVars => InterviewInv'
    BY InterviewInductive
  <1> QED
    BY <1>1, <1>2, PTL DEF InterviewSpec

\* Whatever the order in which realtime and batch transcripts, retries and lost
\* leases arrive, a question that follows an answer follows the transcript that
\* its turn keeps (SaveTurnTranscript, SaveTranscript, SaveAdaptive).
THEOREM AdaptiveAlwaysFollows == InterviewSpec => []AdaptiveFollowsAnswer
PROOF
  <1>1. InterviewInv => AdaptiveFollowsAnswer
    BY DEF InterviewInv, QuestionPart
  <1> QED
    BY <1>1, InterviewIsInvariant, PTL

\* After LinkInterview no audio, no transcript and no failed job takes an answer
\* from the timeline a recording was made of.
THEOREM LinkedStaysAnswered == InterviewSpec => []LinkedIsAnswered
PROOF
  <1>1. InterviewInv => LinkedIsAnswered
    BY DEF InterviewInv, SessionPart
  <1> QED
    BY <1>1, InterviewIsInvariant, PTL
=============================================================================
