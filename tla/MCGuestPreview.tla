--------------------------- MODULE MCGuestPreview ---------------------------
(***************************************************************************)
(* An initial state offers one of five histories, each of which the        *)
(* program reaches.  A second consumer takes part where it can matter: of  *)
(* interview.process when nobody else touches the interview, of            *)
(* guest.preview when there is no interview.                               *)
(***************************************************************************)
EXTENDS GuestPreview, TLC

CONSTANTS w1, w2, p1, p2

Untouched ==
  /\ preview = NoPreview /\ clip = "ready"
  /\ worker = [w \in Workers |-> Resting]
  /\ previewer = [p \in Previewers |-> Waiting]

Recording(owner) ==
  session = [status |-> "recording", owner |-> owner, link |-> "none", expired |-> FALSE]

\* The preparation is over, and the jobs of js.
After(js, waiting) ==
  job = [j \in Jobs |->
    IF j \in js \cup {Prepare} THEN [state |-> "over", tries |-> 1]
    ELSE IF j \in waiting THEN NewJob ELSE [state |-> "none", tries |-> 0]]

Uploaded == [NewTurn(Prepared) EXCEPT !.ended = TRUE, !.audio = TRUE, !.status = "queued"]
Spoke    == [NewTurn(Prepared) EXCEPT !.audio = TRUE, !.status = "ready",
               !.origin = "turn_realtime", !.text = CHOOSE t \in Spoken : TRUE]

\* An account interviews from the start, and nothing fails.
Interviewing ==
  /\ session = [status |-> "none", owner |-> "account", link |-> "none", expired |-> FALSE]
  /\ turns = <<>> /\ reserve = {}
  /\ job = [j \in Jobs |-> [state |-> "none", tries |-> 0]]
  /\ Untouched /\ login = SignedOut
  /\ faults = MaxFaults

\* The first answer was uploaded and no question is left: for an account, or
\* for a guest who has gone on to sign in.
Uploading ==
  /\ \/ Recording("account") /\ login = SignedOut
     \/ Recording("guest") /\ login = [SignedOut EXCEPT !.merged = TRUE]
  /\ turns = <<Uploaded, NewTurn(Prepared)>> /\ reserve = {}
  /\ After({}, {TurnJob(1)})
  /\ Untouched /\ faults = 0

\* A guest has answered the second question, and answered or skipped the first.
Interviewed ==
  /\ Recording("guest") /\ login = SignedOut
  /\ \/ /\ turns = <<[Spoke EXCEPT !.ended = TRUE], Spoke>>
        /\ reserve = {[seq |-> 2, said |-> turns[2].text]}
        /\ After({TurnJob(1), TurnJob(2)}, {})
     \/ /\ turns = <<[NewTurn(Prepared) EXCEPT !.ended = TRUE, !.skipped = TRUE], Spoke>>
        /\ reserve = {Prepared}
        /\ After({Refill(2), TurnJob(2)}, {})
  /\ Untouched /\ faults = 0

\* A guest gave a talk; an earlier interview has been swept.
Talked ==
  /\ session = [status |-> "gone", owner |-> "guest", link |-> "none", expired |-> TRUE]
  /\ turns = <<>> /\ reserve = {}
  /\ After({}, {}) /\ login = SignedOut
  /\ Untouched /\ faults = 0

Bound ==
  /\ GuestMayCall => \A w \in Workers \ {w1} : worker'[w] = Resting
  /\ turns # <<>> => \A p \in Previewers \ {p1} : previewer'[p] = Waiting

MCInit == Interviewing \/ Uploading \/ Interviewed \/ Talked
MCSpec == MCInit /\ [][GuestNext /\ Bound]_guestVars
MCFairSpec == MCSpec /\ GuestFairness
=============================================================================
