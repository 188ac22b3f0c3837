---------------------------- MODULE ShadowingProofs ----------------------------
(***************************************************************************)
(* Theorems of the pronunciation audio of a recording, for every set of    *)
(* jobs, consumers, object keys and versions of the text.                  *)
(***************************************************************************)
EXTENDS Shadowing, WorkQueueProofs

-----------------------------------------------------------------------------
(* The steps of the queue *)

Ended == {"failed", "cancelled"}

\* No job ends in failure, or is cancelled.
NothingEnds == \A j \in Jobs : row'[j].state \in Ended => row[j].state \in Ended

\* Whoever is busy after the step was busy before with the same job.
DeliveriesKept ==
  \A w \in Workers : Busy(w)' => Busy(w) /\ claim'[w].job = claim[w].job

LEMMA QueueStep ==
  ASSUME QueueTypeOK, Next, \A w \in Workers : Busy(w)' => Busy(w)
  PROVE  QueueTypeOK' /\ DeliveriesKept
  <1>1. ~Claims
    BY NobodyStarts
  <1>2. QED
    BY <1>1, NextType, DeliveryKept DEF DeliveriesKept

LEMMA HandlerStays ==
  ASSUME NEW w \in Workers, HandlerAgrees(w), DeliveriesKept,
         UNCHANGED <<rec, asset, store>>, work'[w] = work[w]
  PROVE  HandlerAgrees(w)'
  BY DEF HandlerAgrees, DeliveriesKept, Exists

\* What follows from the tables of the recording alone.
LEMMA TablesStay ==
  ASSUME ShadowingInv, UNCHANGED <<rec, asset, store>>, NothingEnds
  PROVE  /\ ColumnsAgree' /\ AttachedIsReferenced' /\ AudioSpeaksText'
         /\ FailureIsPublished'
  <1>1. ColumnsAgree' /\ AttachedIsReferenced' /\ AudioSpeaksText'
    BY DEF ShadowingInv, ColumnsAgree, AttachedIsReferenced, AudioSpeaksText, Exists
  <1>2. Exists /\ rec.status = "processing" => rec.attempt \in Jobs
    BY DEF ShadowingInv, ColumnsAgree, TypeOK, Exists, Recording
  <1>3. FailureIsPublished'
    BY <1>2 DEF ShadowingInv, FailureIsPublished, NothingEnds, Ended, Exists
  <1>4. QED
    BY <1>1, <1>3

LEMMA QuietKeeps ==
  ASSUME ShadowingInv, UNCHANGED <<rec, asset, store, work>>,
         QueueTypeOK', DeliveriesKept, NothingEnds
  PROVE  ShadowingInv'
  <1>1. TypeOK' /\ KeysDiffer'
    BY DEF ShadowingInv, TypeOK, KeysDiffer
  <1>2. \A w \in Workers : HandlerAgrees(w)'
    BY HandlerStays DEF ShadowingInv
  <1>3. QED
    BY <1>1, <1>2, TablesStay DEF ShadowingInv

LEMMA ConsumerQuiet ==
  ASSUME ShadowingInv, NEW w \in Workers, UNCHANGED <<rec, asset, store, work>>,
         \/ Heartbeat(w) \/ CancelContext(w) \/ Complete(w)
         \/ Fail(w) /\ ~(Fenced(w) /\ IsLastAttempt(w))
  PROVE  ShadowingInv'
  <1>0. /\ QueueTypeOK /\ row \in [Jobs -> Row]
        /\ claim \in [Workers -> Claimed \cup {Idle}]
    BY DEF ShadowingInv, TypeOK, QueueTypeOK
  <1>1. Next /\ Busy(w) /\ claim[w] \in Claimed /\ claim[w].job \in Jobs
    <2>1. Busy(w)
      BY DEF Busy, Heartbeat, CancelContext, Complete, Fail
    <2>2. QED
      BY <1>0, <2>1, BusyType DEF Next, Consume, Claimed
  <1>2. \A v \in Workers : Busy(v)' => Busy(v)
    BY <1>0, <1>1 DEF Busy, Heartbeat, CancelContext, Complete, Fail
  <1>3. QueueTypeOK' /\ DeliveriesKept
    BY <1>0, <1>1, <1>2, QueueStep
  <1>4. NothingEnds
    <2>1. CASE Heartbeat(w) \/ CancelContext(w)
      BY <1>0, <2>1 DEF Heartbeat, CancelContext, NothingEnds, Row
    <2>2. CASE Complete(w)
      <3>1. Released(row[claim[w].job], "succeeded").state = "succeeded"
        BY <1>0, <1>1, RowColumns DEF Terminal
      <3>2. QED
        BY <1>0, <2>2, <3>1 DEF Complete, NothingEnds, Ended
    <2>3. CASE Fail(w) /\ ~(Fenced(w) /\ IsLastAttempt(w))
      <3>1. ~IsLastAttempt(w) => FailedRow(w, row[claim[w].job]).state = "retry_wait"
        <4>1. row[claim[w].job] \in Row
          BY <1>0, <1>1
        <4>2. QED
          BY <4>1 DEF FailedRow, Released, Row
      <3>2. QED
        BY <1>0, <2>3, <3>1 DEF Fail, NothingEnds, Ended
    <2>4. QED
      BY <2>1, <2>2, <2>3
  <1>5. QED
    BY <1>3, <1>4, QuietKeeps

LEMMA MaintenanceKeeps ==
  ASSUME ShadowingInv, NEW j \in Jobs, Maintenance(j)
  PROVE  ShadowingInv'
  <1>0. QueueTypeOK /\ row \in [Jobs -> Row] /\ row[j] \in Row
    BY DEF ShadowingInv, TypeOK, QueueTypeOK
  <1>1. Next /\ UNCHANGED <<claim, rec, asset, store, work>>
    BY DEF Next, Elsewhere, Maintenance, QueueOnly, PruneTerminal, LeaseExpires,
           BackoffElapses
  <1>2. QueueOnly(PruneTerminal(j)) => NothingEnds
    BY <1>0 DEF NothingEnds, QueueOnly, PruneTerminal, Absent, Ended
  <1>3. QueueOnly(LeaseExpires(j)) => NothingEnds
    BY <1>0 DEF NothingEnds, QueueOnly, LeaseExpires, Row
  <1>4. QueueOnly(BackoffElapses(j)) => NothingEnds
    BY <1>0 DEF NothingEnds, QueueOnly, BackoffElapses, Row
  <1>5. NothingEnds
    BY <1>2, <1>3, <1>4 DEF Maintenance
  <1>6. QueueTypeOK' /\ DeliveriesKept
    BY <1>0, <1>1, QueueStep DEF Busy
  <1>7. QED
    BY <1>1, <1>5, <1>6, QuietKeeps

\* The last failure of a job: the recording that waited for it is told.
LEMMA LastFailureKeeps ==
  ASSUME ShadowingInv, NEW w \in Workers, FailJob(w), Fenced(w), IsLastAttempt(w)
  PROVE  ShadowingInv'
  <1>0. /\ QueueTypeOK /\ row \in [Jobs -> Row] /\ TypeOK
        /\ claim \in [Workers -> Claimed \cup {Idle}]
        /\ ColumnsAgree /\ AttachedIsReferenced /\ AudioSpeaksText /\ FailureIsPublished
        /\ \A v \in Workers : HandlerAgrees(v)
    BY DEF ShadowingInv, TypeOK, QueueTypeOK
  <1>1. Busy(w) /\ claim[w].job \in Jobs /\ UNCHANGED <<asset, store, work>>
    BY <1>0, BusyType DEF FailJob, Fail, Busy, Claimed
  <1>2. Next /\ \A v \in Workers : Busy(v)' => Busy(v)
    BY <1>0 DEF FailJob, Fail, Next, Consume, Busy, Idle
  <1>3. QueueTypeOK' /\ DeliveriesKept
    BY <1>0, <1>2, QueueStep
  <1>4. \A j \in Jobs \ {claim[w].job} : row'[j] = row[j]
    BY <1>0, <1>1 DEF FailJob, Fail
  <1>5. rec' = FinalizedFailure(w)
    BY DEF FailJob
  <1>6. CASE Exists /\ rec.status = "processing" /\ rec.attempt = claim[w].job
    <2>1. rec \in Recording /\ rec' = [rec EXCEPT !.status = "failed", !.attempt = NoJob]
      BY <1>0, <1>5, <1>6 DEF TypeOK, Exists, FinalizedFailure
    <2>2. /\ rec' \in Recording /\ rec'.status = "failed" /\ rec'.attempt = NoJob
          /\ rec'.text = rec.text /\ rec'.object = rec.object
      BY <2>1 DEF Recording
    <2>3. Exists'
      BY <2>2 DEF Exists, NoRecording
    <2>4. /\ ColumnsAgree' /\ AttachedIsReferenced' /\ AudioSpeaksText'
          /\ FailureIsPublished'
      BY <1>0, <1>1, <1>6, <2>2, <2>3
         DEF ColumnsAgree, AttachedIsReferenced, AudioSpeaksText, FailureIsPublished
    <2>5. NoJob \notin Jobs
      BY ShadowingAssumption
    <2>6. ASSUME NEW v \in Workers
          PROVE  HandlerAgrees(v)'
      <3>1. Busy(v)' => claim'[v].job \in Jobs
        BY <1>3, BusyType DEF QueueTypeOK, Busy, Claimed, Idle
      <3>2. HandlerAgrees(v)
        BY <1>0
      <3>3. QED
        BY <1>1, <2>2, <2>5, <3>1, <3>2 DEF HandlerAgrees
    <2>7. TypeOK' /\ KeysDiffer'
      BY <1>1, <1>3, <2>2 DEF ShadowingInv, TypeOK, KeysDiffer
    <2>8. QED
      BY <2>4, <2>6, <2>7 DEF ShadowingInv
  <1>7. CASE ~(Exists /\ rec.status = "processing" /\ rec.attempt = claim[w].job)
    <2>1. rec' = rec
      BY <1>5, <1>7 DEF FinalizedFailure
    <2>2. Exists /\ rec.status = "processing" => rec.attempt \in Jobs
      BY <1>0 DEF ColumnsAgree, TypeOK, Exists, Recording
    <2>3. FailureIsPublished'
      BY <1>0, <1>4, <1>7, <2>1, <2>2 DEF FailureIsPublished, Exists
    <2>4. ColumnsAgree' /\ AttachedIsReferenced' /\ AudioSpeaksText'
      BY <1>0, <1>1, <2>1 DEF ColumnsAgree, AttachedIsReferenced, AudioSpeaksText, Exists
    <2>5. \A v \in Workers : HandlerAgrees(v)'
      BY <1>0, <1>1, <1>3, <2>1, HandlerStays
    <2>6. TypeOK' /\ KeysDiffer'
      BY <1>1, <1>3, <2>1 DEF ShadowingInv, TypeOK, KeysDiffer
    <2>7. QED
      BY <2>3, <2>4, <2>5, <2>6 DEF ShadowingInv
  <1>8. QED
    BY <1>6, <1>7

-----------------------------------------------------------------------------
(* The steps of the handler *)

LEMMA GotoMoves ==
  ASSUME TypeOK, NEW w \in Workers,
         NEW pc \in {"idle", "load", "put", "complete", "discard", "return"},
         NEW outcome \in {"ok", "err"}, Goto(w, pc, outcome)
  PROVE  /\ work' \in [Workers -> Work]
         /\ work'[w].pc = pc
         /\ work'[w].text = work[w].text
         /\ work'[w].object = work[w].object
         /\ \A v \in Workers \ {w} : work'[v] = work[v]
  <1>1. work \in [Workers -> Work] /\ work[w] \in Work
    BY DEF TypeOK
  <1>2. work' = [work EXCEPT ![w] = [work[w] EXCEPT !.pc = pc, !.outcome = outcome]]
    BY <1>1 DEF Goto, Work
  <1>3. /\ [work[w] EXCEPT !.pc = pc, !.outcome = outcome] \in Work
        /\ [work[w] EXCEPT !.pc = pc, !.outcome = outcome].pc = pc
        /\ [work[w] EXCEPT !.pc = pc, !.outcome = outcome].text = work[w].text
        /\ [work[w] EXCEPT !.pc = pc, !.outcome = outcome].object = work[w].object
    BY <1>1 DEF Work
  <1>4. QED
    BY <1>1, <1>2, <1>3

\* The handler of w moves on, and neither the tables nor the store change.
LEMMA ReadKeeps ==
  ASSUME ShadowingInv, NEW w \in Workers, UNCHANGED <<rec, asset, store>>,
         QueueTypeOK', NothingEnds, HandlerAgrees(w)',
         work' \in [Workers -> Work],
         work'[w].object \in {work[w].object, NoObject},
         \A v \in Workers \ {w} : work'[v] = work[v] /\ (HandlerAgrees(v) => HandlerAgrees(v)')
  PROVE  ShadowingInv'
  <1>1. TypeOK'
    BY DEF ShadowingInv, TypeOK
  <1>2. KeysDiffer'
    BY DEF ShadowingInv, KeysDiffer
  <1>3. \A v \in Workers : HandlerAgrees(v)'
    BY DEF ShadowingInv
  <1>4. QED
    BY <1>1, <1>2, <1>3, TablesStay DEF ShadowingInv

LEMMA StartJobKeeps ==
  ASSUME ShadowingInv, NEW w \in Workers, NEW d \in Jobs, StartJob(w, d)
  PROVE  ShadowingInv'
  <1>0. QueueTypeOK /\ TypeOK
    BY DEF ShadowingInv, TypeOK
  <1>1. QueueTypeOK'
    BY <1>0, NextType DEF StartJob, Next, Consume
  <1>2. PICK t \in Fresh(d) :
          /\ row'[d] = Taken(d, t)
          /\ \A k \in Jobs \ {d} : row'[k] = row[k]
          /\ \A v \in Workers \ {w} : SameClaim(v)
    BY <1>0, ClaimEffect DEF StartJob
  <1>3. NothingEnds
    BY <1>2 DEF NothingEnds, Ended, Taken
  <1>4. /\ work' \in [Workers -> Work] /\ work'[w].pc = "load"
        /\ work'[w].object = work[w].object
        /\ \A v \in Workers \ {w} : work'[v] = work[v]
    <2>1. work \in [Workers -> Work] /\ work[w] \in Work
      BY <1>0 DEF TypeOK
    <2>2. work' = [work EXCEPT ![w] = [work[w] EXCEPT !.pc = "load"]]
      BY <2>1 DEF StartJob
    <2>3. [work[w] EXCEPT !.pc = "load"] \in Work
      BY <2>1 DEF Work
    <2>4. QED
      BY <2>1, <2>2, <2>3 DEF Work
  <1>5. UNCHANGED <<rec, asset, store>>
    BY DEF StartJob
  <1>6. HandlerAgrees(w)'
    BY <1>4 DEF HandlerAgrees
  <1>7. \A v \in Workers \ {w} : HandlerAgrees(v) => HandlerAgrees(v)'
    BY <1>2, <1>4, <1>5 DEF HandlerAgrees, SameClaim, Busy, Exists
  <1>8. QED
    BY <1>1, <1>3, <1>4, <1>5, <1>6, <1>7, ReadKeeps

LEMMA LoadWorkKeeps ==
  ASSUME ShadowingInv, NEW w \in Workers, LoadWork(w)
  PROVE  ShadowingInv'
  <1>0. QueueTypeOK /\ TypeOK
    BY DEF ShadowingInv, TypeOK
  <1>1. UNCHANGED <<row, claim, rec, asset, store>>
    BY DEF LoadWork
  <1>2. QueueTypeOK' /\ NothingEnds
    BY <1>0, <1>1 DEF QueueTypeOK, NothingEnds
  <1>3. /\ work' \in [Workers -> Work] /\ work'[w].object = work[w].object
        /\ \A v \in Workers \ {w} : work'[v] = work[v]
        /\ \/ work'[w].pc = "return"
           \/ work'[w].pc = "put" /\ work'[w].text = rec.text
    <2>1. CASE Current(w)
      <3>1. work \in [Workers -> Work] /\ work[w] \in Work
        BY <1>0 DEF TypeOK
      <3>2. rec.text \in Texts \cup {NoText}
        BY <1>0, <2>1 DEF Current, TypeOK, Exists, Recording
      <3>3. work' = [work EXCEPT ![w] = [work[w] EXCEPT !.pc = "put", !.text = rec.text]]
        BY <2>1, <3>1 DEF LoadWork, Work
      <3>4. [work[w] EXCEPT !.pc = "put", !.text = rec.text] \in Work
        BY <3>1, <3>2 DEF Work
      <3>5. QED
        BY <3>1, <3>3, <3>4 DEF Work
    <2>2. CASE ~Current(w)
      BY <1>0, <2>2, GotoMoves DEF LoadWork
    <2>3. QED
      BY <2>1, <2>2
  <1>4. HandlerAgrees(w)'
    BY <1>1, <1>3 DEF HandlerAgrees
  <1>5. \A v \in Workers \ {w} : HandlerAgrees(v) => HandlerAgrees(v)'
    BY <1>1, <1>3 DEF HandlerAgrees, Busy, Exists
  <1>6. QED
    BY <1>1, <1>2, <1>3, <1>4, <1>5, ReadKeeps

LEMMA CompleteFailsKeeps ==
  ASSUME ShadowingInv, NEW w \in Workers, CompleteFails(w)
  PROVE  ShadowingInv'
  <1>0. QueueTypeOK /\ TypeOK
    BY DEF ShadowingInv, TypeOK
  <1>1. UNCHANGED <<row, claim, rec, asset, store>>
    BY DEF CompleteFails
  <1>2. QueueTypeOK' /\ NothingEnds
    BY <1>0, <1>1 DEF QueueTypeOK, NothingEnds
  <1>3. /\ work' \in [Workers -> Work] /\ work'[w].object = work[w].object
        /\ work'[w].pc = "discard"
        /\ \A v \in Workers \ {w} : work'[v] = work[v]
    BY <1>0, GotoMoves DEF CompleteFails
  <1>4. HandlerAgrees(w)'
    BY <1>3 DEF HandlerAgrees
  <1>5. \A v \in Workers \ {w} : HandlerAgrees(v) => HandlerAgrees(v)'
    BY <1>1, <1>3 DEF HandlerAgrees, Busy, Exists
  <1>6. QED
    BY <1>1, <1>2, <1>3, <1>4, <1>5, ReadKeeps

LEMMA ReturnKeeps ==
  ASSUME ShadowingInv, NEW w \in Workers, NEW outcome \in {"ok", "err"},
         ReturnFrom(w, outcome)
  PROVE  ShadowingInv'
  <1>0. /\ QueueTypeOK /\ TypeOK
        /\ claim \in [Workers -> Claimed \cup {Idle}]
    BY DEF ShadowingInv, TypeOK, QueueTypeOK
  <1>1. Next /\ UNCHANGED <<row, rec, asset, store>>
    BY DEF ReturnFrom, Next, Consume, HandlerReturns
  <1>2. \A v \in Workers : Busy(v)' => Busy(v)
    BY <1>0 DEF ReturnFrom, HandlerReturns, Busy
  <1>3. QueueTypeOK' /\ DeliveriesKept /\ NothingEnds
    BY <1>0, <1>1, <1>2, QueueStep DEF NothingEnds
  <1>4. /\ work' \in [Workers -> Work] /\ work'[w] = NoWork
        /\ \A v \in Workers \ {w} : work'[v] = work[v]
    BY <1>0 DEF ReturnFrom, TypeOK, NoWork, Work
  <1>5. work'[w].object = NoObject /\ HandlerAgrees(w)'
    BY <1>4 DEF NoWork, HandlerAgrees
  <1>6. \A v \in Workers \ {w} : HandlerAgrees(v) => HandlerAgrees(v)'
    BY <1>1, <1>3, <1>4, HandlerStays
  <1>7. QED
    BY <1>1, <1>3, <1>4, <1>5, <1>6, ReadKeeps

LEMMA LoseJobKeeps ==
  ASSUME ShadowingInv, NEW w \in Workers, LoseJob(w)
  PROVE  ShadowingInv'
  <1>0. /\ QueueTypeOK /\ TypeOK
        /\ claim \in [Workers -> Claimed \cup {Idle}]
    BY DEF ShadowingInv, TypeOK, QueueTypeOK
  <1>1. Next /\ UNCHANGED <<row, rec, asset, store>>
    BY DEF LoseJob, Next, Consume, Vanish
  <1>2. \A v \in Workers : Busy(v)' => Busy(v)
    BY <1>0 DEF LoseJob, Vanish, Busy, Idle
  <1>3. QueueTypeOK' /\ DeliveriesKept /\ NothingEnds
    BY <1>0, <1>1, <1>2, QueueStep DEF NothingEnds
  <1>4. /\ work' \in [Workers -> Work] /\ work'[w] = NoWork
        /\ \A v \in Workers \ {w} : work'[v] = work[v]
    BY <1>0 DEF LoseJob, TypeOK, NoWork, Work
  <1>5. work'[w].object = NoObject /\ HandlerAgrees(w)'
    BY <1>4 DEF NoWork, HandlerAgrees
  <1>6. \A v \in Workers \ {w} : HandlerAgrees(v) => HandlerAgrees(v)'
    BY <1>1, <1>3, <1>4, HandlerStays
  <1>7. QED
    BY <1>1, <1>3, <1>4, <1>5, <1>6, ReadKeeps

\* An object that is stored under a key nobody knows, or removed by the handler that
\* stored it, is not the one another handler is to attach.
LEMMA StoreMoves ==
  ASSUME ShadowingInv, NEW w \in Workers, NEW o \in Objects, NEW x \in Texts \cup {NoText},
         store' = [store EXCEPT ![o] = x], UNCHANGED <<row, claim, rec, asset>>,
         \A v \in Workers \ {w} : work[v].object # o /\ work'[v] = work[v],
         Exists /\ rec.object = o => x = NoText
  PROVE  /\ QueueTypeOK' /\ store' \in [Objects -> Texts \cup {NoText}]
         /\ ColumnsAgree' /\ AttachedIsReferenced' /\ AudioSpeaksText'
         /\ FailureIsPublished'
         /\ \A v \in Workers \ {w} : HandlerAgrees(v)'
  <1>1. QueueTypeOK' /\ store \in [Objects -> Texts \cup {NoText}]
    BY DEF ShadowingInv, TypeOK, QueueTypeOK
  <1>2. ColumnsAgree' /\ AttachedIsReferenced' /\ FailureIsPublished'
    BY DEF ShadowingInv, ColumnsAgree, AttachedIsReferenced, FailureIsPublished, Exists
  <1>3. AudioSpeaksText'
    <2>1. Exists /\ rec.status = "ready" => rec.object \in Objects
      BY DEF ShadowingInv, ColumnsAgree, TypeOK, Exists, Recording
    <2>2. QED
      BY <1>1, <2>1 DEF ShadowingInv, AudioSpeaksText, Exists
  <1>4. ASSUME NEW v \in Workers \ {w}
        PROVE  HandlerAgrees(v)'
    <2>1. HandlerAgrees(v) /\ work[v].object \in Objects \cup {NoObject}
      BY DEF ShadowingInv, TypeOK, Work
    <2>2. QED
      BY <1>1, <2>1 DEF HandlerAgrees, Busy, Exists
  <1>5. QED
    BY <1>1, <1>2, <1>3, <1>4

LEMMA PutKeeps ==
  ASSUME ShadowingInv, NEW w \in Workers, Put(w)
  PROVE  ShadowingInv'
  <1>0. TypeOK /\ KeysDiffer /\ HandlerAgrees(w) /\ AttachedIsReferenced
    BY DEF ShadowingInv
  <1>1. PICK o \in Objects :
          /\ NewKey(o)
          /\ store' = [store EXCEPT ![o] = work[w].text]
          /\ \/ work' = [work EXCEPT ![w].pc = "complete", ![w].object = o]
             \/ Goto(w, "return", "err")
    BY DEF Put
  <1>2. /\ UNCHANGED <<row, claim, rec, asset>> /\ work[w].pc = "put" /\ Busy(w)
        /\ work \in [Workers -> Work] /\ work[w] \in Work
        /\ NoObject \notin Objects
    BY <1>0, ShadowingAssumption DEF Put, At, Busy, TypeOK
  <1>3. /\ work' \in [Workers -> Work]
        /\ \A v \in Workers \ {w} : work'[v] = work[v]
        /\ \/ /\ work'[w].pc = "complete" /\ work'[w].object = o
              /\ work'[w].text = work[w].text
           \/ work'[w].pc = "return" /\ work'[w].object = work[w].object
    <2>1. CASE work' = [work EXCEPT ![w].pc = "complete", ![w].object = o]
      <3>1. work' = [work EXCEPT ![w] = [work[w] EXCEPT !.pc = "complete", !.object = o]]
        BY <1>2, <2>1 DEF Work
      <3>2. [work[w] EXCEPT !.pc = "complete", !.object = o] \in Work
        BY <1>2 DEF Work
      <3>3. QED
        BY <1>2, <3>1, <3>2 DEF Work
    <2>2. CASE Goto(w, "return", "err")
      BY <1>0, <2>2, GotoMoves
    <2>3. QED
      BY <1>1, <2>1, <2>2
  <1>4. \A v \in Workers : work[v].object # o
    BY <1>1 DEF NewKey
  <1>5. asset[o] = "none" /\ ~(Exists /\ rec.object = o)
    BY <1>0, <1>1 DEF NewKey, AttachedIsReferenced
  <1>6. /\ QueueTypeOK' /\ store' \in [Objects -> Texts \cup {NoText}]
        /\ ColumnsAgree' /\ AttachedIsReferenced' /\ AudioSpeaksText'
        /\ FailureIsPublished'
        /\ \A v \in Workers \ {w} : HandlerAgrees(v)'
    <2>1. work[w].text \in Texts \cup {NoText}
      BY <1>2 DEF Work
    <2>2. QED
      BY <1>1, <1>2, <1>3, <1>4, <1>5, <2>1, StoreMoves, ZenonT(40)
  <1>7. HandlerAgrees(w)'
    <2>1. store'[o] = work[w].text
      BY <1>0, <1>1 DEF TypeOK
    <2>2. QED
      BY <1>0, <1>2, <1>3, <1>5, <2>1 DEF HandlerAgrees, Busy, Exists
  <1>8. KeysDiffer'
    BY <1>0, <1>3, <1>4 DEF KeysDiffer
  <1>9. TypeOK'
    BY <1>0, <1>2, <1>3, <1>6 DEF TypeOK
  <1>10. QED
    BY <1>6, <1>7, <1>8, <1>9 DEF ShadowingInv

LEMMA DiscardKeeps ==
  ASSUME ShadowingInv, NEW w \in Workers, Discard(w)
  PROVE  ShadowingInv'
  <1>0. TypeOK /\ QueueTypeOK /\ KeysDiffer /\ work[w] \in Work
    BY DEF ShadowingInv, TypeOK
  <1>1. UNCHANGED <<row, claim, rec, asset>>
    BY DEF Discard
  <1>2. /\ work' \in [Workers -> Work] /\ work'[w].pc = "return"
        /\ work'[w].object = work[w].object
        /\ \A v \in Workers \ {w} : work'[v] = work[v]
    <2>1. work[w].outcome \in {"ok", "err"}
      BY <1>0 DEF Work
    <2>2. QED
      BY <1>0, <2>1, GotoMoves DEF Discard
  <1>3. HandlerAgrees(w)'
    BY <1>2 DEF HandlerAgrees
  <1>4. CASE store' = store
    <2>1. QueueTypeOK' /\ NothingEnds
      BY <1>0, <1>1 DEF QueueTypeOK, NothingEnds
    <2>2. \A v \in Workers \ {w} : HandlerAgrees(v) => HandlerAgrees(v)'
      BY <1>1, <1>2, <1>4 DEF HandlerAgrees, Busy, Exists
    <2>3. QED
      BY <1>1, <1>2, <1>3, <1>4, <2>1, <2>2, ReadKeeps
  <1>5. CASE store' = [store EXCEPT ![work[w].object] = NoText] /\ store' # store
    <2>1. work[w].object \in Objects
      BY <1>0, <1>5 DEF TypeOK, Work
    <2>2. NoObject \notin Objects
      BY ShadowingAssumption
    <2>3. \A v \in Workers \ {w} : work[v].object # work[w].object
      BY <1>0, <2>1, <2>2 DEF KeysDiffer
    <2>4. /\ QueueTypeOK' /\ store' \in [Objects -> Texts \cup {NoText}]
          /\ ColumnsAgree' /\ AttachedIsReferenced' /\ AudioSpeaksText'
          /\ FailureIsPublished'
          /\ \A v \in Workers \ {w} : HandlerAgrees(v)'
      BY <1>1, <1>2, <1>5, <2>1, <2>3, StoreMoves
    <2>5. KeysDiffer'
      BY <1>0, <1>2 DEF KeysDiffer
    <2>6. TypeOK'
      BY <1>0, <1>1, <1>2, <2>4 DEF TypeOK
    <2>7. QED
      BY <1>3, <2>4, <2>5, <2>6 DEF ShadowingInv
  <1>6. QED
    BY <1>4, <1>5 DEF Discard

LEMMA AttachedAssets ==
  ASSUME TypeOK, NEW o \in Objects, NEW x \in Objects
  PROVE  /\ Attached(o)[x] \in {"none", "ready", "retired", "deleting"}
         /\ Attached(o)[o] = "ready"
         /\ x # o /\ x # rec.object => Attached(o)[x] = asset[x]
         /\ x # o /\ x = rec.object => Attached(o)[x] # "ready"
  BY DEF Attached, TypeOK

LEMMA CompleteWorkKeeps ==
  ASSUME ShadowingInv, NEW w \in Workers, CompleteWork(w)
  PROVE  ShadowingInv'
  <1>0. /\ TypeOK /\ QueueTypeOK /\ KeysDiffer /\ work[w] \in Work
        /\ AttachedIsReferenced /\ FailureIsPublished
        /\ \A v \in Workers : HandlerAgrees(v)
    BY DEF ShadowingInv, TypeOK
  <1>1. /\ UNCHANGED <<row, claim, store>> /\ work[w].pc = "complete" /\ Busy(w)
    BY DEF CompleteWork, At, Busy
  <1>2. /\ work' \in [Workers -> Work] /\ work'[w].pc \in {"return", "discard"}
        /\ work'[w].object = work[w].object
        /\ \A v \in Workers \ {w} : work'[v] = work[v]
    BY <1>0, GotoMoves DEF CompleteWork
  <1>3. HandlerAgrees(w)' /\ KeysDiffer'
    BY <1>0, <1>2 DEF HandlerAgrees, KeysDiffer
  <1>4. QueueTypeOK' /\ NothingEnds
    BY <1>0, <1>1 DEF QueueTypeOK, NothingEnds
  <1>5. CASE ~Current(w)
    <2>1. UNCHANGED <<rec, asset>>
      BY <1>5 DEF CompleteWork
    <2>2. \A v \in Workers \ {w} : HandlerAgrees(v) => HandlerAgrees(v)'
      BY <1>1, <1>2, <2>1 DEF HandlerAgrees, Busy, Exists
    <2>3. QED
      BY <1>1, <1>2, <1>3, <1>4, <2>1, <2>2, ReadKeeps
  <1>6. CASE Current(w)
    <2> DEFINE o == work[w].object
    <2>1. /\ o \in Objects /\ asset[o] = "none" /\ store[o] = rec.text
          /\ Exists /\ rec \in Recording
      BY <1>0, <1>1, <1>6 DEF HandlerAgrees, Current, Work, TypeOK, Exists
    <2>2. /\ rec' = [rec EXCEPT !.status = "ready", !.object = o,
                                !.script = FALSE, !.attempt = NoJob]
          /\ asset' = Attached(o)
      BY <1>6 DEF CompleteWork
    <2> HIDE DEF o
    <2>3. /\ rec' \in Recording /\ rec'.status = "ready" /\ rec'.object = o
          /\ rec'.text = rec.text /\ rec'.attempt = NoJob
      BY <2>1, <2>2 DEF Recording
    <2>4. Exists' /\ NoObject \notin Objects /\ NoJob \notin Jobs
      BY <2>3, ShadowingAssumption DEF Exists, NoRecording
    <2>5. asset' \in [Objects -> {"none", "ready", "retired", "deleting"}]
      <3>1. \A x \in Objects : Attached(o)[x] \in {"none", "ready", "retired", "deleting"}
        BY <1>0, <2>1, AttachedAssets
      <3>2. QED
        BY <2>2, <3>1 DEF Attached
    <2>6. AttachedIsReferenced'
      <3>1. ASSUME NEW x \in Objects
            PROVE  asset'[x] = "ready" <=> x = o
        <4>1. x # rec.object => asset[x] # "ready"
          BY <1>0 DEF AttachedIsReferenced
        <4>2. QED
          BY <1>0, <2>1, <2>2, <4>1, AttachedAssets
      <3>2. QED
        BY <2>3, <2>4, <3>1 DEF AttachedIsReferenced
    <2>7. ColumnsAgree' /\ AudioSpeaksText' /\ FailureIsPublished'
      BY <1>1, <2>1, <2>3, <2>4 DEF ColumnsAgree, AudioSpeaksText, FailureIsPublished
    <2>8. ASSUME NEW v \in Workers \ {w}
          PROVE  HandlerAgrees(v)'
      <3>1. Busy(v) => claim[v].job \in Jobs
        BY <1>0, BusyType DEF Claimed
      <3>2. /\ Busy(v)' <=> Busy(v)
            /\ claim'[v].job = claim[v].job
        BY <1>1 DEF Busy
      <3>3. work[v].pc = "complete" => asset'[work[v].object] = "none"
        <4>1. SUFFICES ASSUME work[v].pc = "complete"
                       PROVE  asset'[work[v].object] = "none"
          OBVIOUS
        <4>2. /\ work[v].object # NoObject /\ asset[work[v].object] = "none"
              /\ work[v].object \in Objects
          BY <1>0, <4>1 DEF HandlerAgrees, TypeOK, Work
        <4>3. work[v].object # o
          BY <1>0, <4>2 DEF KeysDiffer, o
        <4>4. work[v].object # rec.object
          BY <1>0, <2>1, <4>2 DEF AttachedIsReferenced
        <4>5. QED
          BY <1>0, <2>1, <2>2, <4>2, <4>3, <4>4, AttachedAssets
      <3>4. HandlerAgrees(v)
        BY <1>0
      <3>5. QED
        BY <1>1, <1>2, <2>3, <2>4, <3>1, <3>2, <3>3, <3>4 DEF HandlerAgrees
    <2>9. TypeOK'
      BY <1>0, <1>1, <1>2, <1>4, <2>3, <2>5 DEF TypeOK
    <2>10. QED
      BY <1>3, <2>6, <2>7, <2>8, <2>9 DEF ShadowingInv
  <1>7. QED
    BY <1>5, <1>6

-----------------------------------------------------------------------------
(* The steps around the handler *)

\* A synthesis starts under a job nobody has heard of.
LEMMA StartKeeps ==
  ASSUME ShadowingInv, NEW d \in Jobs, NewJob(d), Enqueue(d),
         UNCHANGED <<asset, store, work>>, Exists, rec' \in Recording,
         rec'.status = "processing", rec'.attempt = d, rec'.object = rec.object
  PROVE  ShadowingInv'
  <1>0. /\ TypeOK /\ QueueTypeOK /\ row \in [Jobs -> Row] /\ AttachedIsReferenced
        /\ \A v \in Workers : HandlerAgrees(v)
    BY DEF ShadowingInv, TypeOK, QueueTypeOK
  <1>1. Exists' /\ NoJob \notin Jobs
    BY ShadowingAssumption DEF Exists, NoRecording, Recording
  <1>2. row'[d].state = "queued"
    BY <1>0 DEF Enqueue, Enqueued, NewJob, Absent
  <1>3. ColumnsAgree' /\ AttachedIsReferenced' /\ AudioSpeaksText' /\ FailureIsPublished'
    BY <1>0, <1>1, <1>2
       DEF ColumnsAgree, AttachedIsReferenced, AudioSpeaksText, FailureIsPublished
  <1>4. ASSUME NEW v \in Workers
        PROVE  HandlerAgrees(v)'
    <2>1. claim' = claim /\ (Busy(v) => claim[v].job # d)
      BY DEF Enqueue, NewJob
    <2>2. HandlerAgrees(v)
      BY <1>0
    <2>3. QED
      BY <2>1, <2>2 DEF HandlerAgrees, Busy
  <1>5. QueueTypeOK'
    BY <1>0, ElsewhereType DEF Elsewhere
  <1>6. TypeOK' /\ KeysDiffer'
    BY <1>5 DEF ShadowingInv, TypeOK, KeysDiffer
  <1>7. QED
    BY <1>3, <1>4, <1>6 DEF ShadowingInv

LEMMA PublishKeeps ==
  ASSUME ShadowingInv, NEW d \in Jobs, NEW t \in Texts, Publish(d, t) 
  PROVE  ShadowingInv'
  <1>1. Exists /\ rec \in Recording
    BY DEF ShadowingInv, TypeOK, Exists, Publish
  <1>2. /\ rec' \in Recording /\ rec'.status = "processing" /\ rec'.attempt = d
        /\ rec'.object = rec.object
    BY <1>1 DEF Publish, Scheduled, Recording
  <1>3. QED
    BY <1>1, <1>2, StartKeeps DEF Publish

LEMMA ScheduleKeeps ==
  ASSUME ShadowingInv, NEW d \in Jobs, Schedule(d)
  PROVE  ShadowingInv'
  <1>1. Exists /\ rec \in Recording
    BY DEF ShadowingInv, TypeOK, Exists, Schedule
  <1>2. /\ rec' \in Recording /\ rec'.status = "processing" /\ rec'.attempt = d
        /\ rec'.object = rec.object
    BY <1>1 DEF Schedule, Scheduled, Recording
  <1>3. QED
    BY <1>1, <1>2, StartKeeps DEF Schedule

LEMMA CancelledType ==
  ASSUME QueueTypeOK, row' = Cancelled, claim' = claim
  PROVE  QueueTypeOK'
  <1>1. \A d \in Jobs : row[d] \in Row /\ Released(row[d], "cancelled") \in Row
    BY ReleasedType DEF QueueTypeOK, Terminal
  <1>2. QED
    BY <1>1 DEF QueueTypeOK, Cancelled

\* The audio is withdrawn with its recording, or with its text: its asset is no longer
\* attached, and no synthesis is under way.
LEMMA WithdrawKeeps ==
  ASSUME ShadowingInv, row' = Cancelled, UNCHANGED <<claim, store, work>>,
         rec' \in Recording \cup {NoRecording},
         Exists' => rec'.object = NoObject /\ rec'.attempt = NoJob /\ rec'.status = "pending",
         asset' \in [Objects -> {"none", "ready", "retired", "deleting"}],
         \A o \in Objects : /\ asset'[o] = "ready" => asset[o] = "ready" /\ o # rec.object
                            /\ asset[o] = "none" /\ o # rec.object => asset'[o] = "none",
         Exists
  PROVE  ShadowingInv'
  <1>0. /\ TypeOK /\ QueueTypeOK /\ AttachedIsReferenced
        /\ \A v \in Workers : HandlerAgrees(v)
    BY DEF ShadowingInv, TypeOK
  <1>1. NoObject \notin Objects /\ NoJob \notin Jobs
    BY ShadowingAssumption
  <1>2. ColumnsAgree' /\ AudioSpeaksText' /\ FailureIsPublished'
    BY DEF ColumnsAgree, AudioSpeaksText, FailureIsPublished
  <1>3. AttachedIsReferenced'
    BY <1>0, <1>1 DEF AttachedIsReferenced
  <1>4. ASSUME NEW v \in Workers
        PROVE  HandlerAgrees(v)'
    <2>1. HandlerAgrees(v) /\ (Busy(v) => claim[v].job \in Jobs)
      BY <1>0, BusyType DEF Claimed
    <2>2. work[v].object \in Objects \cup {NoObject}
      BY <1>0 DEF TypeOK, Work
    <2>3. work[v].pc = "complete" => asset'[work[v].object] = "none"
      BY <1>0, <2>1, <2>2 DEF HandlerAgrees, AttachedIsReferenced
    <2>4. QED
      BY <1>1, <2>1, <2>3 DEF HandlerAgrees, Busy
  <1>5. TypeOK' /\ KeysDiffer'
    BY <1>0, CancelledType DEF ShadowingInv, TypeOK, KeysDiffer
  <1>6. QED
    BY <1>2, <1>3, <1>4, <1>5 DEF ShadowingInv

LEMMA ReanalyzeKeeps ==
  ASSUME ShadowingInv, Reanalyze
  PROVE  ShadowingInv'
  <1>0. Exists /\ rec \in Recording /\ TypeOK /\ AttachedIsReferenced
    BY DEF ShadowingInv, TypeOK, Exists, Reanalyze
  <1>1. /\ rec' \in Recording /\ rec'.object = NoObject /\ rec'.attempt = NoJob
        /\ rec'.status = "pending"
    BY <1>0 DEF Reanalyze, Recording
  <1>2. /\ asset' \in [Objects -> {"none", "ready", "retired", "deleting"}]
        /\ \A o \in Objects : /\ asset'[o] = "ready" => asset[o] = "ready" /\ o # rec.object
                              /\ asset[o] = "none" /\ o # rec.object => asset'[o] = "none"
    BY <1>0 DEF Reanalyze, TypeOK
  <1>3. row' = Cancelled /\ UNCHANGED <<claim, store, work>>
    BY DEF Reanalyze
  <1>4. QED
    BY <1>0, <1>1, <1>2, <1>3, WithdrawKeeps

LEMMA DeleteKeeps ==
  ASSUME ShadowingInv, Delete
  PROVE  ShadowingInv'
  <1>0. Exists /\ TypeOK
    BY DEF ShadowingInv, Delete
  <1>1. rec' \in Recording \cup {NoRecording} /\ ~Exists'
    BY DEF Delete, Exists
  <1>2. /\ asset' \in [Objects -> {"none", "ready", "retired", "deleting"}]
        /\ \A o \in Objects : /\ asset'[o] = "ready" => asset[o] = "ready" /\ o # rec.object
                              /\ asset[o] = "none" /\ o # rec.object => asset'[o] = "none"
    BY <1>0 DEF Delete, TypeOK
  <1>3. row' = Cancelled /\ UNCHANGED <<claim, store, work>>
    BY DEF Delete
  <1>4. QED
    BY <1>0, <1>1, <1>2, <1>3, WithdrawKeeps

\* The sweep and the deletion of an object touch no attached and no new object.
LEMMA SweepKeeps ==
  ASSUME ShadowingInv, NEW o \in Objects, Sweep(o) \/ DeleteObject(o)
  PROVE  ShadowingInv'
  <1>0. /\ TypeOK /\ QueueTypeOK /\ AttachedIsReferenced /\ ColumnsAgree
        /\ AudioSpeaksText
        /\ \A v \in Workers : HandlerAgrees(v)
    BY DEF ShadowingInv, TypeOK
  <1>1. /\ UNCHANGED <<row, claim, rec, work>>
        /\ asset[o] \in {"retired", "deleting"}
        /\ asset' \in [Objects -> {"none", "ready", "retired", "deleting"}]
        /\ asset'[o] # "ready"
        /\ \A x \in Objects \ {o} : asset'[x] = asset[x] /\ store'[x] = store[x]
        /\ store' \in [Objects -> Texts \cup {NoText}]
        /\ store'[o] \in {store[o], NoText}
    BY <1>0 DEF Sweep, DeleteObject, TypeOK
  <1>2. ~(Exists /\ rec.object = o)
    BY <1>0, <1>1 DEF AttachedIsReferenced
  <1>3. ColumnsAgree' /\ FailureIsPublished' /\ AttachedIsReferenced'
    BY <1>0, <1>1, <1>2
       DEF ShadowingInv, ColumnsAgree, FailureIsPublished, AttachedIsReferenced, Exists
  <1>4. AudioSpeaksText'
    <2>1. Exists /\ rec.status = "ready" => rec.object \in Objects
      BY <1>0 DEF ColumnsAgree, TypeOK, Exists, Recording
    <2>2. QED
      BY <1>0, <1>1, <1>2, <2>1 DEF AudioSpeaksText, Exists
  <1>5. ASSUME NEW v \in Workers
        PROVE  HandlerAgrees(v)'
    <2>1. HandlerAgrees(v) /\ work[v].object \in Objects \cup {NoObject}
      BY <1>0 DEF TypeOK, Work
    <2>2. work[v].pc = "complete" => work[v].object \in Objects \ {o}
      BY <1>1, <2>1 DEF HandlerAgrees
    <2>3. QED
      BY <1>1, <2>1, <2>2 DEF HandlerAgrees, Busy, Exists
  <1>6. TypeOK' /\ KeysDiffer'
    BY <1>0, <1>1 DEF ShadowingInv, TypeOK, QueueTypeOK, KeysDiffer
  <1>7. QED
    BY <1>3, <1>4, <1>5, <1>6 DEF ShadowingInv

-----------------------------------------------------------------------------
(* The invariant *)

LEMMA ShadowingInit == Init => ShadowingInv
  <1> SUFFICES ASSUME Init
               PROVE  ShadowingInv
    OBVIOUS
  <1>1. /\ claim = [w \in Workers |-> Idle] /\ work = [w \in Workers |-> NoWork]
        /\ row = [j \in Jobs |-> Absent]
    BY DEF Init, QueueInit
  <1>2. QueueTypeOK /\ work \in [Workers -> Work]
    BY <1>1, InitType DEF Init, NoWork, Work
  <1>3. KeysDiffer /\ \A w \in Workers : HandlerAgrees(w)
    BY <1>1 DEF KeysDiffer, HandlerAgrees, NoWork
  <1>4. NoObject \notin Objects /\ NoText \notin Texts
    BY ShadowingAssumption
  <1>5. CASE /\ rec = [text |-> NoText, status |-> "pending", script |-> FALSE,
                       object |-> NoObject, attempt |-> NoJob]
             /\ asset = [o \in Objects |-> "none"]
             /\ store = [o \in Objects |-> NoText]
    <2>1. TypeOK
      BY <1>2, <1>5 DEF TypeOK, Recording
    <2>2. ColumnsAgree /\ AttachedIsReferenced /\ AudioSpeaksText /\ FailureIsPublished
      BY <1>4, <1>5
         DEF ColumnsAgree, AttachedIsReferenced, AudioSpeaksText, FailureIsPublished
    <2>3. QED
      BY <1>3, <2>1, <2>2 DEF ShadowingInv
  <1>6. ASSUME NEW o \in Objects, NEW t \in Texts, NEW u \in Texts,
               rec = [text |-> t, status |-> "ready", script |-> TRUE,
                      object |-> o, attempt |-> NoJob],
               asset = [x \in Objects |-> IF x = o THEN "ready" ELSE "none"],
               store = [x \in Objects |-> IF x = o THEN u ELSE NoText]
        PROVE  ShadowingInv
    <2>1. TypeOK
      BY <1>2, <1>6 DEF TypeOK, Recording
    <2>2. Exists
      BY <1>6 DEF Exists, NoRecording
    <2>3. ColumnsAgree /\ AttachedIsReferenced /\ AudioSpeaksText /\ FailureIsPublished
      BY <1>4, <1>6, <2>2
         DEF ColumnsAgree, AttachedIsReferenced, AudioSpeaksText, FailureIsPublished
    <2>4. QED
      BY <1>3, <2>1, <2>3 DEF ShadowingInv
  <1>7. QED
    BY <1>5, <1>6 DEF Init

LEMMA ConsumeKeeps ==
  ASSUME ShadowingInv, NEW w \in Workers, ShadowingConsume(w)
  PROVE  ShadowingInv'
  <1>1. CASE Handle(w)
    <2>1. work[w].outcome \in {"ok", "err"}
      BY DEF ShadowingInv, TypeOK, Work
    <2>2. QED
      BY <1>1, <2>1, LoadWorkKeeps, PutKeeps, CompleteWorkKeeps, CompleteFailsKeeps,
         DiscardKeeps, ReturnKeeps DEF Handle, Return, ReturnError
  <1>2. CASE FailJob(w)
    <2>1. CASE Fenced(w) /\ IsLastAttempt(w)
      BY <1>2, <2>1, LastFailureKeeps
    <2>2. CASE ~(Fenced(w) /\ IsLastAttempt(w))
      <3>1. Fail(w) /\ UNCHANGED <<rec, asset, store, work>>
        BY <1>2, <2>2 DEF FailJob
      <3>2. QED
        BY <2>2, <3>1, ConsumerQuiet
    <2>3. QED
      BY <2>1, <2>2
  <1>3. CASE QueueOnly(Heartbeat(w)) \/ QueueOnly(CancelContext(w)) \/ QueueOnly(Complete(w))
    BY <1>3, ConsumerQuiet DEF QueueOnly
  <1>4. QED
    BY <1>1, <1>2, <1>3, StartJobKeeps, LoseJobKeeps DEF ShadowingConsume

LEMMA ShadowingStep == ShadowingInv /\ [ShadowingNext]_vars => ShadowingInv'
  <1> SUFFICES ASSUME ShadowingInv, [ShadowingNext]_vars
               PROVE  ShadowingInv'
    OBVIOUS
  <1>1. CASE Around
    BY <1>1, PublishKeeps, ScheduleKeeps, ReanalyzeKeeps, DeleteKeeps, SweepKeeps DEF Around
  <1>2. CASE UNCHANGED vars
    <2>1. /\ UNCHANGED <<rec, asset, store, work>> /\ QueueTypeOK' /\ DeliveriesKept
          /\ NothingEnds
      BY <1>2 DEF vars, ShadowingInv, TypeOK, QueueTypeOK, DeliveriesKept, NothingEnds, Busy
    <2>2. QED
      BY <2>1, QuietKeeps
  <1>3. QED
    BY <1>1, <1>2, ConsumeKeeps, MaintenanceKeeps DEF ShadowingNext

(* Recording, assets, objects and the memory of the handlers agree, through  *)
(* crashes between Put and Complete, commits reported as errors, withdrawn   *)
(* texts and stale handlers.                                                *)
THEOREM ShadowingIsInvariant == ShadowingSpec => []ShadowingInv
  BY ShadowingInit, ShadowingStep, PTL DEF ShadowingSpec

(* The columns of the recording, the assets, the objects and the handlers    *)
(* keep the values that the tables and the type Work declare.               *)
THEOREM ShadowingTypes == ShadowingSpec => []TypeOK
  <1>1. ShadowingInv => TypeOK
    BY DEF ShadowingInv
  <1>2. QED
    BY <1>1, ShadowingIsInvariant, PTL

(* However late a handler completes, what a user can play is the text that   *)
(* is shown.                                                                *)
THEOREM AudioIsOfTheText == ShadowingSpec => []AudioSpeaksText
  <1>1. ShadowingInv => AudioSpeaksText
    BY DEF ShadowingInv
  <1>2. QED
    BY <1>1, ShadowingIsInvariant, PTL

(* The sweep of unattached assets never takes the audio of a recording, and  *)
(* misses none that has lost its recording.                                 *)
THEOREM AttachmentIsExact == ShadowingSpec => []AttachedIsReferenced
  <1>1. ShadowingInv => AttachedIsReferenced
    BY DEF ShadowingInv
  <1>2. QED
    BY <1>1, ShadowingIsInvariant, PTL

(* A synthesis whose job failed or was cancelled is not shown as running.    *)
THEOREM FailuresAreShown == ShadowingSpec => []FailureIsPublished
  <1>1. ShadowingInv => FailureIsPublished
    BY DEF ShadowingInv
  <1>2. QED
    BY <1>1, ShadowingIsInvariant, PTL

-----------------------------------------------------------------------------
(* The queue below *)

\* Whatever happens to the audio of a recording is an operation of the queue or
\* the withdrawal of its jobs.
LEMMA ShadowingUsesQueue ==
  ASSUME TypeOK, [ShadowingNext]_vars
  PROVE  UserStep
  <1>1. ASSUME NEW w \in Workers, ShadowingConsume(w)
        PROVE  UserStep
    <2>1. CASE Return(w) \/ ReturnError(w)
      <3>1. \E outcome \in {"ok", "err"} : HandlerReturns(w, outcome)
        BY <2>1 DEF Return, ReturnError, ReturnFrom, TypeOK, Work
      <3>2. QED
        BY <3>1 DEF UserStep, Next, Consume
    <2>2. CASE LoadWork(w) \/ Put(w) \/ CompleteWork(w) \/ CompleteFails(w) \/ Discard(w)
      <3>1. UNCHANGED queueVars
        BY <2>2 DEF LoadWork, Put, CompleteWork, CompleteFails, Discard, queueVars
      <3>2. QED
        BY <3>1 DEF UserStep
    <2>3. CASE \/ \E j \in Jobs : StartJob(w, j)
               \/ QueueOnly(Heartbeat(w)) \/ QueueOnly(CancelContext(w))
               \/ QueueOnly(Complete(w)) \/ FailJob(w) \/ LoseJob(w)
      BY <2>3 DEF StartJob, QueueOnly, FailJob, LoseJob, UserStep, Next, Consume
    <2>4. QED
      BY <1>1, <2>1, <2>2, <2>3 DEF ShadowingConsume, Handle
  <1>2. CASE Around
    <2>1. CASE Reanalyze \/ Delete
      <3>1. row' = Cancelled /\ claim' = claim
        BY <2>1 DEF Reanalyze, Delete
      <3>2. QED
        BY <3>1 DEF Cancelled, Transaction, Withdrawn, UserStep
    <2>2. CASE \E o \in Objects : Sweep(o) \/ DeleteObject(o)
      BY <2>2 DEF Sweep, DeleteObject, queueVars, UserStep
    <2>3. CASE \E d \in Jobs : Enqueue(d)
      BY <2>3 DEF UserStep, Next, Elsewhere
    <2>4. QED
      BY <1>2, <2>1, <2>2, <2>3 DEF Around, Publish, Schedule
  <1>3. ASSUME NEW d \in Jobs, Maintenance(d)
        PROVE  UserStep
    BY <1>3 DEF Maintenance, QueueOnly, UserStep, Next, Elsewhere
  <1>4. CASE UNCHANGED vars
    BY <1>4 DEF vars, queueVars, UserStep
  <1>5. QED
    BY <1>1, <1>2, <1>3, <1>4 DEF ShadowingNext

(* The synthesis jobs keep their leases and attempts sound, although a       *)
(* reanalysis or a deletion cancels all of them with the recording's row.    *)
THEOREM ShadowingQueueIsSound == ShadowingSpec => []QueueInv
  <1>1. Init => QueueInv
    BY QueueInvInductive DEF Init
  <1>2. TypeOK /\ QueueInv /\ [ShadowingNext]_vars => QueueInv'
    BY ShadowingUsesQueue, UserKeeps
  <1>3. QED
    BY <1>1, <1>2, ShadowingTypes, PTL DEF ShadowingSpec

(* No synthesis loses an unexpired lease to another consumer.                *)
THEOREM ShadowingLeaseKept == ShadowingSpec => LiveLeaseIsKept
  <1>1. TypeOK /\ QueueInv /\ [ShadowingNext]_vars =>
          [\A j \in Jobs :
             row[j].state = "running" /\ row[j].live /\ row'[j].state = "running"
               => row'[j].token = row[j].token]_queueVars
    BY ShadowingUsesQueue, UserKeeps
  <1>2. QED
    BY <1>1, ShadowingTypes, ShadowingQueueIsSound, PTL DEF ShadowingSpec, LiveLeaseIsKept

(* Only the consumer that has the lease ends or parks a synthesis.           *)
THEOREM ShadowingReportsAreFenced == ShadowingSpec => OnlyHolderReports
  <1>1. TypeOK /\ QueueInv /\ [ShadowingNext]_vars =>
          [\A j \in Jobs :
             /\ row[j].state = "running"
             /\ row'[j].state \in {"succeeded", "failed", "retry_wait"}
             => \E w \in Workers : Holds(w, j) /\ claim'[w] = Idle]_queueVars
    BY ShadowingUsesQueue, UserKeeps
  <1>2. QED
    BY <1>1, ShadowingTypes, ShadowingQueueIsSound, PTL DEF ShadowingSpec, OnlyHolderReports

(* Each synthesis is delivered, settled and forgotten as JobContract says,   *)
(* although the withdrawal of a text takes several at once.                  *)
THEOREM ShadowingKeepsContract == ShadowingSpec => EachJobKeepsContract
  <1>1. TypeOK /\ QueueInv /\ [ShadowingNext]_vars
          => [\A j \in Jobs : ContractMove(j)]_queueVars
    BY ShadowingUsesQueue, UserKeeps
  <1>2. QED
    BY <1>1, ShadowingTypes, ShadowingQueueIsSound, PTL DEF ShadowingSpec, EachJobKeepsContract
=============================================================================
