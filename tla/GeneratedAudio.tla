--------------------------- MODULE GeneratedAudio ---------------------------
(***************************************************************************)
(* Audio that a worker generates and keeps as a private asset: the spoken  *)
(* feedback of a recording (recording/feedback_audio.go and its            *)
(* repository) over media.GeneratedStore (media/generated_assets.go) and   *)
(* Put of the stores.  The object key is derived from the row of the       *)
(* feedback, so every attempt writes the same key and the same asset id.   *)
(* Question audio of an interview follows the same protocol.               *)
(*                                                                         *)
(* Abstractions.  One learner's phrase is one asset of Phrases.  The bytes *)
(* are the worker that synthesized them: speech is never the same twice.   *)
(***************************************************************************)
EXTENDS MediaAssets

CONSTANTS
  Phrases,  \* assets of spoken feedback
  MaxTries  \* max_attempts of a recording.feedback_audio job

ASSUME GeneratedAssumption ==
  /\ Phrases \subseteq Assets
  /\ MaxTries \in Nat \ {0}

VARIABLES
  audio,  \* the row of recording_feedback_audio of each phrase
  voice   \* what each consumer of recording.feedback_audio is doing

voiceVars == <<audio, voice>>
allVoiceVars == <<mediaVars, voiceVars>>

\* job: the job named by job_id; lease: a consumer holds it.  A new job is a
\* new name: whoever worked for the old one has lost it.
AudioRow == [status : {"none", "processing", "ready", "failed", "gone"},
             job : {"none", "waiting", "running"}, tries : 0..MaxTries]

NoJob(status) == [status |-> status, job |-> "none", tries |-> 0]

Silent  == [phase |-> "idle", on |-> None, holds |-> FALSE, found |-> None]
Speaker == [phase : {"find", "write", "put", "send", "describe", "verify", "undo",
                     "register", "complete"},
            on : Phrases, holds : BOOLEAN, found : Makers \cup {None}]

VoiceTypeOK ==
  /\ audio \in [Phrases -> AudioRow]
  /\ voice \in [Makers -> Speaker \cup {Silent}]

VoiceInit ==
  /\ audio \in [Phrases -> {NoJob("none"), NoJob("gone")}]
  /\ voice = [w \in Makers |-> Silent]

\* Nobody holds the job of p any more.
Dropped(p) ==
  [w \in Makers |-> IF voice[w].on = p THEN [voice[w] EXCEPT !.holds = FALSE] ELSE voice[w]]

Turn(w, p) == voice' = [voice EXCEPT ![w].phase = p]
Rest(w)    == voice' = [voice EXCEPT ![w] = Silent]

\* The object of p is known to hold bytes b.
Found(w, b) == voice' = [voice EXCEPT ![w].phase = "register", ![w].found = b]

-----------------------------------------------------------------------------
\* The user, and the recording.

\* POST: the first request, or a retry of what failed, starts a new job.
ScheduleAudio(p) ==
  /\ audio[p].status \in {"none", "failed"}
  /\ audio' = [audio EXCEPT ![p] =
                 [status |-> "processing", job |-> "waiting", tries |-> 0]]
  /\ voice' = Dropped(p)
  /\ UNCHANGED mediaVars

\* The recording is deleted or analyzed anew: the job is cancelled, the asset
\* the row refers to is retired, the row goes and its key is never used again.
RemoveAudio(p) ==
  /\ audio[p].status # "gone"
  /\ audio' = [audio EXCEPT ![p] = NoJob("gone")]
  /\ voice' = Dropped(p)
  /\ asset' = IF audio[p].status = "ready" /\ asset[p].state = "ready"
                THEN [asset EXCEPT ![p].attached = FALSE, ![p].due = TRUE]
                ELSE asset
  /\ UNCHANGED <<driver, file, meta, del, eraser, swept, faults>>

-----------------------------------------------------------------------------
\* The handler.

\* Mutant of Deliverable: the attempts are not counted.
DeliverableAgain(p) == audio[p].job = "waiting"

Deliverable(p) == audio[p].job = "waiting" /\ audio[p].tries < MaxTries

\* LoadAudioWork finds the row by the job's id, or the job has nothing to do.
ClaimAudio(w, p) ==
  /\ voice[w] = Silent
  /\ Deliverable(p)
  /\ audio' = [audio EXCEPT ![p].job = "running", ![p].tries = @ + 1]
  /\ voice' = [Dropped(p) EXCEPT ![w] =
       [phase |-> "find", on |-> p, holds |-> TRUE, found |-> None]]
  /\ UNCHANGED mediaVars

\* Find looks in the store first.
FindObject(w) ==
  LET p == voice[w].on
  IN /\ voice[w].phase = "find"
     /\ IF Stat(p)
          THEN Found(w, file[p])
          ELSE Turn(w, "write")
     /\ UNCHANGED <<mediaVars, audio>>

\* Mutant of Reservable: any row without an owner may be written again.
ReservableAlways(p) == asset[p].state \in {"absent", "failed", "ready"} /\ ~asset[p].attached

Reservable(p) == asset[p].state = "absent" \/ (asset[p].state = "failed" /\ ~asset[p].attached)

\* The handler returned an error: if it holds the job, that is tried again, or
\* its attempts are spent and FinalizeAudioFailure runs with it.
ReturnError(w) ==
  LET p == voice[w].on
  IN /\ Rest(w)
     /\ audio' = IF ~voice[w].holds THEN audio
                 ELSE IF audio[p].tries = MaxTries THEN [audio EXCEPT ![p] = NoJob("failed")]
                 ELSE [audio EXCEPT ![p].job = "waiting"]

\* Mutant of ReserveGenerated's row: none is written before the upload.
ReservedNothing(p, w) == asset

\* A row in state failed; the retention of a row that was there is not moved.
Reserved(p, w) ==
  IF asset[p].state = "absent" THEN [asset EXCEPT ![p] = NewAsset("failed", w)]
                               ELSE [asset EXCEPT ![p].sum = w]

\* Write, after the speech was synthesized: the row comes before the object.
ReserveGenerated(w) ==
  LET p == voice[w].on
  IN /\ voice[w].phase = "write"
     /\ IF Reservable(p)
          THEN asset' = Reserved(p, w) /\ Turn(w, "put") /\ UNCHANGED audio
          ELSE ReturnError(w) /\ UNCHANGED asset
     /\ UNCHANGED <<driver, file, meta, del, eraser, swept, faults>>

\* Put accepts what is there if it is the same and refuses another object.
StatBeforePut(w) ==
  LET p == voice[w].on
  IN /\ voice[w].phase = "put"
     /\ \/ Stat(p) /\ file[p] = w /\ Found(w, w) /\ UNCHANGED audio
        \/ Stat(p) /\ file[p] # w /\ ReturnError(w)
        \/ ~Stat(p) /\ Turn(w, "send") /\ UNCHANGED audio
     /\ UNCHANGED mediaVars

\* LocalStore.Put links the bytes to the key unless something is there ...
LinkObject(w) ==
  LET p == voice[w].on
  IN /\ voice[w].phase = "send" /\ driver = "local"
     /\ \/ /\ file[p] = None
           /\ file' = [file EXCEPT ![p] = w]
           /\ Turn(w, "describe")
           /\ UNCHANGED audio
        \/ file[p] # None /\ Stat(p) /\ file[p] = w /\ Found(w, w) /\ UNCHANGED <<file, audio>>
        \/ file[p] # None /\ ~(Stat(p) /\ file[p] = w) /\ ReturnError(w) /\ UNCHANGED file
     /\ UNCHANGED <<driver, asset, meta, del, eraser, swept, faults>>

\* ... and writes its metadata, or takes the object back.
DescribeGenerated(w) ==
  LET p == voice[w].on
  IN /\ voice[w].phase = "describe"
     /\ \/ meta' = [meta EXCEPT ![p] = w] /\ Found(w, w)
           /\ UNCHANGED <<file, audio, faults>>
        \/ Fault /\ file' = [file EXCEPT ![p] = None] /\ ReturnError(w) /\ UNCHANGED meta
     /\ UNCHANGED <<driver, asset, del, eraser, swept>>

\* S3Store.Put sends the bytes without a condition ...
SendObject(w) ==
  LET p == voice[w].on
  IN /\ voice[w].phase = "send" /\ driver = "s3"
     /\ file' = [file EXCEPT ![p] = w]
     /\ meta' = [meta EXCEPT ![p] = w]
     /\ Turn(w, "verify")
     /\ UNCHANGED <<driver, asset, del, eraser, swept, faults, audio>>

\* ... looks at what is there now ...
VerifyObject(w) ==
  LET p == voice[w].on
  IN /\ voice[w].phase = "verify"
     /\ \/ file[p] = w /\ Found(w, w) /\ UNCHANGED audio
        \/ file[p] = None /\ ReturnError(w)
        \/ file[p] \notin {w, None} /\ Turn(w, "undo") /\ UNCHANGED audio
     /\ UNCHANGED mediaVars

\* ... and removes it if it is not what was sent.
UndoObject(w) ==
  LET p == voice[w].on
  IN /\ voice[w].phase = "undo"
     /\ file' = [file EXCEPT ![p] = None]
     /\ meta' = [meta EXCEPT ![p] = None]
     /\ ReturnError(w)
     /\ UNCHANGED <<driver, asset, del, eraser, swept, faults>>

Registrable(p, b) ==
  \/ asset[p].state \in {"absent", "failed"}
  \/ asset[p].state = "ready" /\ asset[p].sum = b

\* The row describes the object that was found or put.
RegisterGenerated(w) ==
  LET p == voice[w].on
      b == voice[w].found
  IN /\ voice[w].phase = "register"
     /\ IF Registrable(p, b)
          THEN /\ asset' = IF asset[p].state = "absent"
                             THEN [asset EXCEPT ![p] = NewAsset("ready", b)]
                             ELSE [asset EXCEPT ![p].state = "ready", ![p].sum = b]
               /\ Turn(w, "complete")
               /\ UNCHANGED audio
          ELSE ReturnError(w) /\ UNCHANGED asset
     /\ UNCHANGED <<driver, file, meta, del, eraser, swept, faults>>

\* The lease, the job and the status of the row.
Publishable(w) == voice[w].holds /\ audio[voice[w].on].status = "processing"

\* One transaction attaches the asset and publishes it; the report follows.
CompleteAudio(w) ==
  LET p == voice[w].on
  IN /\ voice[w].phase = "complete"
     /\ IF Publishable(w) /\ asset[p].state = "ready"
          THEN /\ asset' = [asset EXCEPT ![p].attached = TRUE, ![p].due = FALSE]
               /\ audio' = [audio EXCEPT ![p] = NoJob("ready")]
               /\ Rest(w)
          ELSE ReturnError(w) /\ UNCHANGED asset
     /\ UNCHANGED <<driver, file, meta, del, eraser, swept, faults>>

\* The lease of a worker runs out.
LoseAudio(w) ==
  /\ Fault
  /\ voice[w].holds
  /\ voice' = [voice EXCEPT ![w].holds = FALSE]
  /\ audio' = [audio EXCEPT ![voice[w].on].job = "waiting"]
  /\ UNCHANGED <<driver, asset, file, meta, del, eraser, swept>>

\* A worker that lost its job notices, or has died.
StopSpeaking(w) ==
  /\ voice[w] # Silent /\ ~voice[w].holds
  /\ Rest(w)
  /\ UNCHANGED <<mediaVars, audio>>

\* The provider, the store or the database fails under the handler.
FailAudio(w) ==
  /\ Fault
  /\ voice[w] # Silent
  /\ ReturnError(w)
  /\ UNCHANGED <<driver, asset, file, meta, del, eraser, swept>>

SpeakStep(w) ==
  \/ FindObject(w) \/ ReserveGenerated(w) \/ StatBeforePut(w)
  \/ LinkObject(w) \/ DescribeGenerated(w)
  \/ SendObject(w) \/ VerifyObject(w) \/ UndoObject(w)
  \/ RegisterGenerated(w) \/ CompleteAudio(w)

VoiceNext ==
  \/ \E p \in Phrases :
       \/ ScheduleAudio(p) \/ RemoveAudio(p)
       \/ RetentionEnds(p) /\ UNCHANGED voiceVars
       \/ \E w \in Makers : ClaimAudio(w, p)
  \/ \E w \in Makers : SpeakStep(w) \/ LoseAudio(w) \/ StopSpeaking(w) \/ FailAudio(w)

VoiceFairness ==
  /\ \A p \in Phrases :
       /\ WF_mediaVars(RetentionEnds(p))
       /\ SF_allVoiceVars(\E w \in Makers : ClaimAudio(w, p))
  /\ \A w \in Makers : WF_allVoiceVars(SpeakStep(w)) /\ WF_allVoiceVars(StopSpeaking(w))

-----------------------------------------------------------------------------
(* The inductive invariant *)

\* A phrase that was never swept: the row comes before the object, and on a local
\* store what is ready, or shown as ready, is there to be played.
PhraseAgrees(p) ==
  /\ asset[p].state \in {"absent", "failed", "ready"}
  /\ file[p] # None => asset[p].state # "absent"
  /\ driver = "local" =>
       /\ meta[p] # None => meta[p] = file[p]
       /\ asset[p].state = "ready" => Stat(p) /\ file[p] = asset[p].sum
       /\ audio[p].status = "ready" => asset[p].state = "ready" /\ asset[p].attached

\* What a worker has done for it: nobody else's object is in its place.
VoiceAgrees(w) ==
  LET p == voice[w].on
  IN /\ voice[w].phase \notin {"idle", "find", "write"} => asset[p].state # "absent"
     /\ driver = "local" =>
          /\ voice[w].phase \notin {"verify", "undo"}
          /\ voice[w].phase = "describe" => file[p] = w /\ meta[p] = None
          /\ voice[w].phase = "register" => Stat(p) /\ voice[w].found = file[p]

VoiceInv ==
  /\ \A p \in Phrases : file[p] \in Makers \cup {None}
  /\ \A p \in Phrases \ swept : PhraseAgrees(p)
  /\ \A w \in Makers : voice[w].on \notin swept => VoiceAgrees(w)
=============================================================================
