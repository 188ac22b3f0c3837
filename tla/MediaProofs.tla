---------------------------- MODULE MediaProofs ----------------------------
(***************************************************************************)
(* Proofs about MediaLibrary for any number of uploads, phrases, requests, *)
(* workers, delete jobs and faults: what is attached is stored, an abort   *)
(* wins over every completion, the answers of an interview stay within its *)
(* limit, and generated audio that is shown can be played.                 *)
(***************************************************************************)
EXTENDS MediaLibrary, FiniteSetTheorems, TLAPS

(* What a step leaves alone *)

LEMMA Apart ==
  /\ None \notin Assets /\ None \notin Makers /\ None \notin DeleteJobs
  /\ Uploads \subseteq Assets /\ Phrases \subseteq Assets
  /\ Uploads \cap Phrases = {} /\ Assets \cap Makers = {}
  /\ None \notin Uploads /\ None \notin Phrases /\ None \notin Keys
  BY MediaAssumption, UploadAssumption, GeneratedAssumption, LibraryAssumption
     DEF None

\* A request that works has an upload, a worker a phrase, an eraser a job.
LEMMA Working ==
  /\ UploadTypeOK => \A r \in Requests :
       \/ request[r] = Free
       \/ /\ request[r] \in Request
          /\ request[r].phase \in Phases /\ request[r].on \in Uploads
  /\ VoiceTypeOK => \A w \in Makers :
       \/ voice[w] = Silent
       \/ voice[w].on \in Phrases /\ voice[w] \in Speaker
  /\ MediaTypeOK => \A e \in Erasers :
       \/ eraser[e] = Resting
       \/ Works(e) /\ eraser[e].asset \in Assets /\ eraser[e].job \in DeleteJobs
  BY DEF UploadTypeOK, VoiceTypeOK, MediaTypeOK, Works, Handler, Speaker, Request

\* The part of the tables that belongs to an asset.
SameAsset(a) == asset'[a] = asset[a] /\ file'[a] = file[a] /\ meta'[a] = meta[a]

LEMMA SameUpload ==
  ASSUME NEW u \in Uploads, UploadAgrees(u), SameAsset(u), upload'[u] = upload[u],
         driver' = driver, u \in swept' => u \in swept
  PROVE  UploadAgrees(u)'
  BY DEF UploadAgrees, SameAsset, Wanted, Stored, NoUpload

LEMMA SamePhrase ==
  ASSUME NEW p \in Phrases, PhraseAgrees(p), SameAsset(p),
         audio'[p].status = "ready" => audio[p].status = "ready", driver' = driver
  PROVE  PhraseAgrees(p)'
  BY DEF PhraseAgrees, SameAsset, Stat

LEMMA SameVoice ==
  ASSUME NEW w \in Makers, VoiceAgrees(w), SameAsset(voice[w].on), voice'[w] = voice[w],
         driver' = driver
  PROVE  VoiceAgrees(w)'
  BY DEF VoiceAgrees, SameAsset, Stat

\* The answers that are being uploaded or can be used.
Counted == {u \in TurnUploads : asset[u].state \in {"uploading", "ready"}}

LEMMA CountedIsFinite ==
  ASSUME UploadInv
  PROVE  /\ IsFiniteSet(TurnUploads) /\ IsFiniteSet(Counted)
         /\ Cardinality(TurnUploads) \in Nat /\ Cardinality(Counted) \in Nat
         /\ Cardinality(Counted) <= Cardinality(TurnUploads)
         /\ Cardinality(Counted) <= TurnLimit
  <1>1. TurnUploads \subseteq {u \in Uploads : upload[u].state # "absent"}
    BY Apart, UploadAssumption DEF UploadInv, UploadAgrees, TurnUploads, NoUpload
  <1>2. Counted \subseteq TurnUploads
    BY DEF Counted
  <1>3. IsFiniteSet(TurnUploads)
    BY <1>1, FS_Subset DEF UploadInv
  <1>4. IsFiniteSet(Counted) /\ Cardinality(Counted) <= Cardinality(TurnUploads)
    BY <1>2, <1>3, FS_Subset
  <1>5. QED
    BY <1>3, <1>4, FS_CardinalityType DEF UploadInv, TurnBudget, Counted

\* A step that makes no upload count keeps the limit.
LEMMA BudgetShrinks ==
  ASSUME UploadInv, Counted' \subseteq Counted
  PROVE  TurnBudget'
  <1>1. Cardinality(Counted') <= Cardinality(Counted) /\ Cardinality(Counted') \in Nat
    BY CountedIsFinite, FS_Subset, FS_CardinalityType
  <1>2. Cardinality(Counted') <= TurnLimit
    BY <1>1, CountedIsFinite, UploadAssumption
  <1>3. QED
    BY <1>2 DEF TurnBudget, Counted

\* No row of an upload is touched.
LEMMA UploadsStay ==
  ASSUME UploadTypeOK, UploadInv, UNCHANGED <<driver, upload, request>>,
         \A u \in Uploads : SameAsset(u) /\ (u \in swept' => u \in swept)
  PROVE  UploadInv'
  <1>1. \A u \in Uploads : UploadAgrees(u)'
    BY SameUpload DEF UploadInv
  <1>2. \A r \in Requests : RequestAgrees(r)'
    <2> SUFFICES ASSUME NEW r \in Requests PROVE RequestAgrees(r)'
      OBVIOUS
    <2>1. RequestAgrees(r)
      BY DEF UploadInv
    <2>2. CASE request[r].on \in Uploads
      BY <2>1, <2>2 DEF RequestAgrees, SameAsset, Wanted, Stored, Phase
    <2>3. CASE request[r].on \notin Uploads
      BY <2>1, <2>3, Working DEF RequestAgrees, Free, Phase
    <2>4. QED
      BY <2>2, <2>3
  <1>3. Counted' \subseteq Counted
    BY DEF Counted, TurnUploads, SameAsset
  <1>4. QED
    BY <1>1, <1>2, <1>3, BudgetShrinks DEF UploadInv

\* No phrase is touched.
LEMMA VoicesStay ==
  ASSUME VoiceTypeOK, VoiceInv, UNCHANGED <<driver, audio, voice>>, swept \subseteq swept',
         \A p \in Phrases : SameAsset(p)
  PROVE  VoiceInv'
  <1>1. \A p \in Phrases \ swept' : PhraseAgrees(p)'
    BY SamePhrase DEF VoiceInv
  <1>2. \A w \in Makers : voice'[w].on \notin swept' => VoiceAgrees(w)'
    <2> SUFFICES ASSUME NEW w \in Makers, voice[w].on \notin swept' PROVE VoiceAgrees(w)'
      OBVIOUS
    <2>1. VoiceAgrees(w)
      BY DEF VoiceInv
    <2>2. CASE voice[w] = Silent
      BY <2>2 DEF VoiceAgrees, Silent
    <2>3. CASE voice[w].on \in Phrases
      BY <2>1, <2>3, SameVoice
    <2>4. QED
      BY <2>2, <2>3, Working
  <1>3. QED
    BY <1>1, <1>2 DEF VoiceInv, SameAsset

-----------------------------------------------------------------------------
(* Cleanup *)

\* What any step of the sweep or of a delete handler does to an asset: it is given
\* up and its object may go.
LEMMA ErasedKeeps ==
  ASSUME LibraryInv, UNCHANGED <<driver, upload, request, audio, voice>>,
         NEW a \in Assets, swept' = swept \cup {a},
         \A b \in Assets \ {a} : SameAsset(b),
         a \in Uploads => asset'[a].state \in {"failed", "deleting", "deleted"},
         asset'[a].sum = asset[a].sum, asset'[a].attached = asset[a].attached,
         file'[a] \in {file[a], None}, meta'[a] \in {meta[a], None},
         a \in Uploads => upload[a].state \in Ended
  PROVE  UploadInv' /\ VoiceInv'
  <1>1. \A u \in Uploads : UploadAgrees(u)'
    <2> SUFFICES ASSUME NEW u \in Uploads PROVE UploadAgrees(u)'
      OBVIOUS
    <2>1. CASE u # a
      BY <2>1, SameUpload, Apart DEF LibraryInv, UploadInv
    <2>2. CASE u = a
      BY <2>2 DEF LibraryInv, UploadInv, UploadAgrees, Wanted, Stored, Ended, InProgress
    <2>3. QED
      BY <2>1, <2>2
  <1>2. \A r \in Requests : RequestAgrees(r)'
    <2> SUFFICES ASSUME NEW r \in Requests PROVE RequestAgrees(r)'
      OBVIOUS
    <2>1. RequestAgrees(r) /\ (request[r] = Free \/ request[r].on \in Uploads)
      BY Working DEF LibraryInv, LibraryTypeOK, UploadInv
    <2>2. CASE request[r] = Free
      BY <2>1, <2>2 DEF RequestAgrees, Free, Phase
    <2>3. CASE request[r].on \in Uploads \ {a}
      BY <2>1, <2>3, Apart DEF RequestAgrees, SameAsset, Wanted, Stored, Phase
    <2>4. CASE request[r].on \in Uploads /\ request[r].on = a
      BY <2>1, <2>4 DEF RequestAgrees, Wanted, Stored, Phase, Ended
    <2>5. QED
      BY <2>1, <2>2, <2>3, <2>4
  <1>3. Counted' \subseteq Counted
    <2>1. \A u \in Uploads : u # a => SameAsset(u)
      BY Apart
    <2>2. QED
      BY <2>1 DEF Counted, TurnUploads, SameAsset
  <1>4. UploadInv'
    BY <1>1, <1>2, <1>3, BudgetShrinks DEF UploadInv, LibraryInv
  <1>5. \A p \in Phrases \ swept' : PhraseAgrees(p)'
    BY SamePhrase, Apart DEF LibraryInv, VoiceInv
  <1>6. \A w \in Makers : voice'[w].on \notin swept' => VoiceAgrees(w)'
    <2> SUFFICES ASSUME NEW w \in Makers, voice[w].on \notin swept' PROVE VoiceAgrees(w)'
      OBVIOUS
    <2>1. VoiceAgrees(w)
      BY DEF LibraryInv, VoiceInv
    <2>2. CASE voice[w] = Silent
      BY <2>2 DEF VoiceAgrees, Silent
    <2>3. CASE voice[w].on \in Phrases
      BY <2>1, <2>3, SameVoice, Apart
    <2>4. QED
      BY <2>2, <2>3, Working DEF LibraryInv, LibraryTypeOK
  <1>7. \A p \in Phrases : file'[p] \in Makers \cup {None}
    <2> SUFFICES ASSUME NEW p \in Phrases PROVE file'[p] \in Makers \cup {None}
      OBVIOUS
    <2>1. file[p] \in Makers \cup {None} /\ p \in Assets
      BY Apart DEF LibraryInv, VoiceInv
    <2>2. file'[p] \in {file[p], None}
      BY <2>1 DEF SameAsset
    <2>3. QED
      BY <2>1, <2>2
  <1>8. QED
    BY <1>4, <1>5, <1>6, <1>7 DEF VoiceInv

LEMMA NewDeleteKeeps ==
  ASSUME MediaTypeOK, CleanupInv, NEW j \in DeleteJobs, NEW a \in Assets, NewDelete(j, a),
         eraser' = eraser
  PROVE  /\ CleanupInv'
         /\ del' \in [DeleteJobs -> DeleteRow \cup {NoDelete}]
         /\ swept' \in SUBSET Assets /\ swept' = swept \cup {a}
  <1>1. [state |-> "waiting", asset |-> a, tries |-> 0] \in DeleteRow
    BY MediaAssumption DEF DeleteRow
  <1>2. QED
    BY <1>1 DEF MediaTypeOK, CleanupInv, NewDelete, NoDelete, Works

\* Whatever was swept, or can be, has left the hands of its upload.
LEMMA GivenUp ==
  ASSUME LibraryInv, NEW u \in Uploads,
         u \in swept \/ asset[u].attached \/ Sweepable(u)
  PROVE  upload[u].state \in Ended
  BY DEF LibraryInv, LibraryTypeOK, UploadTypeOK, UploadRow, UploadInv, UploadAgrees, Sweepable,
         NoAsset, NewAsset, InProgress, Ended

LEMMA EnqueueKeeps ==
  ASSUME LibraryInv, UNCHANGED <<uploadVars, voiceVars>>,
         NEW j \in DeleteJobs, NEW a \in Assets,
         EnqueueExpiredAssets(j, a) \/ QueueAsset(j, a)
  PROVE  LibraryInv'
  <1>1. /\ NewDelete(j, a)
        /\ UNCHANGED <<driver, file, meta, eraser, faults>>
        /\ asset[a].attached \/ Sweepable(a)
    BY DEF EnqueueExpiredAssets, QueueAsset
  <1>2. CleanupInv' /\ MediaTypeOK'
    <2>1. asset' \in [Assets -> AssetRow]
      BY DEF EnqueueExpiredAssets, QueueAsset, LibraryInv, LibraryTypeOK, MediaTypeOK, AssetRow,
             AssetStates
    <2>2. QED
      BY <1>1, <2>1, NewDeleteKeeps DEF LibraryInv, LibraryTypeOK, MediaTypeOK
  <1>3. /\ swept' = swept \cup {a}
        /\ \A b \in Assets \ {a} : asset'[b] = asset[b]
        /\ asset'[a].state = "deleting"
        /\ asset'[a].sum = asset[a].sum /\ asset'[a].attached = asset[a].attached
    BY DEF EnqueueExpiredAssets, QueueAsset, NewDelete, LibraryInv, LibraryTypeOK, MediaTypeOK,
           AssetRow
  <1>4. a \in Uploads => upload[a].state \in Ended
    BY <1>1, GivenUp
  <1>5. UploadInv' /\ VoiceInv'
    BY <1>1, <1>3, <1>4, ErasedKeeps DEF SameAsset, uploadVars, voiceVars
  <1>6. QED
    BY <1>2, <1>5 DEF LibraryInv, LibraryTypeOK, UploadTypeOK, VoiceTypeOK, uploadVars, voiceVars

\* A step of a handler that only moves jobs.
LEMMA JobsMove ==
  ASSUME LibraryInv, UNCHANGED <<driver, asset, file, meta, swept, uploadVars, voiceVars>>,
         MediaTypeOK', CleanupInv'
  PROVE  LibraryInv'
  <1>1. UploadInv' /\ VoiceInv'
    BY UploadsStay, VoicesStay, Apart
       DEF LibraryInv, LibraryTypeOK, SameAsset, uploadVars, voiceVars
  <1>2. QED
    BY <1>1 DEF LibraryInv, LibraryTypeOK, UploadTypeOK, VoiceTypeOK, uploadVars, voiceVars

LEMMA LostType ==
  ASSUME MediaTypeOK, NEW j \in DeleteJobs, NEW e \in Erasers
  PROVE  /\ Lost(j)[e] \in Handler \cup {Resting}
         /\ Lost(j)[e].phase = eraser[e].phase /\ Lost(j)[e].job = eraser[e].job
         /\ Works(e) => Lost(j)[e].asset = eraser[e].asset
         /\ Lost(j)[e].holds <=> eraser[e].holds /\ eraser[e].job # j
  <1>1. CASE eraser[e] = Resting
    BY <1>1, Apart DEF Lost, Resting, Works
  <1>2. CASE eraser[e] \in Handler
    BY <1>2 DEF Lost, Handler
  <1>3. QED
    BY <1>1, <1>2 DEF MediaTypeOK

LEMMA ClaimDeleteKeeps ==
  ASSUME LibraryInv, UNCHANGED <<uploadVars, voiceVars>>,
         NEW e \in Erasers, NEW j \in DeleteJobs, ClaimDelete(e, j)
  PROVE  LibraryInv'
  <1>0. MediaTypeOK /\ CleanupInv
    BY DEF LibraryInv, LibraryTypeOK
  <1>1. /\ del[j] \in DeleteRow /\ del[j].asset \in Assets /\ del[j] # NoDelete
        /\ del[j].tries + 1 \in 0..DeleteTries
    BY <1>0, MediaAssumption DEF ClaimDelete, MediaTypeOK, DeleteRow, NoDelete, None
  <1>2. MediaTypeOK'
    <2>1. del' \in [DeleteJobs -> DeleteRow \cup {NoDelete}]
      <3>1. [del[j] EXCEPT !.state = "running", !.tries = @ + 1] \in DeleteRow
        BY <1>1 DEF DeleteRow
      <3>2. QED
        BY <1>0, <3>1 DEF ClaimDelete, MediaTypeOK
    <2>2. eraser' \in [Erasers -> Handler \cup {Resting}]
      <3>1. Lost(j) \in [Erasers -> Handler \cup {Resting}]
        BY <1>0, LostType DEF Lost
      <3>2. [phase |-> "file", job |-> j, asset |-> del[j].asset, holds |-> TRUE] \in Handler
        BY <1>1 DEF Handler
      <3>3. QED
        BY <3>1, <3>2 DEF ClaimDelete
    <2>3. QED
      BY <1>0, <2>1, <2>2 DEF ClaimDelete, MediaTypeOK
  <1>3. CleanupInv'
    <2>1. \A k \in DeleteJobs : del'[k] # NoDelete => del'[k].asset \in swept
      BY <1>0, <1>1 DEF ClaimDelete, MediaTypeOK, CleanupInv, DeleteRow
    <2>2. \A f \in Erasers :
            \/ eraser'[f] = Lost(j)[f]
            \/ /\ f = e /\ eraser'[f].asset = del[j].asset /\ eraser'[f].job = j
               /\ del'[j].state = "running"
      <3>1. Lost(j) \in [Erasers -> Handler \cup {Resting}]
        BY <1>0, LostType DEF Lost
      <3>3. CASE asset[del[j].asset].state \in {"absent", "deleted"}
        BY <3>3 DEF ClaimDelete
      <3>4. CASE asset[del[j].asset].state \notin {"absent", "deleted"}
        <4>1. /\ eraser' = [Lost(j) EXCEPT ![e] =
                   [phase |-> "file", job |-> j, asset |-> del[j].asset, holds |-> TRUE]]
              /\ del'[j].state = "running"
          BY <1>0, <1>1, <3>4 DEF ClaimDelete, MediaTypeOK, DeleteRow
        <4>2. QED
          BY <3>1, <4>1
      <3>5. QED
        BY <3>3, <3>4
    <2>3. \A f \in Erasers : Works(f)' => eraser'[f].asset \in swept
      BY <1>0, <1>1, <2>2, LostType DEF CleanupInv, Works
    <2>4. \A f \in Erasers : eraser'[f].holds /\ eraser'[f] = Lost(j)[f] =>
            /\ eraser[f].holds /\ eraser'[f].job = eraser[f].job /\ eraser[f].job # j
            /\ del'[eraser[f].job] = del[eraser[f].job]
      <3> SUFFICES ASSUME NEW f \in Erasers, eraser'[f].holds, eraser'[f] = Lost(j)[f]
                   PROVE  /\ eraser[f].holds /\ eraser'[f].job = eraser[f].job
                          /\ eraser[f].job # j
                          /\ del'[eraser[f].job] = del[eraser[f].job]
        OBVIOUS
      <3>1. eraser[f].holds /\ eraser'[f].job = eraser[f].job /\ eraser[f].job # j
        BY <1>0, LostType
      <3>2. eraser[f].job \in DeleteJobs
        BY <1>0, <3>1, Working DEF Resting
      <3>3. QED
        BY <1>0, <3>1, <3>2 DEF ClaimDelete, MediaTypeOK
    <2>5. QED
      BY <1>0, <2>1, <2>2, <2>3, <2>4 DEF ClaimDelete, CleanupInv
  <1>4. QED
    BY <1>2, <1>3, JobsMove DEF ClaimDelete

LEMMA LoseDeleteKeeps ==
  ASSUME LibraryInv, UNCHANGED <<uploadVars, voiceVars>>,
         NEW e \in Erasers, LoseDelete(e) \/ StopErasing(e)
  PROVE  LibraryInv'
  <1>0. MediaTypeOK /\ CleanupInv
    BY DEF LibraryInv, LibraryTypeOK
  <1>1. MediaTypeOK' /\ CleanupInv'
    <2>1. CASE LoseDelete(e)
      <3>1. eraser[e].job \in DeleteJobs /\ del[eraser[e].job] \in DeleteRow
        BY <1>0, <2>1, Working DEF LoseDelete, MediaTypeOK, NoDelete, None, Resting
      <3>2. del' \in [DeleteJobs -> DeleteRow \cup {NoDelete}]
        BY <1>0, <2>1, <3>1 DEF LoseDelete, MediaTypeOK, DeleteRow
      <3>3. MediaTypeOK'
        BY <1>0, <2>1, <3>2, MediaAssumption DEF LoseDelete, MediaTypeOK, Fault
      <3>4. \A k \in DeleteJobs :
              /\ del'[k].asset = del[k].asset
              /\ del'[k] # NoDelete => del[k] # NoDelete
              /\ del'[k].state = del[k].state \/ del'[k].state = "lapsed"
        BY <1>0, <2>1, <3>1 DEF LoseDelete, MediaTypeOK, DeleteRow, NoDelete, None
      <3>5. \A f \in Erasers : eraser[f].holds => eraser[f].job \in DeleteJobs
        BY <1>0, Working DEF Resting
      <3>6. CleanupInv'
        BY <1>0, <2>1, <3>4, <3>5 DEF LoseDelete, CleanupInv, Works
      <3>7. QED
        BY <3>3, <3>6
    <2>2. CASE StopErasing(e)
      BY <1>0, <2>2 DEF StopErasing, MediaTypeOK, CleanupInv, Works, Resting
    <2>3. QED
      BY <2>1, <2>2
  <1>2. QED
    BY <1>1, JobsMove DEF LoseDelete, StopErasing

\* A handler erases the object of an asset, or its metadata, and no row.
LEMMA EraseFileKeeps ==
  ASSUME LibraryInv, UNCHANGED <<uploadVars, voiceVars>>,
         NEW e \in Erasers, EraseFile(e) \/ EraseMeta(e)
  PROVE  LibraryInv'
  <1>0. MediaTypeOK /\ CleanupInv
    BY DEF LibraryInv, LibraryTypeOK
  <1> DEFINE a == eraser[e].asset
  <1>1. a \in Assets /\ a \in swept /\ eraser[e] \in Handler
    BY <1>0, Working DEF EraseFile, EraseMeta, Resting, CleanupInv, Works, MediaTypeOK
  <1>2. eraser' \in [Erasers -> Handler \cup {Resting}]
    BY <1>0, <1>1 DEF EraseFile, EraseMeta, MediaTypeOK, Handler
  <1>3. MediaTypeOK'
    BY <1>0, <1>1, <1>2 DEF EraseFile, EraseMeta, MediaTypeOK
  <1>4. \A f \in Erasers :
          /\ eraser'[f].holds = eraser[f].holds /\ eraser'[f].job = eraser[f].job
          /\ Works(f)' => Works(f) /\ eraser'[f].asset = eraser[f].asset
    BY <1>0, <1>1 DEF EraseFile, EraseMeta, MediaTypeOK, Handler, Works
  <1>5. CleanupInv'
    <2>1. del' = del /\ swept' = swept
      BY DEF EraseFile, EraseMeta
    <2>2. \A f \in Erasers : Works(f)' => eraser'[f].asset \in swept
      BY <1>0, <1>4 DEF CleanupInv, Works
    <2>3. QED
      BY <1>0, <1>4, <2>1, <2>2 DEF CleanupInv
  <1>6. /\ \A b \in Assets \ {a} : SameAsset(b)
        /\ asset' = asset /\ file'[a] \in {file[a], None} /\ meta'[a] \in {meta[a], None}
        /\ swept' = swept \cup {a}
    BY <1>0, <1>1 DEF EraseFile, EraseMeta, MediaTypeOK, SameAsset
  <1>7. a \in Uploads => asset[a].state \in {"failed", "deleting", "deleted"}
    BY <1>1 DEF LibraryInv, UploadInv, UploadAgrees
  <1>8. a \in Uploads => upload[a].state \in Ended
    BY <1>1, GivenUp
  <1>9. driver' = driver
    BY DEF EraseFile, EraseMeta
  <1>10. UploadInv' /\ VoiceInv'
    <2> HIDE DEF a
    <2> QED
      BY <1>1, <1>6, <1>7, <1>8, <1>9, ErasedKeeps DEF uploadVars, voiceVars
  <1>11. QED
    BY <1>3, <1>5, <1>10
       DEF LibraryInv, LibraryTypeOK, UploadTypeOK, VoiceTypeOK, uploadVars, voiceVars

\* The handler is done with its job, or has failed.
LEMMA EraseEnds ==
  ASSUME LibraryInv, UNCHANGED <<uploadVars, voiceVars>>,
         NEW e \in Erasers, EraseMark(e) \/ FailDelete(e)
  PROVE  LibraryInv'
  <1>0. MediaTypeOK /\ CleanupInv
    BY DEF LibraryInv, LibraryTypeOK
  <1> DEFINE a == eraser[e].asset
  <1>1. a \in Assets /\ a \in swept /\ eraser[e] \in Handler /\ eraser[e].job \in DeleteJobs
    BY <1>0, Working DEF EraseMark, FailDelete, Resting, CleanupInv, Works, MediaTypeOK
  <1>2. /\ UNCHANGED <<driver, file, meta, swept>>
        /\ eraser' = [eraser EXCEPT ![e] = Resting]
        /\ \A k \in DeleteJobs : del'[k] = del[k] \/ (eraser[e].holds /\ k = eraser[e].job)
    BY <1>0 DEF EraseMark, FailDelete, Reported, MediaTypeOK
  <1>3. del' \in [DeleteJobs -> DeleteRow \cup {NoDelete}]
    <2>1. CASE ~eraser[e].holds
      BY <1>0, <1>1, <2>1 DEF EraseMark, FailDelete, Reported, MediaTypeOK
    <2>2. CASE eraser[e].holds
      <3>1. del[eraser[e].job] \in DeleteRow
        BY <1>0, <1>1, <2>2 DEF CleanupInv, MediaTypeOK, NoDelete, None
      <3>2. QED
        BY <1>0, <1>1, <2>2, <3>1 DEF EraseMark, FailDelete, Reported, MediaTypeOK, DeleteRow
    <2>3. QED
      BY <2>1, <2>2
  <1>4. /\ asset' \in [Assets -> AssetRow]
        /\ asset'[a].sum = asset[a].sum /\ asset'[a].attached = asset[a].attached
        /\ \A b \in Assets \ {a} : asset'[b] = asset[b]
        /\ asset'[a].state \in {asset[a].state, "failed", "deleted"}
    <2>0. asset \in [Assets -> AssetRow]
      BY <1>0 DEF MediaTypeOK
    <2>1. \/ asset' = asset
          \/ asset' = [asset EXCEPT ![a].state = "failed"]
          \/ asset' = [asset EXCEPT ![a].state = "deleted", ![a].erased = TRUE]
      BY DEF EraseMark, FailDelete, Failed
    <2> HIDE DEF a
    <2>2. CASE asset' = asset
      BY <2>0, <2>2
    <2>3. CASE asset' = [asset EXCEPT ![a].state = "failed"]
      <3>1. [asset[a] EXCEPT !.state = "failed"] \in AssetRow
        BY <1>1, <2>0 DEF AssetRow, AssetStates
      <3>2. asset' = [asset EXCEPT ![a] = [asset[a] EXCEPT !.state = "failed"]]
        BY <2>3
      <3>3. QED
        BY <1>1, <2>0, <3>1, <3>2 DEF AssetRow
    <2>4. CASE asset' = [asset EXCEPT ![a].state = "deleted", ![a].erased = TRUE]
      <3>1. [asset[a] EXCEPT !.state = "deleted", !.erased = TRUE] \in AssetRow
        BY <1>1, <2>0 DEF AssetRow, AssetStates
      <3>2. asset' = [asset EXCEPT ![a] =
                        [asset[a] EXCEPT !.state = "deleted", !.erased = TRUE]]
        BY <2>4
      <3>3. QED
        BY <1>1, <2>0, <3>1, <3>2 DEF AssetRow
    <2>5. QED
      BY <2>1, <2>2, <2>3, <2>4
  <1>5. MediaTypeOK'
    BY <1>0, <1>2, <1>3, <1>4, MediaAssumption DEF MediaTypeOK, EraseMark, FailDelete, Fault
  <1>6. CleanupInv'
    <2>1. \A k \in DeleteJobs : del'[k] # NoDelete => del'[k].asset \in swept
      <3> SUFFICES ASSUME NEW k \in DeleteJobs, del'[k] # NoDelete PROVE del'[k].asset \in swept
        OBVIOUS
      <3>1. CASE del'[k] = del[k]
        BY <1>0, <3>1 DEF CleanupInv
      <3>2. CASE eraser[e].holds /\ k = eraser[e].job
        <4>1. del[k] \in DeleteRow /\ del[k].asset \in swept
          BY <1>0, <1>1, <3>2 DEF CleanupInv, MediaTypeOK, NoDelete, None
        <4>2. del'[k] = [del[k] EXCEPT !.state = "waiting"]
          BY <1>0, <3>2 DEF EraseMark, FailDelete, Reported, MediaTypeOK
        <4>3. QED
          BY <4>1, <4>2 DEF DeleteRow
      <3>3. QED
        BY <1>2, <3>1, <3>2
    <2>2. \A f \in Erasers : eraser'[f] = Resting \/ (f # e /\ eraser'[f] = eraser[f])
      BY <1>0, <1>2 DEF MediaTypeOK
    <2>3. \A f \in Erasers : eraser'[f].holds =>
            /\ f # e /\ eraser'[f] = eraser[f] /\ del'[eraser[f].job] = del[eraser[f].job]
      BY <1>0, <1>2, <2>2, Working DEF CleanupInv, Resting
    <2>4. QED
      BY <1>0, <1>2, <2>1, <2>2, <2>3 DEF CleanupInv, Works, Resting
  <1>7. \A b \in Assets \ {a} : SameAsset(b)
    BY <1>2, <1>4 DEF SameAsset
  <1>8. a \in Uploads => asset'[a].state \in {"failed", "deleting", "deleted"}
    BY <1>1, <1>4 DEF LibraryInv, UploadInv, UploadAgrees
  <1>9. a \in Uploads => upload[a].state \in Ended
    BY <1>1, GivenUp
  <1>10. UploadInv' /\ VoiceInv'
    <2> HIDE DEF a
    <2> QED
      BY <1>1, <1>2, <1>4, <1>7, <1>8, <1>9, ErasedKeeps DEF uploadVars, voiceVars
  <1>11. QED
    BY <1>5, <1>6, <1>10
       DEF LibraryInv, LibraryTypeOK, UploadTypeOK, VoiceTypeOK, uploadVars, voiceVars

LEMMA CleanupKeeps ==
  ASSUME LibraryInv, CleanupNext, UNCHANGED <<uploadVars, voiceVars>>
  PROVE  LibraryInv'
  BY EnqueueKeeps, ClaimDeleteKeeps, EraseFileKeeps, EraseEnds, LoseDeleteKeeps
     DEF CleanupNext, EraseStep

-----------------------------------------------------------------------------
(* Generated audio *)

LEMMA SilentAgrees ==
  ASSUME NEW w \in Makers, voice'[w] = Silent
  PROVE  VoiceAgrees(w)'
  BY DEF VoiceAgrees, Silent

\* A step of generated audio concerns one phrase.
LEMMA PhraseStep ==
  ASSUME LibraryInv, UNCHANGED <<driver, del, eraser, swept, uploadVars>>,
         NEW p \in Phrases, \A a \in Assets \ {p} : SameAsset(a),
         MediaTypeOK', VoiceTypeOK', file'[p] \in Makers \cup {None},
         \A q \in Phrases \ {p} : audio'[q] = audio[q],
         p \notin swept => PhraseAgrees(p)',
         \A w \in Makers : voice'[w].on = p /\ p \notin swept => VoiceAgrees(w)',
         \A w \in Makers : voice'[w].on # p => voice'[w] \in {voice[w], Silent}
  PROVE  LibraryInv'
  <1>1. CleanupInv'
    BY DEF LibraryInv, CleanupInv, Works
  <1>2. UploadInv'
    BY UploadsStay, Apart DEF LibraryInv, LibraryTypeOK, uploadVars
  <1>3. \A q \in Phrases : file'[q] \in Makers \cup {None}
    BY Apart DEF LibraryInv, VoiceInv, SameAsset
  <1>4. \A q \in Phrases \ swept' : PhraseAgrees(q)'
    <2> SUFFICES ASSUME NEW q \in Phrases \ swept, q # p PROVE PhraseAgrees(q)'
      OBVIOUS
    <2>1. PhraseAgrees(q) /\ SameAsset(q) /\ audio'[q] = audio[q]
      BY Apart DEF LibraryInv, VoiceInv
    <2>2. QED
      BY <2>1, SamePhrase
  <1>5. \A w \in Makers : voice'[w].on \notin swept' => VoiceAgrees(w)'
    <2> SUFFICES ASSUME NEW w \in Makers, voice'[w].on \notin swept, voice'[w].on # p
                 PROVE  VoiceAgrees(w)'
      OBVIOUS
    <2>1. CASE voice'[w] = Silent
      BY <2>1, SilentAgrees
    <2>2. CASE voice'[w] = voice[w] /\ voice[w].on \in Phrases
      <3>1. VoiceAgrees(w) /\ SameAsset(voice[w].on)
        BY <2>2, Apart DEF LibraryInv, VoiceInv
      <3>2. QED
        BY <2>2, <3>1, SameVoice
    <2>3. QED
      BY <2>1, <2>2, Working DEF LibraryInv, LibraryTypeOK
  <1>6. QED
    BY <1>1, <1>2, <1>3, <1>4, <1>5
       DEF LibraryInv, LibraryTypeOK, UploadTypeOK, VoiceInv, uploadVars

LEMMA DroppedType ==
  ASSUME VoiceTypeOK, NEW p \in Phrases, NEW w \in Makers
  PROVE  /\ Dropped(p)[w] \in Speaker \cup {Silent}
         /\ Dropped(p)[w].phase = voice[w].phase /\ Dropped(p)[w].on = voice[w].on
         /\ Dropped(p)[w].found = voice[w].found
         /\ voice[w].on # p => Dropped(p)[w] = voice[w]
  <1>1. CASE voice[w] = Silent
    BY <1>1, Apart DEF Dropped, Silent
  <1>2. CASE voice[w] \in Speaker
    BY <1>2 DEF Dropped, Speaker
  <1>3. QED
    BY <1>1, <1>2 DEF VoiceTypeOK

\* A worker that goes on as it was, and nothing happened to its phrase.
LEMMA VoiceGoesOn ==
  ASSUME NEW w \in Makers, VoiceAgrees(w), SameAsset(voice[w].on), driver' = driver,
         voice'[w].phase = voice[w].phase, voice'[w].on = voice[w].on,
         voice'[w].found = voice[w].found
  PROVE  VoiceAgrees(w)'
  BY DEF VoiceAgrees, SameAsset, Stat

\* An error ends the delivery and touches the row of the phrase only.
LEMMA ReturnErrorType ==
  ASSUME VoiceTypeOK, NEW w \in Makers, voice[w] \in Speaker, ReturnError(w)
  PROVE  /\ VoiceTypeOK'
         /\ voice'[w] = Silent /\ \A v \in Makers \ {w} : voice'[v] = voice[v]
         /\ \A q \in Phrases \ {voice[w].on} : audio'[q] = audio[q]
         /\ audio'[voice[w].on].status \in {audio[voice[w].on].status, "failed"}
  <1> DEFINE p == voice[w].on
  <1>1. p \in Phrases /\ audio[p] \in AudioRow
    BY DEF VoiceTypeOK, Speaker
  <1>2. /\ voice' \in [Makers -> Speaker \cup {Silent}] /\ voice'[w] = Silent
        /\ \A v \in Makers \ {w} : voice'[v] = voice[v]
    BY DEF ReturnError, Rest, VoiceTypeOK
  <1>3. \/ audio' = audio
        \/ audio' = [audio EXCEPT ![p] = NoJob("failed")]
        \/ audio' = [audio EXCEPT ![p].job = "waiting"]
    BY DEF ReturnError
  <1>4. NoJob("failed") \in AudioRow /\ NoJob("failed").status = "failed"
    BY GeneratedAssumption DEF NoJob, AudioRow
  <1>5. [audio[p] EXCEPT !.job = "waiting"] \in AudioRow
    BY <1>1 DEF AudioRow
  <1>6. /\ audio' \in [Phrases -> AudioRow]
        /\ \A q \in Phrases \ {p} : audio'[q] = audio[q]
        /\ audio'[p].status \in {audio[p].status, "failed"}
    <2>1. audio \in [Phrases -> AudioRow]
      BY DEF VoiceTypeOK
    <2>2. CASE audio' = audio
      BY <2>1, <2>2
    <2>3. CASE audio' = [audio EXCEPT ![p] = NoJob("failed")]
      BY <1>1, <1>4, <2>1, <2>3
    <2>4. CASE audio' = [audio EXCEPT ![p].job = "waiting"]
      BY <1>1, <1>5, <2>1, <2>4 DEF AudioRow
    <2>5. QED
      BY <1>3, <2>2, <2>3, <2>4
  <1>7. QED
    BY <1>2, <1>6 DEF VoiceTypeOK

\* A step that touches neither the store nor the row of an asset.
LEMMA QuietVoice ==
  ASSUME LibraryInv, NEW p \in Phrases,
         UNCHANGED <<driver, asset, file, meta, del, eraser, swept, uploadVars>>,
         faults' \in 0..MaxFaults, VoiceTypeOK',
         \A q \in Phrases \ {p} : audio'[q] = audio[q],
         audio'[p].status = "ready" => audio[p].status = "ready",
         \A w \in Makers :
           \/ voice'[w] = Silent
           \/ /\ voice'[w].phase = voice[w].phase /\ voice'[w].on = voice[w].on
              /\ voice'[w].found = voice[w].found
              /\ voice[w].on # p => voice'[w] = voice[w]
           \/ voice'[w].on = p /\ (p \notin swept => VoiceAgrees(w)')
  PROVE  LibraryInv'
  <1>1. \A a \in Assets : SameAsset(a)
    BY DEF SameAsset
  <1>2. p \notin swept => PhraseAgrees(p)'
    BY <1>1, SamePhrase, Apart DEF LibraryInv, VoiceInv
  <1>3. \A w \in Makers : voice'[w].on = p /\ p \notin swept => VoiceAgrees(w)'
    <2> SUFFICES ASSUME NEW w \in Makers, voice'[w].on = p, p \notin swept
                 PROVE  VoiceAgrees(w)'
      OBVIOUS
    <2>1. CASE /\ voice'[w].phase = voice[w].phase /\ voice'[w].on = voice[w].on
               /\ voice'[w].found = voice[w].found
      <3>1. VoiceAgrees(w) /\ SameAsset(voice[w].on)
        BY <1>1, <2>1, Apart DEF LibraryInv, VoiceInv
      <3>2. QED
        BY <2>1, <3>1, VoiceGoesOn
    <2>2. QED
      BY <2>1, SilentAgrees
  <1>4. \A w \in Makers : voice'[w].on # p => voice'[w] \in {voice[w], Silent}
    OBVIOUS
  <1>5. MediaTypeOK'
    BY DEF LibraryInv, LibraryTypeOK, MediaTypeOK
  <1>6. file'[p] \in Makers \cup {None}
    BY DEF LibraryInv, VoiceInv
  <1>7. QED
    BY <1>1, <1>2, <1>3, <1>4, <1>5, <1>6, PhraseStep

\* What a worker at one of its steps can rely on.
LEMMA Speaks ==
  ASSUME LibraryInv, NEW w \in Makers, voice[w] # Silent
  PROVE  /\ voice[w] \in Speaker /\ voice[w].on \in Phrases /\ voice[w].on \in Assets
         /\ voice[w].on \notin swept => PhraseAgrees(voice[w].on) /\ VoiceAgrees(w)
         /\ file[voice[w].on] \in Makers \cup {None}
         /\ w # None /\ w \in Bytes
  BY Working, Apart DEF LibraryInv, LibraryTypeOK, VoiceInv, Bytes

LEMMA ScheduleAudioKeeps ==
  ASSUME LibraryInv, UNCHANGED uploadVars, NEW p \in Phrases, ScheduleAudio(p)
  PROVE  LibraryInv'
  <1>1. VoiceTypeOK
    BY DEF LibraryInv, LibraryTypeOK
  <1>2. [status |-> "processing", job |-> "waiting", tries |-> 0] \in AudioRow
    BY GeneratedAssumption DEF AudioRow
  <1>3. Dropped(p) \in [Makers -> Speaker \cup {Silent}]
    BY <1>1, DroppedType DEF Dropped
  <1>4. VoiceTypeOK' /\ audio'[p].status = "processing"
        /\ \A q \in Phrases \ {p} : audio'[q] = audio[q]
    BY <1>1, <1>2, <1>3 DEF ScheduleAudio, VoiceTypeOK
  <1>5. faults' \in 0..MaxFaults
    BY DEF ScheduleAudio, mediaVars, LibraryInv, LibraryTypeOK, MediaTypeOK
  <1>6. QED
    BY <1>1, <1>4, <1>5, DroppedType, QuietVoice DEF ScheduleAudio, mediaVars

LEMMA ClaimAudioKeeps ==
  ASSUME LibraryInv, UNCHANGED uploadVars, NEW w \in Makers, NEW p \in Phrases,
         ClaimAudio(w, p)
  PROVE  LibraryInv'
  <1>1. VoiceTypeOK /\ audio[p] \in AudioRow
    BY DEF LibraryInv, LibraryTypeOK, VoiceTypeOK
  <1>2. audio[p].tries + 1 \in 0..MaxTries
    BY <1>1, GeneratedAssumption DEF ClaimAudio, Deliverable, AudioRow
  <1>3. Dropped(p) \in [Makers -> Speaker \cup {Silent}]
    BY <1>1, DroppedType DEF Dropped
  <1>4. [phase |-> "find", on |-> p, holds |-> TRUE, found |-> None] \in Speaker
    BY DEF Speaker
  <1>5. /\ voice' \in [Makers -> Speaker \cup {Silent}]
        /\ voice'[w].phase = "find" /\ voice'[w].on = p
        /\ \A v \in Makers \ {w} : voice'[v] = Dropped(p)[v]
    BY <1>3, <1>4 DEF ClaimAudio
  <1>6. /\ audio' \in [Phrases -> AudioRow] /\ audio'[p].status = audio[p].status
        /\ \A q \in Phrases \ {p} : audio'[q] = audio[q]
    BY <1>1, <1>2 DEF ClaimAudio, VoiceTypeOK, AudioRow
  <1>7. VoiceAgrees(w)'
    BY <1>5 DEF VoiceAgrees
  <1>8. faults' \in 0..MaxFaults
    BY DEF ClaimAudio, mediaVars, LibraryInv, LibraryTypeOK, MediaTypeOK
  <1>9. VoiceTypeOK'
    BY <1>5, <1>6 DEF VoiceTypeOK
  <1>10. QED
    BY <1>1, <1>5, <1>6, <1>7, <1>8, <1>9, DroppedType, QuietVoice DEF ClaimAudio, mediaVars

\* A step of one worker that leaves the phrase alone: it goes on as x ...
LEMMA SpeakerMoves ==
  ASSUME LibraryInv, NEW w \in Makers, NEW x \in Speaker, voice[w] \in Speaker,
         UNCHANGED <<driver, asset, file, meta, del, eraser, swept, uploadVars>>,
         faults' \in 0..MaxFaults,
         audio' = audio \/ audio' = [audio EXCEPT ![voice[w].on].job = "waiting"],
         voice' = [voice EXCEPT ![w] = x], x.on = voice[w].on,
         x.on \notin swept => VoiceAgrees(w)'
  PROVE  LibraryInv'
  <1> DEFINE p == voice[w].on
  <1>1. VoiceTypeOK /\ p \in Phrases /\ audio[p] \in AudioRow
    BY DEF LibraryInv, LibraryTypeOK, VoiceTypeOK, Speaker
  <1>2. [audio[p] EXCEPT !.job = "waiting"] \in AudioRow
    BY <1>1 DEF AudioRow
  <1>3. /\ audio' \in [Phrases -> AudioRow] /\ audio'[p].status = audio[p].status
        /\ \A q \in Phrases \ {p} : audio'[q] = audio[q]
    BY <1>1, <1>2 DEF VoiceTypeOK, AudioRow
  <1>4. /\ voice' \in [Makers -> Speaker \cup {Silent}] /\ voice'[w] = x
        /\ \A v \in Makers \ {w} : voice'[v] = voice[v]
    BY <1>1 DEF VoiceTypeOK
  <1>5. VoiceTypeOK'
    BY <1>3, <1>4 DEF VoiceTypeOK
  <1>6. QED
    BY <1>1, <1>3, <1>4, <1>5, QuietVoice

\* ... or is done.
LEMMA SpeakerRests ==
  ASSUME LibraryInv, NEW w \in Makers, voice[w] \in Speaker,
         UNCHANGED <<driver, asset, file, meta, del, eraser, swept, uploadVars>>,
         faults' \in 0..MaxFaults,
         ReturnError(w) \/ (audio' = audio /\ Rest(w))
  PROVE  LibraryInv'
  <1> DEFINE p == voice[w].on
  <1>1. VoiceTypeOK /\ p \in Phrases
    BY DEF LibraryInv, LibraryTypeOK, Speaker
  <1>2. CASE ReturnError(w)
    BY <1>1, <1>2, ReturnErrorType, QuietVoice
  <1>3. CASE audio' = audio /\ Rest(w)
    <2>1. VoiceTypeOK' /\ \A v \in Makers : voice'[v] = Silent \/ voice'[v] = voice[v]
      BY <1>1, <1>3 DEF Rest, VoiceTypeOK
    <2>2. QED
      BY <1>1, <1>3, <2>1, QuietVoice
  <1>4. QED
    BY <1>2, <1>3

\* A worker comes to its next transaction.
LEMMA TurnTypes ==
  ASSUME VoiceTypeOK, NEW w \in Makers, voice[w] \in Speaker,
         NEW t \in {"write", "put", "send", "describe", "verify", "undo", "complete"}, Turn(w, t)
  PROVE  /\ [voice[w] EXCEPT !.phase = t] \in Speaker
         /\ voice' = [voice EXCEPT ![w] = [voice[w] EXCEPT !.phase = t]]
         /\ voice'[w].phase = t /\ voice'[w].on = voice[w].on
  BY DEF VoiceTypeOK, Turn, Speaker

LEMMA FoundTypes ==
  ASSUME VoiceTypeOK, NEW w \in Makers, voice[w] \in Speaker, NEW b \in Makers \cup {None},
         Found(w, b)
  PROVE  /\ [voice[w] EXCEPT !.phase = "register", !.found = b] \in Speaker
         /\ voice' = [voice EXCEPT ![w] = [voice[w] EXCEPT !.phase = "register", !.found = b]]
         /\ voice'[w].phase = "register" /\ voice'[w].on = voice[w].on /\ voice'[w].found = b
  BY DEF VoiceTypeOK, Found, Speaker

LEMMA TurnMoves ==
  ASSUME LibraryInv, NEW w \in Makers, voice[w] \in Speaker,
         NEW t \in {"write", "put", "send", "describe", "verify", "undo", "complete"}, Turn(w, t),
         UNCHANGED <<mediaVars, audio, uploadVars>>,
         voice[w].on \notin swept => VoiceAgrees(w)'
  PROVE  LibraryInv'
  <1> DEFINE x == [voice[w] EXCEPT !.phase = t]
  <1>1. VoiceTypeOK /\ faults' \in 0..MaxFaults
    BY DEF LibraryInv, LibraryTypeOK, MediaTypeOK, mediaVars
  <1>2. x \in Speaker /\ x.on = voice[w].on /\ voice' = [voice EXCEPT ![w] = x]
    BY <1>1, TurnTypes DEF Speaker
  <1> HIDE DEF x
  <1>3. QED
    BY <1>1, <1>2, SpeakerMoves DEF mediaVars

LEMMA FoundMoves ==
  ASSUME LibraryInv, NEW w \in Makers, voice[w] \in Speaker, NEW b \in Makers \cup {None},
         Found(w, b), UNCHANGED <<mediaVars, audio, uploadVars>>,
         voice[w].on \notin swept => VoiceAgrees(w)'
  PROVE  LibraryInv'
  <1> DEFINE x == [voice[w] EXCEPT !.phase = "register", !.found = b]
  <1>1. VoiceTypeOK /\ faults' \in 0..MaxFaults
    BY DEF LibraryInv, LibraryTypeOK, MediaTypeOK, mediaVars
  <1>2. x \in Speaker /\ x.on = voice[w].on /\ voice' = [voice EXCEPT ![w] = x]
    BY <1>1, FoundTypes, ZenonT(40) DEF Speaker
  <1> HIDE DEF x
  <1>3. QED
    BY <1>1, <1>2, SpeakerMoves DEF mediaVars

LEMMA FindObjectKeeps ==
  ASSUME LibraryInv, UNCHANGED uploadVars, NEW w \in Makers, FindObject(w)
  PROVE  LibraryInv'
  <1> DEFINE p == voice[w].on
  <1>1. VoiceTypeOK /\ voice[w] # Silent /\ faults' \in 0..MaxFaults
    BY DEF FindObject, Silent, mediaVars, LibraryInv, LibraryTypeOK, MediaTypeOK
  <1>2. CASE Stat(p)
    <2>1. Found(w, file[p]) /\ audio' = audio /\ UNCHANGED mediaVars
      BY <1>2 DEF FindObject
    <2>2. p \notin swept => VoiceAgrees(w)'
      BY <1>1, <1>2, <2>1, Speaks, FoundTypes, ZenonT(40) DEF PhraseAgrees, VoiceAgrees, Stat, mediaVars
    <2>3. QED
      BY <1>1, <2>1, <2>2, Speaks, FoundMoves
  <1>3. CASE ~Stat(p)
    <2>1. Turn(w, "write") /\ audio' = audio /\ UNCHANGED mediaVars
      BY <1>3 DEF FindObject
    <2>2. p \notin swept => VoiceAgrees(w)'
      BY <1>1, <2>1, Speaks, TurnTypes DEF VoiceAgrees
    <2>3. QED
      BY <1>1, <2>1, <2>2, Speaks, TurnMoves
  <1>4. QED
    BY <1>2, <1>3

LEMMA StatBeforePutKeeps ==
  ASSUME LibraryInv, UNCHANGED uploadVars, NEW w \in Makers,
         StatBeforePut(w) \/ VerifyObject(w)
  PROVE  LibraryInv'
  <1> DEFINE p == voice[w].on
  <1>1. /\ VoiceTypeOK /\ voice[w] # Silent /\ faults' \in 0..MaxFaults
        /\ UNCHANGED mediaVars
    BY DEF StatBeforePut, VerifyObject, Silent, mediaVars, LibraryInv, LibraryTypeOK, MediaTypeOK
  <1>2. CASE ReturnError(w)
    BY <1>1, <1>2, Speaks, SpeakerRests DEF mediaVars
  <1>3. CASE file[p] = w /\ Found(w, w) /\ audio' = audio
             /\ (Stat(p) \/ voice[w].phase = "verify")
    <2>1. p \notin swept => VoiceAgrees(w)'
      BY <1>1, <1>3, Speaks, FoundTypes DEF PhraseAgrees, VoiceAgrees, Stat, mediaVars
    <2>2. QED
      BY <1>1, <1>3, <2>1, Speaks, FoundMoves, SMTT(30)
  <1>4. ASSUME NEW t \in {"send", "undo"}, Turn(w, t), audio' = audio,
               t = "undo" => voice[w].phase = "verify"
        PROVE  LibraryInv'
    <2>1. voice[w].phase \in {"put", "verify"}
      BY DEF StatBeforePut, VerifyObject
    <2>2. p \notin swept => VoiceAgrees(w)'
      BY <1>1, <1>4, <2>1, Speaks, TurnTypes DEF VoiceAgrees, mediaVars
    <2>3. QED
      BY <1>1, <1>4, <2>2, Speaks, TurnMoves
  <1>5. CASE StatBeforePut(w)
    BY <1>2, <1>3, <1>4, <1>5 DEF StatBeforePut
  <1>6. CASE VerifyObject(w)
    BY <1>2, <1>3, <1>4, <1>6 DEF VerifyObject
  <1>7. QED
    BY <1>5, <1>6

LEMMA LoseAudioKeeps ==
  ASSUME LibraryInv, UNCHANGED uploadVars, NEW w \in Makers,
         LoseAudio(w) \/ StopSpeaking(w) \/ FailAudio(w)
  PROVE  LibraryInv'
  <1>1. /\ VoiceTypeOK /\ voice[w] # Silent /\ faults' \in 0..MaxFaults
        /\ UNCHANGED <<driver, asset, file, meta, del, eraser, swept>>
    BY MediaAssumption
       DEF LoseAudio, StopSpeaking, FailAudio, Silent, Fault, mediaVars, LibraryInv,
           LibraryTypeOK, MediaTypeOK
  <1>2. CASE LoseAudio(w)
    <2> DEFINE x == [voice[w] EXCEPT !.holds = FALSE]
    <2>1. x \in Speaker /\ x.on = voice[w].on
      BY <1>1, Speaks DEF Speaker
    <2>2. /\ voice' = [voice EXCEPT ![w] = x] /\ voice'[w] = x
          /\ x.phase = voice[w].phase /\ x.found = voice[w].found
      BY <1>1, <1>2, Speaks DEF LoseAudio, VoiceTypeOK, Speaker
    <2> HIDE DEF x
    <2>3. voice[w].on \notin swept => VoiceAgrees(w)'
      BY <1>1, <2>1, <2>2, Speaks, VoiceGoesOn DEF SameAsset
    <2>4. QED
      BY <1>1, <1>2, <2>1, <2>2, <2>3, Speaks, SpeakerMoves DEF LoseAudio
  <1>3. CASE StopSpeaking(w) \/ FailAudio(w)
    BY <1>1, <1>3, Speaks, SpeakerRests DEF StopSpeaking, FailAudio
  <1>4. QED
    BY <1>2, <1>3

LEMMA RetentionKeeps ==
  ASSUME LibraryInv, UNCHANGED <<uploadVars, voiceVars>>, NEW p \in Phrases, RetentionEnds(p)
  PROVE  LibraryInv'
  <1>1. /\ asset' \in [Assets -> AssetRow] /\ asset'[p].state = asset[p].state
        /\ asset'[p].sum = asset[p].sum /\ asset'[p].attached = asset[p].attached
        /\ \A a \in Assets \ {p} : asset'[a] = asset[a]
    <2>1. p \in Assets /\ asset[p] \in AssetRow /\ asset \in [Assets -> AssetRow]
      BY Apart DEF LibraryInv, LibraryTypeOK, MediaTypeOK
    <2>2. QED
      BY <2>1 DEF RetentionEnds, AssetRow
  <1>2. MediaTypeOK' /\ VoiceTypeOK'
    BY <1>1 DEF RetentionEnds, LibraryInv, LibraryTypeOK, MediaTypeOK, VoiceTypeOK, voiceVars
  <1>3. p \notin swept => PhraseAgrees(p)'
    BY <1>1 DEF RetentionEnds, LibraryInv, VoiceInv, PhraseAgrees, Stat, voiceVars
  <1>4. \A w \in Makers : voice[w].on = p /\ p \notin swept => VoiceAgrees(w)'
    BY <1>1 DEF RetentionEnds, LibraryInv, VoiceInv, VoiceAgrees, Stat, voiceVars
  <1>5. QED
    BY <1>1, <1>2, <1>3, <1>4, PhraseStep
       DEF RetentionEnds, SameAsset, LibraryInv, VoiceInv, voiceVars

LEMMA RemoveAudioKeeps ==
  ASSUME LibraryInv, UNCHANGED uploadVars, NEW p \in Phrases, RemoveAudio(p)
  PROVE  LibraryInv'
  <1>0. VoiceTypeOK /\ MediaTypeOK
    BY DEF LibraryInv, LibraryTypeOK
  <1>1. /\ asset' \in [Assets -> AssetRow] /\ asset'[p].state = asset[p].state
        /\ asset'[p].sum = asset[p].sum
        /\ \A a \in Assets \ {p} : asset'[a] = asset[a]
    <2>1. p \in Assets /\ asset[p] \in AssetRow /\ asset \in [Assets -> AssetRow]
      BY <1>0, Apart DEF MediaTypeOK
    <2>2. QED
      BY <2>1 DEF RemoveAudio, AssetRow
  <1>2. NoJob("gone") \in AudioRow /\ NoJob("gone").status = "gone"
    BY GeneratedAssumption DEF NoJob, AudioRow
  <1>3. Dropped(p) \in [Makers -> Speaker \cup {Silent}]
    BY <1>0, DroppedType DEF Dropped
  <1>4. /\ VoiceTypeOK' /\ audio'[p].status = "gone"
        /\ \A q \in Phrases \ {p} : audio'[q] = audio[q]
    BY <1>0, <1>2, <1>3 DEF RemoveAudio, VoiceTypeOK
  <1>5. MediaTypeOK'
    BY <1>0, <1>1 DEF RemoveAudio, MediaTypeOK
  <1>6. p \notin swept => PhraseAgrees(p)'
    <2>1. p \notin swept => PhraseAgrees(p)
      BY DEF LibraryInv, VoiceInv
    <2>2. UNCHANGED <<driver, file, meta>>
      BY DEF RemoveAudio
    <2>3. QED
      BY <1>1, <1>4, <2>1, <2>2 DEF PhraseAgrees, Stat
  <1>7. ASSUME NEW w \in Makers, p \notin swept, voice'[w].on = p
        PROVE  VoiceAgrees(w)'
    <2>1. /\ voice'[w].phase = voice[w].phase /\ voice'[w].on = voice[w].on
          /\ voice'[w].found = voice[w].found
      BY <1>0, DroppedType DEF RemoveAudio
    <2>2. VoiceAgrees(w) /\ voice[w].on = p
      BY <1>7, <2>1 DEF LibraryInv, VoiceInv
    <2>3. UNCHANGED <<driver, file, meta>> /\ asset'[p].state = asset[p].state
      BY <1>1 DEF RemoveAudio
    <2>4. QED
      BY <1>7, <2>1, <2>2, <2>3 DEF VoiceAgrees, Stat
  <1>8. \A w \in Makers : voice'[w].on # p => voice'[w] \in {voice[w], Silent}
    BY <1>0, DroppedType DEF RemoveAudio
  <1>9. QED
    BY <1>1, <1>4, <1>5, <1>6, <1>7, <1>8, PhraseStep
       DEF RemoveAudio, SameAsset, LibraryInv, VoiceInv

\* A step of one worker that changes what is known of its phrase.
LEMMA WorkerStep ==
  ASSUME LibraryInv, NEW w \in Makers, voice[w] \in Speaker, NEW p, p = voice[w].on,
         UNCHANGED <<driver, del, eraser, swept, uploadVars>>,
         \A a \in Assets \ {p} : SameAsset(a),
         MediaTypeOK', VoiceTypeOK', file'[p] \in Makers \cup {None},
         \A q \in Phrases \ {p} : audio'[q] = audio[q],
         \A v \in Makers \ {w} : voice'[v] = voice[v],
         voice'[w] = Silent \/ voice'[w].on = p,
         p \notin swept =>
           /\ PhraseAgrees(p)'
           /\ voice'[w] = Silent \/ VoiceAgrees(w)'
           /\ \A v \in Makers \ {w} : voice[v].on = p => VoiceAgrees(v)'
  PROVE  LibraryInv'
  <1>1. p \in Phrases
    BY Speaks DEF Speaker
  <1>2. \A v \in Makers : voice'[v].on = p /\ p \notin swept => VoiceAgrees(v)'
    BY SilentAgrees
  <1>3. \A v \in Makers : voice'[v].on # p => voice'[v] \in {voice[v], Silent}
    OBVIOUS
  <1>4. QED
    BY <1>1, <1>2, <1>3, PhraseStep

LEMMA TurnOn ==
  ASSUME VoiceTypeOK, NEW w \in Makers, voice[w] \in Speaker,
         NEW t \in {"write", "put", "send", "describe", "verify", "undo", "complete"}, Turn(w, t)
  PROVE  /\ voice' \in [Makers -> Speaker \cup {Silent}]
         /\ voice'[w].phase = t /\ voice'[w].on = voice[w].on
         /\ \A v \in Makers \ {w} : voice'[v] = voice[v]
  BY TurnTypes, ZenonT(40) DEF VoiceTypeOK

LEMMA FoundOn ==
  ASSUME VoiceTypeOK, NEW w \in Makers, voice[w] \in Speaker, NEW b \in Makers \cup {None},
         Found(w, b)
  PROVE  /\ voice' \in [Makers -> Speaker \cup {Silent}]
         /\ voice'[w].phase = "register" /\ voice'[w].on = voice[w].on
         /\ voice'[w].found = b
         /\ \A v \in Makers \ {w} : voice'[v] = voice[v]
  BY FoundTypes, ZenonT(40) DEF VoiceTypeOK

LEMMA ReserveGeneratedKeeps ==
  ASSUME LibraryInv, UNCHANGED uploadVars, NEW w \in Makers, ReserveGenerated(w)
  PROVE  LibraryInv'
  <1> SUFFICES ASSUME NEW p, p = voice[w].on PROVE LibraryInv'
    OBVIOUS
  <1>1. /\ VoiceTypeOK /\ MediaTypeOK /\ voice[w] # Silent
        /\ UNCHANGED <<driver, file, meta, del, eraser, swept, faults>>
    BY DEF ReserveGenerated, Silent, LibraryInv, LibraryTypeOK
  <1>2. CASE ~Reservable(p)
    <2>1. ReturnError(w) /\ asset' = asset
      BY <1>2 DEF ReserveGenerated
    <2>2. faults' \in 0..MaxFaults
      BY <1>1 DEF MediaTypeOK
    <2>3. QED
      BY <1>1, <2>1, <2>2, Speaks, SpeakerRests
  <1>3. CASE Reservable(p)
    <2>1. asset' = Reserved(p, w) /\ Turn(w, "put") /\ audio' = audio
      BY <1>3 DEF ReserveGenerated
    <2>2. /\ voice[w] \in Speaker /\ p \in Assets /\ w \in Bytes /\ p \in Phrases
          /\ asset \in [Assets -> AssetRow] /\ asset[p] \in AssetRow
      BY <1>1, Speaks DEF MediaTypeOK
    <2>3. NewAsset("failed", w) \in AssetRow /\ NewAsset("failed", w).state = "failed"
      BY <2>2 DEF NewAsset, AssetRow, AssetStates
    <2>4. /\ asset' \in [Assets -> AssetRow] /\ asset'[p].state = "failed"
          /\ \A a \in Assets \ {p} : asset'[a] = asset[a]
      BY <1>3, <2>1, <2>2, <2>3 DEF Reserved, Reservable, AssetRow
    <2>5. /\ voice' \in [Makers -> Speaker \cup {Silent}]
          /\ voice'[w].phase = "put" /\ voice'[w].on = p
          /\ \A v \in Makers \ {w} : voice'[v] = voice[v]
      BY <1>1, <2>1, <2>2, TurnOn
    <2>6. MediaTypeOK' /\ VoiceTypeOK'
      BY <1>1, <2>1, <2>4, <2>5 DEF MediaTypeOK, VoiceTypeOK
    <2>7. p \notin swept => PhraseAgrees(p)'
      BY <1>1, <1>3, <2>1, <2>4, Speaks DEF PhraseAgrees, Stat, Reservable
    <2>8. VoiceAgrees(w)'
      BY <2>4, <2>5 DEF VoiceAgrees
    <2>9. \A v \in Makers \ {w} : p \notin swept /\ voice[v].on = p => VoiceAgrees(v)'
      BY <1>1, <2>4, <2>5 DEF LibraryInv, VoiceInv, VoiceAgrees, Stat
    <2>10. file'[p] \in Makers \cup {None}
      BY <1>1, Speaks
    <2>11. \A a \in Assets \ {p} : SameAsset(a)
      BY <1>1, <2>4 DEF SameAsset
    <2>12. QED
      BY <1>1, <2>1, <2>2, <2>5, <2>6, <2>7, <2>8, <2>9, <2>10, <2>11, WorkerStep
  <1>4. QED
    BY <1>2, <1>3

LEMMA LinkObjectKeeps ==
  ASSUME LibraryInv, UNCHANGED uploadVars, NEW w \in Makers, LinkObject(w)
  PROVE  LibraryInv'
  <1> SUFFICES ASSUME NEW p, p = voice[w].on PROVE LibraryInv'
    OBVIOUS
  <1>1. /\ VoiceTypeOK /\ MediaTypeOK /\ voice[w] # Silent /\ driver = "local"
        /\ UNCHANGED <<driver, asset, meta, del, eraser, swept, faults>>
        /\ faults' \in 0..MaxFaults
    BY DEF LinkObject, Silent, LibraryInv, LibraryTypeOK, MediaTypeOK
  <1>2. CASE file' = file /\ ReturnError(w)
    BY <1>1, <1>2, Speaks, SpeakerRests
  <1>3. CASE Stat(p) /\ file[p] = w /\ Found(w, w) /\ UNCHANGED <<file, audio>>
    <2>1. p \notin swept => VoiceAgrees(w)'
      BY <1>1, <1>3, Speaks, FoundTypes DEF PhraseAgrees, VoiceAgrees, Stat
    <2>2. QED
      BY <1>1, <1>3, <2>1, Speaks, FoundMoves, SMTT(30) DEF mediaVars
  <1>4. CASE /\ file[p] = None /\ file' = [file EXCEPT ![p] = w]
             /\ Turn(w, "describe") /\ audio' = audio
    <2>2. /\ voice[w] \in Speaker /\ p \in Assets /\ w \in Bytes /\ w # None /\ p \in Phrases
      BY <1>1, Speaks
    <2>3. /\ file' \in [Assets -> Bytes \cup {None}] /\ file'[p] = w
          /\ \A a \in Assets \ {p} : file'[a] = file[a]
      BY <1>1, <1>4, <2>2 DEF MediaTypeOK
    <2>4. /\ voice' \in [Makers -> Speaker \cup {Silent}]
          /\ voice'[w].phase = "describe" /\ voice'[w].on = p
          /\ \A v \in Makers \ {w} : voice'[v] = voice[v]
      BY <1>1, <1>4, <2>2, TurnOn
    <2>5. MediaTypeOK' /\ VoiceTypeOK'
      BY <1>1, <1>4, <2>3, <2>4 DEF MediaTypeOK, VoiceTypeOK
    <2>6. p \notin swept => meta[p] = None /\ asset[p].state \in {"failed"}
      BY <1>1, <1>4, <2>2, Speaks DEF LinkObject, PhraseAgrees, VoiceAgrees, Stat
    <2>7. p \notin swept => PhraseAgrees(p)' /\ VoiceAgrees(w)'
      BY <1>1, <1>4, <2>3, <2>4, <2>6, Speaks DEF PhraseAgrees, VoiceAgrees, Stat
    <2>8. \A v \in Makers \ {w} : p \notin swept /\ voice[v].on = p => VoiceAgrees(v)'
      <3> SUFFICES ASSUME NEW v \in Makers \ {w}, p \notin swept, voice[v].on = p
                   PROVE  VoiceAgrees(v)'
        OBVIOUS
      <3>1. VoiceAgrees(v) /\ v # None
        BY <2>2, Apart DEF LibraryInv, VoiceInv
      <3>2. voice[v].phase # "describe" /\ voice[v].phase # "register"
        BY <1>1, <1>4, <3>1 DEF VoiceAgrees, Stat
      <3>3. QED
        BY <1>1, <2>4, <2>6, <3>1, <3>2 DEF VoiceAgrees
    <2>9. \A a \in Assets \ {p} : SameAsset(a)
      BY <1>1, <2>3 DEF SameAsset
    <2>10. QED
      BY <1>1, <1>4, <2>2, <2>3, <2>4, <2>5, <2>7, <2>8, <2>9, WorkerStep
  <1>5. QED
    BY <1>2, <1>3, <1>4 DEF LinkObject

LEMMA ErrorOn ==
  ASSUME LibraryInv, NEW w \in Makers, voice[w] \in Speaker, ReturnError(w)
  PROVE  /\ VoiceTypeOK' /\ voice'[w] = Silent
         /\ \A v \in Makers \ {w} : voice'[v] = voice[v]
         /\ \A q \in Phrases \ {voice[w].on} : audio'[q] = audio[q]
         /\ audio'[voice[w].on].status = "ready" => audio[voice[w].on].status = "ready"
  BY ReturnErrorType DEF LibraryInv, LibraryTypeOK

LEMMA DescribeGeneratedKeeps ==
  ASSUME LibraryInv, UNCHANGED uploadVars, NEW w \in Makers, DescribeGenerated(w)
  PROVE  LibraryInv'
  <1> SUFFICES ASSUME NEW p, p = voice[w].on PROVE LibraryInv'
    OBVIOUS
  <1>1. /\ VoiceTypeOK /\ MediaTypeOK /\ voice[w] # Silent
        /\ UNCHANGED <<driver, asset, del, eraser, swept>> /\ faults' \in 0..MaxFaults
    BY MediaAssumption
       DEF DescribeGenerated, Silent, Fault, LibraryInv, LibraryTypeOK, MediaTypeOK
  <1>2. /\ voice[w] \in Speaker /\ p \in Assets /\ p \in Phrases
        /\ w \in Bytes /\ w # None /\ file[p] \in Makers \cup {None}
        /\ p \notin swept => PhraseAgrees(p) /\ VoiceAgrees(w)
    BY <1>1, Speaks
  <1>3. p \notin swept =>
          /\ asset[p].state \in {"absent", "failed", "ready"} /\ asset[p].state # "absent"
          /\ driver = "local" =>
               /\ file[p] = w /\ meta[p] = None /\ asset[p].state = "failed"
               /\ audio[p].status # "ready"
    BY <1>1, <1>2 DEF DescribeGenerated, PhraseAgrees, VoiceAgrees, Stat
  <1>4. ASSUME NEW v \in Makers \ {w}, p \notin swept, voice[v].on = p, voice'[v] = voice[v]
        PROVE  VoiceAgrees(v)'
    <2>1. VoiceAgrees(v)
      BY <1>4 DEF LibraryInv, VoiceInv
    <2>2. driver = "local" => voice[v].phase # "describe" /\ voice[v].phase # "register"
      BY <1>2, <1>3, <1>4, <2>1 DEF VoiceAgrees, Stat
    <2>3. QED
      BY <1>1, <1>4, <2>1, <2>2 DEF VoiceAgrees
  <1>5. CASE meta' = [meta EXCEPT ![p] = w] /\ Found(w, w) /\ UNCHANGED <<file, audio, faults>>
    <2>1. /\ meta' \in [Assets -> Bytes \cup {None}] /\ meta'[p] = w
          /\ \A a \in Assets \ {p} : meta'[a] = meta[a]
      BY <1>1, <1>2, <1>5 DEF MediaTypeOK
    <2>2. /\ voice' \in [Makers -> Speaker \cup {Silent}] /\ voice'[w].phase = "register"
          /\ voice'[w].on = p /\ voice'[w].found = w
          /\ \A v \in Makers \ {w} : voice'[v] = voice[v]
      BY <1>1, <1>2, <1>5, FoundOn
    <2>3. MediaTypeOK' /\ VoiceTypeOK'
      BY <1>1, <1>5, <2>1, <2>2 DEF MediaTypeOK, VoiceTypeOK
    <2>4. p \notin swept => PhraseAgrees(p)' /\ VoiceAgrees(w)'
      BY <1>1, <1>2, <1>3, <1>5, <2>1, <2>2 DEF PhraseAgrees, VoiceAgrees, Stat
    <2>5. \A a \in Assets \ {p} : SameAsset(a)
      BY <1>1, <1>5, <2>1 DEF SameAsset
    <2>6. file'[p] \in Makers \cup {None} /\ \A q \in Phrases : audio'[q] = audio[q]
      BY <1>2, <1>5
    <2>7. QED
      BY <1>1, <1>2, <1>4, <2>2, <2>3, <2>4, <2>5, <2>6, WorkerStep
  <1>6. CASE Fault /\ file' = [file EXCEPT ![p] = None] /\ ReturnError(w) /\ meta' = meta
    <2>1. /\ file' \in [Assets -> Bytes \cup {None}] /\ file'[p] = None
          /\ \A a \in Assets \ {p} : file'[a] = file[a]
      BY <1>1, <1>2, <1>6 DEF MediaTypeOK
    <2>2. /\ VoiceTypeOK' /\ voice'[w] = Silent
          /\ \A v \in Makers \ {w} : voice'[v] = voice[v]
          /\ \A q \in Phrases \ {p} : audio'[q] = audio[q]
          /\ audio'[p].status = "ready" => audio[p].status = "ready"
      BY <1>2, <1>6, ErrorOn
    <2>3. MediaTypeOK'
      BY <1>1, <1>6, <2>1 DEF MediaTypeOK
    <2>4. p \notin swept => PhraseAgrees(p)'
      BY <1>1, <1>2, <1>3, <1>6, <2>1, <2>2 DEF PhraseAgrees, Stat
    <2>5. \A a \in Assets \ {p} : SameAsset(a)
      BY <1>1, <1>6, <2>1 DEF SameAsset
    <2>6. QED
      BY <1>1, <1>2, <1>4, <2>1, <2>2, <2>3, <2>4, <2>5, WorkerStep
  <1>7. QED
    BY <1>5, <1>6 DEF DescribeGenerated

\* The bucket takes what is sent, and gives it up.
LEMMA SendObjectKeeps ==
  ASSUME LibraryInv, UNCHANGED uploadVars, NEW w \in Makers, SendObject(w) \/ UndoObject(w)
  PROVE  LibraryInv'
  <1> SUFFICES ASSUME NEW p, p = voice[w].on PROVE LibraryInv'
    OBVIOUS
  <1>1. /\ VoiceTypeOK /\ MediaTypeOK /\ voice[w] # Silent
        /\ UNCHANGED <<driver, asset, del, eraser, swept, faults>>
    BY DEF SendObject, UndoObject, Silent, LibraryInv, LibraryTypeOK
  <1>2. /\ voice[w] \in Speaker /\ p \in Assets /\ p \in Phrases /\ w \in Bytes
        /\ p \notin swept => PhraseAgrees(p) /\ VoiceAgrees(w)
    BY <1>1, Speaks
  <1>3. /\ file' \in [Assets -> Bytes \cup {None}] /\ file'[p] \in {w, None}
        /\ meta' \in [Assets -> Bytes \cup {None}]
        /\ \A a \in Assets \ {p} : file'[a] = file[a] /\ meta'[a] = meta[a]
    BY <1>1, <1>2 DEF SendObject, UndoObject, MediaTypeOK
  <1>4. /\ VoiceTypeOK' /\ \A v \in Makers \ {w} : voice'[v] = voice[v]
        /\ \A q \in Phrases \ {p} : audio'[q] = audio[q]
        /\ voice'[w] = Silent \/ (voice'[w].on = p /\ voice'[w].phase = "verify")
    <2>1. CASE SendObject(w)
      BY <1>1, <1>2, <2>1, TurnOn DEF SendObject, VoiceTypeOK
    <2>2. CASE UndoObject(w)
      BY <1>2, <2>2, ErrorOn DEF UndoObject
    <2>3. QED
      BY <2>1, <2>2
  <1>5. MediaTypeOK'
    BY <1>1, <1>3 DEF MediaTypeOK
  <1>6. p \notin swept => driver = "s3" /\ asset[p].state \in {"failed", "ready"}
    BY <1>1, <1>2 DEF SendObject, UndoObject, PhraseAgrees, VoiceAgrees, MediaTypeOK
  <1>7. p \notin swept =>
          /\ PhraseAgrees(p)' /\ (voice'[w] = Silent \/ VoiceAgrees(w)')
          /\ \A v \in Makers \ {w} : voice[v].on = p => VoiceAgrees(v)'
    BY <1>1, <1>4, <1>6 DEF PhraseAgrees, VoiceAgrees
  <1>8. \A a \in Assets \ {p} : SameAsset(a)
    BY <1>1, <1>3 DEF SameAsset
  <1>9. QED
    BY <1>1, <1>2, <1>3, <1>4, <1>5, <1>7, <1>8, WorkerStep

LEMMA RegisterGeneratedKeeps ==
  ASSUME LibraryInv, UNCHANGED uploadVars, NEW w \in Makers, RegisterGenerated(w)
  PROVE  LibraryInv'
  <1> SUFFICES ASSUME NEW p, p = voice[w].on PROVE LibraryInv'
    OBVIOUS
  <1> DEFINE b == voice[w].found
  <1>1. /\ VoiceTypeOK /\ MediaTypeOK /\ voice[w] # Silent
        /\ UNCHANGED <<driver, file, meta, del, eraser, swept, faults>>
        /\ faults' \in 0..MaxFaults
    BY DEF RegisterGenerated, Silent, LibraryInv, LibraryTypeOK, MediaTypeOK
  <1>2. /\ voice[w] \in Speaker /\ p \in Assets /\ p \in Phrases
        /\ file[p] \in Makers \cup {None} /\ b \in Bytes \cup {None}
        /\ p \notin swept => PhraseAgrees(p) /\ VoiceAgrees(w)
        /\ asset \in [Assets -> AssetRow] /\ asset[p] \in AssetRow
    BY <1>1, Speaks DEF Speaker, Bytes, MediaTypeOK
  <1>3. CASE ~Registrable(p, b)
    BY <1>1, <1>2, <1>3, SpeakerRests DEF RegisterGenerated
  <1>4. CASE Registrable(p, b)
    <2>1. /\ Turn(w, "complete") /\ audio' = audio
          /\ asset' = IF asset[p].state = "absent" THEN [asset EXCEPT ![p] = NewAsset("ready", b)]
                      ELSE [asset EXCEPT ![p].state = "ready", ![p].sum = b]
      BY <1>4 DEF RegisterGenerated
    <2> HIDE DEF b
    <2>2. NewAsset("ready", b) \in AssetRow
      BY <1>2 DEF NewAsset, AssetRow, AssetStates
    <2>3. /\ asset' \in [Assets -> AssetRow] /\ asset'[p].state = "ready" /\ asset'[p].sum = b
          /\ asset[p].state = "ready" => asset'[p].attached = asset[p].attached
          /\ \A a \in Assets \ {p} : asset'[a] = asset[a]
      BY <1>2, <2>1, <2>2 DEF NewAsset, AssetRow, AssetStates
    <2>4. /\ voice' \in [Makers -> Speaker \cup {Silent}] /\ voice'[w].phase = "complete"
          /\ voice'[w].on = p /\ \A v \in Makers \ {w} : voice'[v] = voice[v]
      BY <1>1, <1>2, <2>1, TurnOn
    <2>5. MediaTypeOK' /\ VoiceTypeOK'
      BY <1>1, <2>1, <2>3, <2>4 DEF MediaTypeOK, VoiceTypeOK
    <2>6. p \notin swept /\ driver = "local" => Stat(p) /\ b = file[p]
      BY <1>2, SMTT(30) DEF RegisterGenerated, VoiceAgrees, b
    <2>7. p \notin swept => PhraseAgrees(p)' /\ VoiceAgrees(w)'
      BY <1>1, <1>2, <2>1, <2>3, <2>4, <2>6 DEF PhraseAgrees, VoiceAgrees, Stat
    <2>8. \A v \in Makers \ {w} : p \notin swept /\ voice[v].on = p => VoiceAgrees(v)'
      BY <1>1, <2>3, <2>4 DEF LibraryInv, VoiceInv, VoiceAgrees, Stat
    <2>9. \A a \in Assets \ {p} : SameAsset(a)
      BY <1>1, <2>3 DEF SameAsset
    <2>10. QED
      BY <1>1, <1>2, <2>1, <2>4, <2>5, <2>7, <2>8, <2>9, WorkerStep
  <1>5. QED
    BY <1>3, <1>4

LEMMA CompleteAudioKeeps ==
  ASSUME LibraryInv, UNCHANGED uploadVars, NEW w \in Makers, CompleteAudio(w)
  PROVE  LibraryInv'
  <1> SUFFICES ASSUME NEW p, p = voice[w].on PROVE LibraryInv'
    OBVIOUS
  <1>1. /\ VoiceTypeOK /\ MediaTypeOK /\ voice[w] # Silent
        /\ UNCHANGED <<driver, file, meta, del, eraser, swept, faults>>
        /\ faults' \in 0..MaxFaults
    BY DEF CompleteAudio, Silent, LibraryInv, LibraryTypeOK, MediaTypeOK
  <1>2. /\ voice[w] \in Speaker /\ p \in Assets /\ p \in Phrases
        /\ file[p] \in Makers \cup {None}
        /\ p \notin swept => PhraseAgrees(p) /\ VoiceAgrees(w)
        /\ asset \in [Assets -> AssetRow] /\ asset[p] \in AssetRow
    BY <1>1, Speaks DEF MediaTypeOK
  <1>3. CASE ~(Publishable(w) /\ asset[p].state = "ready")
    BY <1>1, <1>2, <1>3, SpeakerRests DEF CompleteAudio
  <1>4. CASE Publishable(w) /\ asset[p].state = "ready"
    <2>1. /\ asset' = [asset EXCEPT ![p].attached = TRUE, ![p].due = FALSE]
          /\ audio' = [audio EXCEPT ![p] = NoJob("ready")] /\ Rest(w)
      BY <1>4 DEF CompleteAudio
    <2>2. /\ asset' \in [Assets -> AssetRow] /\ asset'[p].state = "ready"
          /\ asset'[p].sum = asset[p].sum /\ asset'[p].attached
          /\ \A a \in Assets \ {p} : asset'[a] = asset[a]
      BY <1>2, <1>4, <2>1 DEF AssetRow
    <2>3. NoJob("ready") \in AudioRow
      BY GeneratedAssumption DEF NoJob, AudioRow
    <2>4. /\ VoiceTypeOK' /\ voice'[w] = Silent
          /\ \A v \in Makers \ {w} : voice'[v] = voice[v]
          /\ \A q \in Phrases \ {p} : audio'[q] = audio[q]
      BY <1>1, <1>2, <2>1, <2>3 DEF Rest, VoiceTypeOK
    <2>5. MediaTypeOK'
      BY <1>1, <2>2 DEF MediaTypeOK
    <2>6. p \notin swept => PhraseAgrees(p)'
      BY <1>1, <1>2, <1>4, <2>2 DEF PhraseAgrees, Stat
    <2>7. \A v \in Makers \ {w} : p \notin swept /\ voice[v].on = p => VoiceAgrees(v)'
      BY <1>1, <1>4, <2>2, <2>4 DEF LibraryInv, VoiceInv, VoiceAgrees, Stat
    <2>8. \A a \in Assets \ {p} : SameAsset(a)
      BY <1>1, <2>2 DEF SameAsset
    <2>9. QED
      BY <1>1, <1>2, <2>4, <2>5, <2>6, <2>7, <2>8, WorkerStep
  <1>5. QED
    BY <1>3, <1>4

LEMMA VoiceKeeps ==
  ASSUME LibraryInv, VoiceNext, UNCHANGED uploadVars
  PROVE  LibraryInv'
  <1>1. CASE \E p \in Phrases :
               \/ ScheduleAudio(p) \/ RemoveAudio(p)
               \/ RetentionEnds(p) /\ UNCHANGED voiceVars
               \/ \E w \in Makers : ClaimAudio(w, p)
    BY <1>1, ScheduleAudioKeeps, RemoveAudioKeeps, RetentionKeeps, ClaimAudioKeeps
  <1>2. CASE \E w \in Makers :
               SpeakStep(w) \/ LoseAudio(w) \/ StopSpeaking(w) \/ FailAudio(w)
    BY <1>2, FindObjectKeeps, ReserveGeneratedKeeps, StatBeforePutKeeps, LinkObjectKeeps,
       DescribeGeneratedKeeps, SendObjectKeeps, RegisterGeneratedKeeps, CompleteAudioKeeps,
       LoseAudioKeeps
       DEF SpeakStep
  <1>3. QED
    BY <1>1, <1>2 DEF VoiceNext

-----------------------------------------------------------------------------
(* Uploads *)

LEMMA FreeAgrees ==
  ASSUME NEW r \in Requests, request'[r] = Free
  PROVE  RequestAgrees(r)'
  BY DEF RequestAgrees, Free, Phase

\* A step that concerns one upload.
LEMMA UploadStep ==
  ASSUME LibraryInv, UNCHANGED <<driver, del, eraser, swept, voiceVars>>,
         NEW u \in Uploads, \A a \in Assets \ {u} : SameAsset(a),
         MediaTypeOK', UploadTypeOK', \A v \in Uploads \ {u} : upload'[v] = upload[v],
         UploadAgrees(u)', TurnBudget',
         \A r \in Requests : request'[r].on = u => RequestAgrees(r)',
         \A r \in Requests : request'[r].on # u => request'[r] \in {request[r], Free}
  PROVE  LibraryInv'
  <1>1. CleanupInv'
    BY DEF LibraryInv, CleanupInv, Works
  <1>2. VoiceInv'
    BY VoicesStay, Apart DEF LibraryInv, LibraryTypeOK, voiceVars
  <1>3. \A v \in Uploads : UploadAgrees(v)'
    BY SameUpload, Apart DEF LibraryInv, UploadInv
  <1>4. ASSUME NEW r \in Requests, request'[r].on # u
        PROVE  RequestAgrees(r)'
    <2>1. CASE request'[r] = Free
      BY <2>1, FreeAgrees
    <2>2. CASE request'[r] = request[r] /\ request[r] # Free
      <3> DEFINE v == request[r].on
      <3>1. /\ v \in Uploads /\ v # u /\ v # None /\ SameAsset(v) /\ upload'[v] = upload[v]
            /\ RequestAgrees(r)
        BY <1>4, <2>2, Working, Apart DEF LibraryInv, LibraryTypeOK, UploadInv
      <3>2. \A s \in Requests : request'[s].on = v => request'[s] = request[s]
        BY <3>1 DEF Free
      <3>3. QED
        BY <2>2, <3>1, <3>2 DEF RequestAgrees, Phase, Wanted, Stored, SameAsset
    <2>3. QED
      BY <1>4, <2>1, <2>2
  <1>5. IsFiniteSet({v \in Uploads : upload'[v].state # "absent"})
    <2> DEFINE S == {v \in Uploads : upload[v].state # "absent"}
               T == {v \in Uploads : upload'[v].state # "absent"}
    <2>1. IsFiniteSet(S \cup {u})
      BY FS_AddElement DEF LibraryInv, UploadInv
    <2>2. T \in SUBSET (S \cup {u})
      OBVIOUS
    <2>3. QED
      BY <2>1, <2>2, FS_Subset
  <1>6. UploadInv'
    BY <1>3, <1>4, <1>5 DEF UploadInv
  <1>7. QED
    BY <1>1, <1>2, <1>6 DEF LibraryInv, LibraryTypeOK, VoiceTypeOK, voiceVars

\* A step of one request that changes no row and no object.
LEMMA RequestMoves ==
  ASSUME LibraryInv, NEW r \in Requests, NEW x \in Request \cup {Free},
         UNCHANGED <<driver, asset, file, meta, del, eraser, swept, upload, voiceVars>>,
         faults' \in 0..MaxFaults, session' \in BOOLEAN,
         parts' \in [Uploads -> {None, "open", "full"}],
         request' = [request EXCEPT ![r] = x], x.phase \notin {"insert", "describe"},
         RequestAgrees(r)'
  PROVE  LibraryInv'
  <1>1. MediaTypeOK' /\ VoiceTypeOK' /\ CleanupInv'
    BY DEF LibraryInv, LibraryTypeOK, MediaTypeOK, VoiceTypeOK, CleanupInv, Works, voiceVars
  <1>2. VoiceInv'
    BY VoicesStay DEF LibraryInv, LibraryTypeOK, voiceVars, SameAsset
  <1>3. /\ request' \in [Requests -> Request \cup {Free}] /\ request'[r] = x
        /\ \A s \in Requests \ {r} : request'[s] = request[s]
    BY DEF LibraryInv, LibraryTypeOK, UploadTypeOK
  <1>4. UploadTypeOK'
    BY <1>3 DEF LibraryInv, LibraryTypeOK, UploadTypeOK
  <1>5. \A u \in Uploads : UploadAgrees(u)'
    BY SameUpload DEF LibraryInv, UploadInv, SameAsset
  <1>6. ASSUME NEW s \in Requests \ {r} PROVE RequestAgrees(s)'
    <2>1. RequestAgrees(s) /\ request'[s] = request[s]
      BY <1>3 DEF LibraryInv, UploadInv
    <2>2. \A q \in Requests : request'[q].phase \in {"insert", "describe"} =>
            request'[q] = request[q]
      BY <1>3
    <2>3. QED
      BY <2>1, <2>2 DEF RequestAgrees, Phase, Wanted, Stored
  <1>7. TurnBudget'
    BY DEF LibraryInv, UploadInv, TurnBudget, TurnUploads
  <1>8. QED
    BY <1>1, <1>2, <1>4, <1>5, <1>6, <1>7 DEF LibraryInv, LibraryTypeOK, UploadInv

PartsType == parts \in [Uploads -> {None, "open", "full"}]

LEMMA GoTypes ==
  ASSUME UploadTypeOK, NEW r \in Requests, request[r] \in Request, NEW t \in Phases, Go(r, t)
  PROVE  /\ request' \in [Requests -> Request \cup {Free}]
         /\ [request[r] EXCEPT !.phase = t] \in Request
         /\ request' = [request EXCEPT ![r] = [request[r] EXCEPT !.phase = t]]
         /\ request'[r].phase = t /\ request'[r].on = request[r].on
         /\ \A s \in Requests \ {r} : request'[s] = request[s]
  BY DEF UploadTypeOK, Go, Request

LEMMA AnswerTypes ==
  ASSUME UploadTypeOK, NEW r \in Requests, Answer(r)
  PROVE  /\ request' \in [Requests -> Request \cup {Free}] /\ request'[r] = Free
         /\ \A s \in Requests \ {r} : request'[s] = request[s]
  BY DEF UploadTypeOK, Answer

\* A request comes to another of its steps, or is answered, or is taken up.
LEMMA GoMoves ==
  ASSUME LibraryInv, NEW r \in Requests, request[r] \in Request,
         UNCHANGED <<driver, asset, file, meta, del, eraser, swept, upload, session, voiceVars>>,
         faults' \in 0..MaxFaults, PartsType',
         NEW t \in Phases \ {"insert", "describe"}, Go(r, t), RequestAgrees(r)'
  PROVE  LibraryInv'
  <1> DEFINE x == [request[r] EXCEPT !.phase = t]
  <1>1. UploadTypeOK
    BY DEF LibraryInv, LibraryTypeOK
  <1>2. x \in Request /\ request' = [request EXCEPT ![r] = x] /\ x.phase = t
    BY <1>1, GoTypes DEF Request
  <1> HIDE DEF x
  <1>3. QED
    BY <1>1, <1>2, RequestMoves DEF PartsType, UploadTypeOK

LEMMA AnswerMoves ==
  ASSUME LibraryInv, NEW r \in Requests,
         UNCHANGED <<driver, asset, file, meta, del, eraser, swept, upload, session, voiceVars>>,
         faults' \in 0..MaxFaults, PartsType', Answer(r)
  PROVE  LibraryInv'
  <1>1. UploadTypeOK
    BY DEF LibraryInv, LibraryTypeOK
  <1>2. request' = [request EXCEPT ![r] = Free] /\ RequestAgrees(r)' /\ Free.phase = "free"
    BY <1>1, AnswerTypes, FreeAgrees DEF Answer, Free
  <1>3. QED
    BY <1>1, <1>2, RequestMoves DEF PartsType, UploadTypeOK

LEMMA TakeMoves ==
  ASSUME LibraryInv, NEW r \in Requests, NEW u \in Uploads,
         UNCHANGED <<mediaVars, upload, session, parts, voiceVars>>,
         NEW t \in Phases \ {"insert", "describe"},
         request' = [request EXCEPT ![r] = [phase |-> t, on |-> u, key |-> None]],
         RequestAgrees(r)'
  PROVE  LibraryInv'
  <1> DEFINE x == [phase |-> t, on |-> u, key |-> None]
  <1>1. x \in Request /\ x.phase = t
    BY DEF Request
  <1> HIDE DEF x
  <1>2. request' = [request EXCEPT ![r] = x]
    BY DEF x
  <1>3. QED
    BY <1>1, <1>2, RequestMoves
       DEF mediaVars, LibraryInv, LibraryTypeOK, MediaTypeOK, UploadTypeOK

\* What a request at work can rely on.
LEMMA AtWork ==
  ASSUME LibraryInv, NEW r \in Requests, request[r].phase # "free"
  PROVE  /\ request[r] \in Request /\ request[r].on \in Uploads /\ request[r].on \in Assets
         /\ RequestAgrees(r) /\ UploadAgrees(request[r].on)
         /\ UploadTypeOK /\ MediaTypeOK /\ PartsType /\ faults \in 0..MaxFaults
  BY Working, Apart
     DEF LibraryInv, LibraryTypeOK, UploadInv, UploadTypeOK, MediaTypeOK, PartsType, Free

LEMMA PartsMove ==
  ASSUME PartsType, NEW u \in Uploads,
         OpenParts(u) \/ FillParts(u) \/ DropParts(u) \/ parts' = parts
  PROVE  PartsType'
  BY DEF PartsType, OpenParts, FillParts, DropParts

\* Steps that neither write a row nor touch the object.
LEMMA DiscardUploadKeeps ==
  ASSUME LibraryInv, UNCHANGED voiceVars, NEW r \in Requests,
         DiscardUpload(r) \/ StoreParts(r)
  PROVE  LibraryInv'
  <1>1. request[r].phase # "free" /\ UNCHANGED <<mediaVars, session, upload>> /\ Answer(r)
    BY DEF DiscardUpload, StoreParts, Phase
  <1>2. PartsType'
    BY <1>1, AtWork, PartsMove DEF DiscardUpload, StoreParts
  <1>3. QED
    BY <1>1, <1>2, AtWork, AnswerMoves DEF mediaVars

LEMMA RequestDiesKeeps ==
  ASSUME LibraryInv, UNCHANGED voiceVars, NEW r \in Requests, RequestDies(r)
  PROVE  LibraryInv'
  <1>1. PartsType' /\ faults' \in 0..MaxFaults
    BY MediaAssumption
       DEF RequestDies, Fault, LibraryInv, LibraryTypeOK, UploadTypeOK, MediaTypeOK, PartsType
  <1>2. QED
    BY <1>1, AnswerMoves DEF RequestDies

LEMMA PutLocalPartKeeps ==
  ASSUME LibraryInv, UNCHANGED voiceVars, NEW r \in Requests, NEW u \in Uploads,
         PutLocalPart(r, u)
  PROVE  LibraryInv'
  <1>1. request' = [request EXCEPT ![r] = [phase |-> "store", on |-> u, key |-> None]]
    BY DEF PutLocalPart
  <1>2. request'[r].phase = "store"
    BY <1>1 DEF LibraryInv, LibraryTypeOK, UploadTypeOK
  <1>3. RequestAgrees(r)'
    BY <1>2 DEF RequestAgrees, Phase
  <1>4. "store" \in Phases \ {"insert", "describe"}
    BY DEF Phases
  <1>5. QED
    BY <1>1, <1>3, <1>4, TakeMoves DEF PutLocalPart

LEMMA PutSignedPartKeeps ==
  ASSUME LibraryInv, UNCHANGED voiceVars,
         SignOut \/ \E u \in Uploads : PutSignedPart(u)
  PROVE  LibraryInv'
  <1>1. /\ UNCHANGED <<mediaVars, upload, request>> /\ session' \in BOOLEAN
        /\ parts' \in [Uploads -> {None, "open", "full"}]
    BY DEF SignOut, PutSignedPart, FillParts, LibraryInv, LibraryTypeOK, UploadTypeOK
  <1>2. /\ MediaTypeOK' /\ VoiceTypeOK' /\ UploadTypeOK' /\ CleanupInv'
    BY <1>1 DEF LibraryInv, LibraryTypeOK, MediaTypeOK, VoiceTypeOK, UploadTypeOK, CleanupInv,
                Works, voiceVars, mediaVars
  <1>3. VoiceInv' /\ UploadInv'
    BY <1>1, VoicesStay, UploadsStay
       DEF LibraryInv, LibraryTypeOK, voiceVars, mediaVars, SameAsset
  <1>4. QED
    BY <1>2, <1>3 DEF LibraryInv, LibraryTypeOK

LEMMA CheckUploadKeeps ==
  ASSUME LibraryInv, UNCHANGED voiceVars, NEW r \in Requests,
         CheckUpload(r) \/ DropUploaded(r) \/ AbortMultipart(r)
  PROVE  LibraryInv'
  <1> SUFFICES ASSUME NEW u, u = request[r].on PROVE LibraryInv'
    OBVIOUS
  <1>1. /\ request[r].phase # "free"
        /\ UNCHANGED <<driver, asset, file, meta, del, eraser, swept, session, upload>>
        /\ parts' = parts \/ DropParts(u)
    BY DEF CheckUpload, DropUploaded, AbortMultipart, Phase, mediaVars
  <1>2. /\ request[r] \in Request /\ u \in Uploads /\ RequestAgrees(r) /\ UploadTypeOK
        /\ PartsType' /\ faults' \in 0..MaxFaults
    BY <1>1, AtWork, PartsMove, MediaAssumption
       DEF CheckUpload, DropUploaded, AbortMultipart, Fault, mediaVars
  <1>3. CASE Answer(r)
    BY <1>1, <1>2, <1>3, AnswerMoves
  <1>4. ASSUME NEW t \in {"erase", "mark", "aborted"}, Go(r, t),
               t = "erase" => Withdrawn(u),
               t = "mark" => Phase(r, "drop"),
               t = "aborted" => Phase(r, "abort")
        PROVE  LibraryInv'
    <2>1. t \in Phases \ {"insert", "describe"}
      BY DEF Phases
    <2>2. request'[r].phase = t /\ request'[r].on = u
      BY <1>2, <1>4, <2>1, GoTypes
    <2>3. RequestAgrees(r)'
      BY <1>1, <1>2, <1>4, <2>2 DEF RequestAgrees, Phase, Withdrawn, Wanted, Stored
    <2>4. QED
      BY <1>1, <1>2, <1>4, <2>1, <2>3, GoMoves
  <1>5. CASE CheckUpload(r)
    BY <1>3, <1>4, <1>5 DEF CheckUpload
  <1>6. CASE DropUploaded(r)
    BY <1>4, <1>6 DEF DropUploaded
  <1>7. CASE AbortMultipart(r)
    BY <1>3, <1>4, <1>7 DEF AbortMultipart
  <1>8. QED
    BY <1>5, <1>6, <1>7

\* A completion finds its object in the store, or goes on, or gives up.
LEMMA StoreAnswers ==
  ASSUME LibraryInv, NEW r \in Requests, NEW u, u = request[r].on,
         Phase(r, "load") \/ Phase(r, "publish"),
         UNCHANGED <<driver, asset, file, meta, del, eraser, swept, faults, upload, session,
                     voiceVars>>,
         parts' = parts \/ DropParts(u),
         \/ Answer(r)
         \/ Go(r, "publish") /\ driver = "local"
         \/ Go(r, "mark") /\ (Stat(u) \/ (driver = "s3" /\ file[u] = u))
  PROVE  LibraryInv'
  <1>1. request[r].phase # "free"
    BY DEF Phase
  <1>2. /\ request[r] \in Request /\ u \in Uploads /\ RequestAgrees(r) /\ UploadAgrees(u)
        /\ UploadTypeOK /\ PartsType' /\ faults' \in 0..MaxFaults
    BY <1>1, AtWork, PartsMove
  <1>3. CASE Answer(r)
    BY <1>1, <1>2, <1>3, AnswerMoves
  <1>4. CASE Go(r, "publish") /\ driver = "local"
    <2>1. request'[r].phase = "publish" /\ request'[r].on = u
      BY <1>2, <1>4, GoTypes DEF Phases
    <2>2. RequestAgrees(r)'
      BY <1>2, <1>4, <2>1 DEF RequestAgrees, Phase
    <2>3. QED
      BY <1>1, <1>2, <1>4, <2>2, GoMoves DEF Phases
  <1>5. CASE Go(r, "mark") /\ (Stat(u) \/ (driver = "s3" /\ file[u] = u))
    <2>1. request'[r].phase = "mark" /\ request'[r].on = u
      BY <1>2, <1>5, GoTypes DEF Phases
    <2>2. Wanted(u) => Stored(u)
      BY <1>2, <1>5 DEF UploadAgrees, Stat, Stored, Wanted
    <2>3. RequestAgrees(r)'
      BY <1>2, <2>1, <2>2 DEF RequestAgrees, Phase, Wanted, Stored
    <2>4. QED
      BY <1>1, <1>2, <1>5, <2>3, GoMoves DEF Phases
  <1>6. QED
    BY <1>3, <1>4, <1>5

LEMMA LoadPartsKeeps ==
  ASSUME LibraryInv, UNCHANGED voiceVars, NEW r \in Requests, LoadParts(r)
  PROVE  LibraryInv'
  <1> SUFFICES ASSUME NEW u, u = request[r].on PROVE LibraryInv'
    OBVIOUS
  <1>1. /\ Phase(r, "load") /\ driver = "local" /\ parts' = parts
        /\ UNCHANGED <<driver, asset, file, meta, del, eraser, swept, faults, upload, session>>
        /\ \/ Answer(r)
           \/ Go(r, "publish")
           \/ Go(r, "mark") /\ Stat(u)
    BY DEF LoadParts, mediaVars
  <1>2. QED
    BY <1>1, StoreAnswers

\* A step of one request on one upload.
LEMMA OneRequest ==
  ASSUME LibraryInv, NEW r \in Requests, NEW u \in Uploads,
         UNCHANGED <<driver, del, eraser, swept, voiceVars>>,
         \A a \in Assets \ {u} : SameAsset(a),
         MediaTypeOK', UploadTypeOK', \A v \in Uploads \ {u} : upload'[v] = upload[v],
         UploadAgrees(u)', TurnBudget',
         request'[r] = Free \/ (request'[r].on = u /\ RequestAgrees(r)'),
         \A s \in Requests \ {r} :
           request'[s] = request[s] /\ (request[s].on = u => RequestAgrees(s)')
  PROVE  LibraryInv'
  <1>1. \A s \in Requests : request'[s].on = u => RequestAgrees(s)'
    BY FreeAgrees
  <1>2. \A s \in Requests : request'[s].on # u => request'[s] \in {request[s], Free}
    OBVIOUS
  <1>3. QED
    BY <1>1, <1>2, UploadStep
\* A step that moves the rows of an upload and leaves its object alone.
LEMMA RowMoves ==
  ASSUME LibraryInv, NEW u \in Uploads,
         UNCHANGED <<driver, file, meta, del, eraser, swept, voiceVars>>,
         \A a \in Assets \ {u} : asset'[a] = asset[a], MediaTypeOK', UploadTypeOK',
         \A v \in Uploads \ {u} : upload'[v] = upload[v],
         UploadAgrees(u)', Counted' \subseteq Counted, Wanted(u)' => Wanted(u),
         upload[u].state = "absent" => upload'[u].state = "absent",
         upload[u].state \notin {"absent", "uploading"} =>
           upload'[u].state \notin {"absent", "uploading"},
         upload[u].state \in {"aborting", "aborted"} =>
           upload'[u].state \in {"aborting", "aborted"},
         \A s \in Requests :
           \/ request'[s] \in {request[s], Free}
           \/ /\ request'[s].phase \notin {"insert", "describe"} /\ request'[s].on = u
              /\ RequestAgrees(s)'
  PROVE  LibraryInv'
  <1>1. \A q \in Requests : request'[q].phase \in {"insert", "describe"} =>
          request'[q] = request[q]
    BY DEF Free
  <1>2. ASSUME NEW s \in Requests, request'[s] = request[s], request'[s].on = u
        PROVE  RequestAgrees(s)'
    <2>1. RequestAgrees(s)
      BY DEF LibraryInv, UploadInv
    <2>2. /\ Phase(s, "insert")' => Phase(s, "insert")
          /\ \A q \in Requests : Phase(q, "insert")' /\ request'[q].on = u =>
               Phase(q, "insert") /\ request[q].on = u
          /\ \A q \in Requests : Phase(q, "describe")' /\ request'[q].on = u =>
               Phase(q, "describe") /\ request[q].on = u
      BY <1>1 DEF Phase
    <2>3. QED
      BY <1>2, <2>1, <2>2 DEF RequestAgrees, Phase, Stored
  <1>3. \A s \in Requests : request'[s].on = u => RequestAgrees(s)'
    BY <1>2, FreeAgrees
  <1>4. \A s \in Requests : request'[s].on # u => request'[s] \in {request[s], Free}
    OBVIOUS
  <1>5. TurnBudget'
    BY BudgetShrinks DEF LibraryInv
  <1>6. \A a \in Assets \ {u} : SameAsset(a)
    BY DEF SameAsset
  <1>7. QED
    BY <1>3, <1>4, <1>5, <1>6, UploadStep

\* Only the rows of one upload are written.
LEMMA RowTypes ==
  ASSUME LibraryInv, NEW u \in Uploads,
         UNCHANGED <<driver, file, meta, del, eraser, swept>>, faults' \in 0..MaxFaults,
         NEW x \in AssetRow, asset' = [asset EXCEPT ![u] = x]
  PROVE  /\ MediaTypeOK' /\ asset'[u] = x
         /\ \A a \in Assets \ {u} : asset'[a] = asset[a]
  BY Apart DEF LibraryInv, LibraryTypeOK, MediaTypeOK

LEMMA UploadTypes ==
  ASSUME LibraryInv, NEW u \in Uploads, UNCHANGED <<session, parts>>,
         request' \in [Requests -> Request \cup {Free}],
         NEW y \in UploadRow, upload' = [upload EXCEPT ![u] = y]
  PROVE  /\ UploadTypeOK' /\ upload'[u] = y
         /\ \A v \in Uploads \ {u} : upload'[v] = upload[v]
  BY DEF LibraryInv, LibraryTypeOK, UploadTypeOK

LEMMA Rows ==
  ASSUME LibraryInv, NEW u \in Uploads
  PROVE  /\ u \in Assets /\ asset[u] \in AssetRow /\ upload[u] \in UploadRow
         /\ UploadAgrees(u) /\ asset \in [Assets -> AssetRow]
         /\ upload \in [Uploads -> UploadRow]
         /\ request \in [Requests -> Request \cup {Free}]
         /\ MediaTypeOK /\ UploadTypeOK /\ faults \in 0..MaxFaults
  BY Apart DEF LibraryInv, LibraryTypeOK, MediaTypeOK, UploadTypeOK, UploadInv

\* What a step of an upload leaves uncounted stays uncounted.
LEMMA CountedShrinks ==
  ASSUME NEW u \in Uploads, \A v \in Uploads \ {u} : asset'[v] = asset[v] /\ upload'[v] = upload[v],
         u \in Counted' => u \in Counted
  PROVE  Counted' \subseteq Counted
  <1>1. ASSUME NEW v \in Uploads \ {u}, v \in Counted' PROVE v \in Counted
    BY <1>1 DEF Counted, TurnUploads
  <1>2. QED
    BY <1>1 DEF Counted, TurnUploads

\* Steps on the row of the asset alone.
LEMMA AssetMoves ==
  ASSUME LibraryInv, NEW u \in Uploads,
         UNCHANGED <<driver, file, meta, del, eraser, swept, faults, uploadVars, voiceVars>>,
         NEW x \in AssetRow, asset' = [asset EXCEPT ![u] = x],
         x.state = asset[u].state, x.sum = asset[u].sum, x.erased = asset[u].erased,
         upload[u].state # "absent", x.attached => upload[u].state = "completed"
  PROVE  LibraryInv'
  <1>1. /\ MediaTypeOK' /\ asset'[u] = x
        /\ \A a \in Assets \ {u} : asset'[a] = asset[a]
    BY RowTypes, Rows
  <1>2. UploadTypeOK' /\ upload' = upload /\ request' = request
    BY Rows DEF UploadTypeOK, uploadVars
  <1>3. UploadAgrees(u)'
    BY <1>1, <1>2, Rows DEF UploadAgrees, Wanted, Stored
  <1>4. Counted' \subseteq Counted
    <2>1. u \in Counted' => u \in Counted
      BY <1>1, <1>2 DEF Counted, TurnUploads
    <2>2. QED
      BY <1>1, <1>2, <2>1, CountedShrinks, Apart
  <1>5. Wanted(u)' => Wanted(u)
    BY <1>1, <1>2 DEF Wanted
  <1>6. QED
    BY <1>1, <1>2, <1>3, <1>4, <1>5, RowMoves

LEMMA AttachMediaKeeps ==
  ASSUME LibraryInv, UNCHANGED <<uploadVars, voiceVars>>, NEW u \in Uploads,
         AttachMedia(u) \/ RetireArtifacts(u) \/ RetentionElapses(u)
  PROVE  LibraryInv'
  <1>0. asset[u] \in AssetRow /\ upload[u] \in UploadRow /\ UploadAgrees(u)
    BY Rows
  <1>1. asset[u].state # "absent" => upload[u].state # "absent"
    BY <1>0 DEF UploadAgrees, NoAsset, NewAsset
  <1>2. asset[u].state = "ready" => upload[u].state = "completed"
    BY <1>0 DEF UploadAgrees, UploadRow, InProgress, Ended, NoAsset, NewAsset
  <1>3. CASE AttachMedia(u)
    <2> DEFINE x == [asset[u] EXCEPT !.attached = TRUE, !.due = FALSE]
    <2>1. /\ x \in AssetRow /\ asset' = [asset EXCEPT ![u] = x]
          /\ x.state = asset[u].state /\ x.sum = asset[u].sum /\ x.erased = asset[u].erased
          /\ upload[u].state = "completed"
      BY <1>0, <1>2, <1>3, Rows DEF AttachMedia, AssetRow
    <2> HIDE DEF x
    <2>2. QED
      BY <1>3, <2>1, AssetMoves DEF AttachMedia
  <1>4. CASE RetireArtifacts(u)
    <2> DEFINE x == [asset[u] EXCEPT !.attached = FALSE, !.due = TRUE]
    <2>1. /\ x \in AssetRow /\ asset' = [asset EXCEPT ![u] = x]
          /\ x.state = asset[u].state /\ x.sum = asset[u].sum /\ x.erased = asset[u].erased
          /\ x.attached = FALSE /\ upload[u].state # "absent"
      BY <1>0, <1>1, <1>4, Rows DEF RetireArtifacts, AssetRow
    <2> HIDE DEF x
    <2>2. QED
      BY <1>4, <2>1, AssetMoves DEF RetireArtifacts
  <1>5. CASE RetentionElapses(u)
    <2> DEFINE x == [asset[u] EXCEPT !.due = TRUE]
    <2>1. /\ x \in AssetRow /\ asset' = [asset EXCEPT ![u] = x]
          /\ x.state = asset[u].state /\ x.sum = asset[u].sum /\ x.erased = asset[u].erased
          /\ x.attached = asset[u].attached /\ x.attached = FALSE /\ upload[u].state # "absent"
      BY <1>0, <1>1, <1>5, Rows DEF RetentionElapses, RetentionEnds, AssetRow
    <2> HIDE DEF x
    <2>2. QED
      BY <1>5, <2>1, AssetMoves DEF RetentionElapses, RetentionEnds
  <1>6. QED
    BY <1>3, <1>4, <1>5

\* Steps on both rows of an upload; x and y are the new ones.
LEMMA BothMove ==
  ASSUME LibraryInv, NEW u \in Uploads,
         UNCHANGED <<driver, file, meta, del, eraser, swept, session, parts, voiceVars>>,
         faults' \in 0..MaxFaults,
         NEW x \in AssetRow, asset' = [asset EXCEPT ![u] = x],
         NEW y \in UploadRow, upload' = [upload EXCEPT ![u] = y],
         UploadAgrees(u)',
         y.key = upload[u].key, x.erased = asset[u].erased,
         x.state \in {"uploading", "ready"} => asset[u].state \in {"uploading", "ready"},
         Wanted(u)' => Wanted(u),
         upload[u].state # "absent", y.state \notin {"absent"},
         y.state = "uploading" => upload[u].state = "uploading",
         upload[u].state \in {"aborting", "aborted"} => y.state \in {"aborting", "aborted"},
         request' \in [Requests -> Request \cup {Free}],
         \A s \in Requests :
           \/ request'[s] \in {request[s], Free}
           \/ /\ request'[s].phase \notin {"insert", "describe"} /\ request'[s].on = u
              /\ RequestAgrees(s)'
  PROVE  LibraryInv'
  <1>1. /\ MediaTypeOK' /\ asset'[u] = x
        /\ \A a \in Assets \ {u} : asset'[a] = asset[a]
    BY RowTypes, Rows
  <1>2. /\ UploadTypeOK' /\ upload'[u] = y
        /\ \A v \in Uploads \ {u} : upload'[v] = upload[v]
    BY UploadTypes
  <1>3. Counted' \subseteq Counted
    <2>1. u \in Counted' => u \in Counted
      BY <1>1, <1>2 DEF Counted, TurnUploads
    <2>2. QED
      BY <1>1, <1>2, <2>1, CountedShrinks, Apart
  <1>4. QED
    BY <1>1, <1>2, <1>3, RowMoves

LEMMA ElapseKeeps ==
  ASSUME LibraryInv, UNCHANGED voiceVars, NEW u \in Uploads, Elapse(u) \/ BecomeStale(u)
  PROVE  LibraryInv'
  <1> DEFINE x == IF Elapse(u)
                    THEN [asset[u] EXCEPT !.due =
                            @ \/ (upload[u].key \notin TurnKeys /\ ~asset[u].attached)]
                    ELSE asset[u]
             y == IF Elapse(u) THEN [upload[u] EXCEPT !.expired = TRUE]
                               ELSE [upload[u] EXCEPT !.stale = TRUE]
  <1>0. /\ asset[u] \in AssetRow /\ upload[u] \in UploadRow /\ UploadAgrees(u)
        /\ asset \in [Assets -> AssetRow] /\ upload \in [Uploads -> UploadRow]
        /\ u \in Assets /\ faults \in 0..MaxFaults
        /\ request \in [Requests -> Request \cup {Free}]
    BY Rows
  <1>1. /\ x \in AssetRow /\ asset' = [asset EXCEPT ![u] = x]
        /\ x.state = asset[u].state /\ x.sum = asset[u].sum /\ x.erased = asset[u].erased
        /\ x.attached = asset[u].attached
    BY <1>0 DEF AssetRow, Elapse, BecomeStale, mediaVars
  <1>2. /\ y \in UploadRow /\ upload' = [upload EXCEPT ![u] = y]
        /\ y.state = upload[u].state /\ y.key = upload[u].key
    BY <1>0 DEF UploadRow, Elapse, BecomeStale
  <1> HIDE DEF x, y
  <1>3. /\ UNCHANGED <<driver, file, meta, del, eraser, swept, session, parts, faults, request>>
        /\ upload[u].state # "absent"
    BY DEF Elapse, BecomeStale, mediaVars
  <1>4. asset'[u] = x /\ upload'[u] = y
    BY <1>0, <1>1, <1>2
  <1>5. UploadAgrees(u)' /\ (Wanted(u)' => Wanted(u))
    BY <1>0, <1>1, <1>2, <1>3, <1>4 DEF UploadAgrees, Wanted, Stored
  <1>6. QED
    BY <1>0, <1>1, <1>2, <1>3, <1>5, BothMove

\* A request is taken up: an upload is completed, or given up.
LEMMA TakesUp ==
  ASSUME LibraryInv, UNCHANGED <<mediaVars, session, parts, voiceVars>>,
         NEW r \in Requests, NEW u \in Uploads, NEW t \in {"load", "abort"},
         request' = [request EXCEPT ![r] = [phase |-> t, on |-> u, key |-> None]],
         NEW y \in UploadRow, upload' = [upload EXCEPT ![u] = y], y.key = upload[u].key,
         \/ t = "load" /\ y.state = "completing" /\ upload[u].state \in {"uploading", "completing"}
         \/ t = "abort" /\ y.state = "aborting" /\ upload[u].state \in InProgress
  PROVE  LibraryInv'
  <1>0. /\ asset[u] \in AssetRow /\ upload[u] \in UploadRow /\ UploadAgrees(u)
        /\ asset \in [Assets -> AssetRow] /\ upload \in [Uploads -> UploadRow]
        /\ u \in Assets /\ faults \in 0..MaxFaults
        /\ request \in [Requests -> Request \cup {Free}]
    BY Rows
  <1>1. upload'[u] = y /\ asset' = [asset EXCEPT ![u] = asset[u]]
    BY <1>0 DEF mediaVars
  <1>2. [phase |-> t, on |-> u, key |-> None] \in Request
    BY DEF Request, Phases
  <1>3. /\ request' \in [Requests -> Request \cup {Free}]
        /\ request'[r].phase = t /\ request'[r].on = u
        /\ \A s \in Requests \ {r} : request'[s] = request[s]
    BY <1>0, <1>2
  <1>4. asset[u].state = "uploading" /\ ~asset[u].attached
    BY <1>0 DEF UploadAgrees, InProgress
  <1>5. UploadAgrees(u)' /\ (Wanted(u)' => Wanted(u))
    BY <1>0, <1>1, <1>4 DEF UploadAgrees, Wanted, Stored, InProgress, mediaVars
  <1>6. RequestAgrees(r)'
    BY <1>1, <1>3 DEF RequestAgrees, Phase
  <1>7. upload[u].state # "absent"
    BY DEF InProgress
  <1>8. UNCHANGED <<driver, file, meta, del, eraser, swept, faults>>
    BY DEF mediaVars
  <1>9. upload[u].state \in {"aborting", "aborted"} => y.state \in {"aborting", "aborted"}
    BY DEF InProgress
  <1>10. \A s \in Requests :
           \/ request'[s] \in {request[s], Free}
           \/ /\ request'[s].phase \notin {"insert", "describe"} /\ request'[s].on = u
              /\ RequestAgrees(s)'
    BY <1>3, <1>6
  <1>11. QED
    BY <1>0, <1>1, <1>3, <1>5, <1>7, <1>8, <1>9, <1>10, BothMove

LEMMA CompleteUploadKeeps ==
  ASSUME LibraryInv, UNCHANGED voiceVars, NEW r \in Requests, NEW u \in Uploads,
         CompleteUpload(r, u)
  PROVE  LibraryInv'
  <1>0. upload[u] \in UploadRow /\ upload \in [Uploads -> UploadRow]
    BY Rows
  <1> DEFINE y == IF upload[u].state = "completing" THEN upload[u]
                  ELSE [upload[u] EXCEPT !.state = "completing", !.stale = FALSE]
  <1>1. /\ y \in UploadRow /\ upload' = [upload EXCEPT ![u] = y] /\ y.key = upload[u].key
        /\ y.state = "completing" /\ upload[u].state \in {"uploading", "completing"}
    BY <1>0 DEF CompleteUpload, ActiveUpload, UploadRow, InProgress
  <1> HIDE DEF y
  <1>2. QED
    BY <1>1, TakesUp DEF CompleteUpload

LEMMA AbortUploadKeeps ==
  ASSUME LibraryInv, UNCHANGED voiceVars, NEW r \in Requests, NEW u \in Uploads,
         AbortUpload(r, u) \/ AbortExpiredUpload(r, u)
  PROVE  LibraryInv'
  <1>0. upload[u] \in UploadRow /\ upload \in [Uploads -> UploadRow]
    BY Rows
  <1>1. Aborts(r, u, {"uploading", "completing"})
    BY DEF AbortUpload, AbortExpiredUpload, Aborts, Abandoned
  <1> DEFINE y == [upload[u] EXCEPT !.state = "aborting"]
  <1>2. /\ y \in UploadRow /\ upload' = [upload EXCEPT ![u] = y] /\ y.key = upload[u].key
        /\ y.state = "aborting" /\ upload[u].state \in InProgress
    BY <1>0, <1>1 DEF Aborts, UploadRow, InProgress
  <1> HIDE DEF y
  <1>3. QED
    BY <1>1, <1>2, TakesUp DEF Aborts

LEMMA MarkAbortedKeeps ==
  ASSUME LibraryInv, UNCHANGED voiceVars, NEW r \in Requests, MarkAborted(r)
  PROVE  LibraryInv'
  <1> SUFFICES ASSUME NEW u, u = request[r].on PROVE LibraryInv'
    OBVIOUS
  <1>0. request[r].phase # "free"
    BY DEF MarkAborted, Phase
  <1>1. u \in Uploads /\ RequestAgrees(r) /\ upload[u].state \in {"aborting", "aborted"}
    BY <1>0, AtWork DEF MarkAborted, RequestAgrees, Phase
  <1>2. /\ asset[u] \in AssetRow /\ upload[u] \in UploadRow /\ UploadAgrees(u)
        /\ asset \in [Assets -> AssetRow] /\ upload \in [Uploads -> UploadRow]
        /\ u \in Assets /\ faults \in 0..MaxFaults /\ UploadTypeOK
    BY <1>1, Rows
  <1>3. asset[u].state # "ready" /\ ~asset[u].attached
    BY <1>1, <1>2 DEF UploadAgrees, InProgress
  <1> DEFINE x == [asset[u] EXCEPT !.state = "failed"]
             y == [upload[u] EXCEPT !.state = "aborted"]
  <1>4. /\ x \in AssetRow /\ asset' = [asset EXCEPT ![u] = x]
        /\ x.state = "failed" /\ x.sum = asset[u].sum /\ x.erased = asset[u].erased
        /\ x.attached = asset[u].attached
    BY <1>2, <1>3 DEF MarkAborted, AssetRow, AssetStates
  <1>5. /\ y \in UploadRow /\ upload' = [upload EXCEPT ![u] = y]
        /\ y.state = "aborted" /\ y.key = upload[u].key
    BY <1>2 DEF MarkAborted, UploadRow, Ended
  <1> HIDE DEF x, y
  <1>6. asset'[u] = x /\ upload'[u] = y
    BY <1>1, <1>2, <1>4, <1>5
  <1>7. /\ UNCHANGED <<driver, file, meta, del, eraser, swept, session, parts, faults>>
        /\ Answer(r)
    BY DEF MarkAborted
  <1>8. UploadAgrees(u)' /\ ~Wanted(u)'
    BY <1>1, <1>2, <1>3, <1>4, <1>5, <1>6, <1>7 DEF UploadAgrees, Wanted, Stored, InProgress
  <1>9. /\ request' \in [Requests -> Request \cup {Free}]
        /\ \A s \in Requests : request'[s] \in {request[s], Free}
    BY <1>2, <1>7, AnswerTypes
  <1>10. QED
    BY <1>1, <1>2, <1>4, <1>5, <1>7, <1>8, <1>9, BothMove

\* The transaction that makes the asset ready, whatever the request does next.
LEMMA CompletedKeeps ==
  ASSUME LibraryInv, NEW r \in Requests, NEW u, u = request[r].on, Phase(r, "mark"),
         UNCHANGED <<driver, file, meta, del, eraser, swept, session, parts, voiceVars>>,
         faults' \in 0..MaxFaults, Completable(u), Completed(u), Answer(r) \/ Go(r, "check")
  PROVE  LibraryInv'
  <1>0. request[r].phase # "free"
    BY DEF Phase
  <1>1. u \in Uploads /\ request[r] \in Request /\ RequestAgrees(r)
    BY <1>0, AtWork
  <1>2. /\ asset[u] \in AssetRow /\ upload[u] \in UploadRow /\ UploadAgrees(u)
        /\ asset \in [Assets -> AssetRow] /\ upload \in [Uploads -> UploadRow]
        /\ u \in Assets /\ UploadTypeOK
    BY <1>1, Rows
  <1>3. /\ Wanted(u) /\ upload[u].state \in {"completing", "completed"}
        /\ asset[u].state \in {"uploading", "ready"} /\ u \notin swept
    BY <1>2 DEF Completable, Wanted, UploadAgrees
  <1>4. Stored(u)
    BY <1>1, <1>3 DEF RequestAgrees, Phase
  <1> DEFINE x == [asset[u] EXCEPT !.state = "ready"]
             y == [upload[u] EXCEPT !.state = "completed"]
  <1>5. /\ x \in AssetRow /\ asset' = [asset EXCEPT ![u] = x]
        /\ x.state = "ready" /\ x.sum = asset[u].sum /\ x.erased = asset[u].erased
        /\ x.attached = asset[u].attached
    BY <1>2 DEF Completed, AssetRow, AssetStates
  <1>6. /\ y \in UploadRow /\ upload' = [upload EXCEPT ![u] = y]
        /\ y.state = "completed" /\ y.key = upload[u].key
    BY <1>2 DEF Completed, UploadRow, Ended
  <1> HIDE DEF x, y
  <1>7. asset'[u] = x /\ upload'[u] = y
    BY <1>1, <1>2, <1>5, <1>6
  <1>8. UploadAgrees(u)'
    BY <1>1, <1>2, <1>3, <1>4, <1>5, <1>6, <1>7, Apart
       DEF UploadAgrees, Wanted, Stored, InProgress
  <1>9. /\ request' \in [Requests -> Request \cup {Free}]
        /\ \A s \in Requests \ {r} : request'[s] = request[s]
        /\ \/ request'[r] = Free
           \/ request'[r].phase = "check" /\ request'[r].on = u
    BY <1>1, <1>2, GoTypes, AnswerTypes DEF Phases
  <1>10. request'[r] # Free => RequestAgrees(r)'
    BY <1>6, <1>7, <1>9 DEF RequestAgrees, Phase
  <1>11. \A s \in Requests :
           \/ request'[s] \in {request[s], Free}
           \/ /\ request'[s].phase \notin {"insert", "describe"} /\ request'[s].on = u
              /\ RequestAgrees(s)'
    BY <1>9, <1>10
  <1>12. QED
    BY <1>1, <1>2, <1>3, <1>5, <1>6, <1>8, <1>9, <1>11, BothMove

LEMMA MarkCompletedKeeps ==
  ASSUME LibraryInv, UNCHANGED voiceVars, NEW r \in Requests, MarkCompleted(r)
  PROVE  LibraryInv'
  <1> SUFFICES ASSUME NEW u, u = request[r].on PROVE LibraryInv'
    OBVIOUS
  <1>1. /\ Phase(r, "mark") /\ request[r].phase # "free"
        /\ UNCHANGED <<driver, file, meta, del, eraser, swept, session, parts>>
    BY DEF MarkCompleted, Phase
  <1>2. /\ request[r] \in Request /\ RequestAgrees(r) /\ UploadTypeOK /\ PartsType
        /\ faults \in 0..MaxFaults
    BY <1>1, AtWork
  <1>3. faults' \in 0..MaxFaults
    BY <1>2, MediaAssumption DEF MarkCompleted, Fault
  <1>4. CASE Completable(u) /\ Completed(u) /\ (Answer(r) \/ Go(r, "check"))
    BY <1>1, <1>3, <1>4, CompletedKeeps
  <1>5. CASE Go(r, "check") /\ UNCHANGED <<upload, asset>>
    <2>1. request'[r].phase = "check" /\ request'[r].on = u
      BY <1>2, <1>5, GoTypes DEF Phases
    <2>2. RequestAgrees(r)'
      BY <1>1, <1>2, <1>5, <2>1 DEF RequestAgrees, Phase
    <2>3. PartsType'
      BY <1>1, <1>2 DEF PartsType
    <2>4. QED
      BY <1>1, <1>2, <1>3, <1>5, <2>2, <2>3, GoMoves DEF Phases
  <1>6. QED
    BY <1>4, <1>5 DEF MarkCompleted

\* Steps on the object under way: rows stay, one request moves.
LEMMA ObjectMoves ==
  ASSUME LibraryInv, NEW r \in Requests, NEW u \in Uploads,
         UNCHANGED <<driver, asset, del, eraser, swept, session, upload, voiceVars>>,
         faults' \in 0..MaxFaults, PartsType',
         NEW x \in Bytes \cup {None}, file' = [file EXCEPT ![u] = x],
         NEW y \in Bytes \cup {None}, meta' = [meta EXCEPT ![u] = y],
         UploadAgrees(u)',
         request' \in [Requests -> Request \cup {Free}],
         \A s \in Requests \ {r} : request'[s] = request[s],
         request'[r] = Free \/ (request'[r].on = u /\ RequestAgrees(r)'),
         \A s \in Requests \ {r} : request[s].on = u => RequestAgrees(s)'
  PROVE  LibraryInv'
  <1>1. MediaTypeOK' /\ UploadTypeOK'
    BY Apart DEF LibraryInv, LibraryTypeOK, MediaTypeOK, UploadTypeOK, PartsType
  <1>2. \A a \in Assets \ {u} : SameAsset(a)
    BY DEF SameAsset, LibraryInv, LibraryTypeOK, MediaTypeOK
  <1>3. TurnBudget'
    BY DEF LibraryInv, UploadInv, TurnBudget, TurnUploads
  <1>4. \A v \in Uploads \ {u} : upload'[v] = upload[v]
    OBVIOUS
  <1>5. QED
    BY <1>1, <1>2, <1>3, <1>4, OneRequest

\* The requests beside r on the same upload, when no request enters insert.
LEMMA BystanderAgrees ==
  ASSUME LibraryInv, NEW u \in Uploads, NEW s \in Requests, request'[s] = request[s],
         request[s].on = u, UNCHANGED <<driver, upload, asset>>,
         \A q \in Requests : Phase(q, "insert")' => request'[q] = request[q],
         Phase(s, "describe") /\ Wanted(u) =>
           /\ file'[u] = u /\ meta'[u] = None
           /\ \A q \in Requests : Phase(q, "describe")' /\ request'[q].on = u => q = s,
         request[s].phase \in {"drop", "mark"} /\ Wanted(u) => file'[u] = u /\ meta'[u] = u
  PROVE  RequestAgrees(s)'
  <1>1. RequestAgrees(s)
    BY DEF LibraryInv, UploadInv
  <1>2. Phase(s, "insert") =>
          \A q \in Requests : Phase(q, "insert")' /\ request'[q].on = u => q = s
    BY <1>1 DEF RequestAgrees, Phase
  <1>3. QED
    BY <1>1, <1>2 DEF RequestAgrees, Phase, Wanted, Stored

LEMMA CompleteInBucketKeeps ==
  ASSUME LibraryInv, UNCHANGED voiceVars, NEW r \in Requests, CompleteInBucket(r)
  PROVE  LibraryInv'
  <1> SUFFICES ASSUME NEW u, u = request[r].on PROVE LibraryInv'
    OBVIOUS
  <1>0. Phase(r, "load") /\ request[r].phase # "free" /\ driver = "s3"
    BY DEF CompleteInBucket, Phase
  <1>1. /\ u \in Uploads /\ request[r] \in Request /\ RequestAgrees(r) /\ UploadAgrees(u)
        /\ UploadTypeOK /\ PartsType /\ faults \in 0..MaxFaults
        /\ upload[u].state \notin {"absent", "uploading"}
    BY <1>0, AtWork DEF RequestAgrees, Phase
  <1>2. CASE parts[u] = "full"
    <2>1. /\ UNCHANGED <<driver, asset, del, eraser, swept, session, upload, faults>>
          /\ file' = [file EXCEPT ![u] = u] /\ meta' = [meta EXCEPT ![u] = u]
          /\ DropParts(u) /\ Go(r, "mark")
      BY <1>2 DEF CompleteInBucket
    <2>2. file'[u] = u /\ meta'[u] = u /\ u \in Bytes
      BY <1>1, <2>1, Rows, Apart DEF MediaTypeOK, Bytes
    <2>3. UploadAgrees(u)'
      BY <1>1, <2>1, <2>2, Apart DEF UploadAgrees, Wanted, Stored
    <2>4. /\ request' \in [Requests -> Request \cup {Free}]
          /\ request'[r].phase = "mark" /\ request'[r].on = u
          /\ \A s \in Requests \ {r} : request'[s] = request[s]
      BY <1>1, <2>1, GoTypes DEF Phases
    <2>5. RequestAgrees(r)'
      BY <1>1, <2>1, <2>2, <2>4 DEF RequestAgrees, Phase, Stored
    <2>6. \A s \in Requests : request[s].phase # "describe" \/ request[s].on # u
      BY <1>0 DEF LibraryInv, UploadInv, RequestAgrees
    <2>7. \A q \in Requests : Phase(q, "insert")' => request'[q] = request[q]
      BY <2>4 DEF Phase
    <2>8. \A s \in Requests \ {r} : request[s].on = u => RequestAgrees(s)'
      BY <1>1, <2>1, <2>2, <2>4, <2>6, <2>7, BystanderAgrees DEF Phase
    <2>9. PartsType' /\ faults' \in 0..MaxFaults
      BY <1>1, <2>1, PartsMove
    <2>10. QED
      BY <1>1, <2>1, <2>2, <2>3, <2>4, <2>5, <2>8, <2>9, ObjectMoves
  <1>3. CASE parts[u] # "full"
    BY <1>0, <1>3, StoreAnswers DEF CompleteInBucket, Verified
  <1>4. QED
    BY <1>2, <1>3

LEMMA PublishPartsKeeps ==
  ASSUME LibraryInv, UNCHANGED voiceVars, NEW r \in Requests, PublishParts(r)
  PROVE  LibraryInv'
  <1> SUFFICES ASSUME NEW u, u = request[r].on PROVE LibraryInv'
    OBVIOUS
  <1>0. Phase(r, "publish") /\ request[r].phase # "free"
    BY DEF PublishParts, Phase
  <1>1. /\ u \in Uploads /\ request[r] \in Request /\ RequestAgrees(r) /\ UploadAgrees(u)
        /\ UploadTypeOK /\ PartsType /\ faults \in 0..MaxFaults /\ MediaTypeOK
        /\ upload[u].state \notin {"absent", "uploading"} /\ driver = "local"
    BY <1>0, AtWork DEF RequestAgrees, Phase
  <1>2. CASE file[u] = None
    <2>1. /\ UNCHANGED <<driver, asset, meta, del, eraser, swept, session, upload, faults, parts>>
          /\ file' = [file EXCEPT ![u] = u] /\ Go(r, "describe")
      BY <1>2 DEF PublishParts
    <2>2. /\ file'[u] = u /\ meta'[u] = meta[u] /\ u \in Bytes
          /\ meta' = [meta EXCEPT ![u] = meta[u]] /\ meta[u] \in Bytes \cup {None}
      BY <1>1, <2>1, Apart DEF MediaTypeOK, Bytes
    <2>3. Wanted(u) => meta[u] = None /\ asset[u].state # "ready"
      BY <1>1, <1>2, Apart DEF UploadAgrees, Stored
    <2>4. UploadAgrees(u)'
      BY <1>1, <2>1, <2>2, <2>3, Apart DEF UploadAgrees, Wanted, Stored
    <2>5. /\ request' \in [Requests -> Request \cup {Free}]
          /\ request'[r].phase = "describe" /\ request'[r].on = u
          /\ \A s \in Requests \ {r} : request'[s] = request[s]
      BY <1>1, <2>1, GoTypes DEF Phases
    <2>6. ASSUME Wanted(u), NEW s \in Requests, request[s].on = u
          PROVE  request[s].phase \notin {"describe", "drop", "mark"}
      BY <1>1, <1>2, <2>6, Apart DEF LibraryInv, UploadInv, RequestAgrees, Phase, Stored
    <2>7. RequestAgrees(r)'
      BY <1>1, <2>1, <2>2, <2>3, <2>5, <2>6 DEF RequestAgrees, Phase, Wanted, Stored
    <2>8. \A q \in Requests : Phase(q, "insert")' => request'[q] = request[q]
      BY <2>5 DEF Phase
    <2>9. \A s \in Requests \ {r} : request[s].on = u => RequestAgrees(s)'
      BY <1>1, <2>1, <2>2, <2>5, <2>6, <2>8, BystanderAgrees DEF Phase
    <2>10. PartsType' /\ faults' \in 0..MaxFaults
      BY <1>1, <2>1, PartsMove
    <2>11. QED
      BY <1>1, <2>1, <2>2, <2>4, <2>5, <2>7, <2>9, <2>10, ObjectMoves
  <1>3. CASE file[u] # None
    BY <1>0, <1>3, StoreAnswers DEF PublishParts
  <1>4. QED
    BY <1>2, <1>3

LEMMA DescribeObjectKeeps ==
  ASSUME LibraryInv, UNCHANGED voiceVars, NEW r \in Requests, DescribeObject(r)
  PROVE  LibraryInv'
  <1> SUFFICES ASSUME NEW u, u = request[r].on PROVE LibraryInv'
    OBVIOUS
  <1>0. /\ Phase(r, "describe") /\ request[r].phase # "free"
        /\ UNCHANGED <<driver, asset, del, eraser, swept, session, upload, parts>>
    BY DEF DescribeObject, Phase
  <1>1. /\ u \in Uploads /\ request[r] \in Request /\ RequestAgrees(r) /\ UploadAgrees(u)
        /\ UploadTypeOK /\ PartsType /\ faults \in 0..MaxFaults /\ MediaTypeOK
        /\ upload[u].state \notin {"absent", "uploading"} /\ driver = "local"
        /\ u \in Bytes
    BY <1>0, AtWork, Apart DEF RequestAgrees, Phase, Bytes
  <1>2. /\ file[u] \in Bytes \cup {None} /\ meta[u] \in Bytes \cup {None}
        /\ file = [file EXCEPT ![u] = file[u]] /\ meta = [meta EXCEPT ![u] = meta[u]]
    BY <1>1, Apart DEF MediaTypeOK
  <1>3. Wanted(u) => file[u] = u /\ meta[u] = None /\ asset[u].state # "ready"
    BY <1>0, <1>1, Apart DEF RequestAgrees, UploadAgrees, Stored, Phase
  <1>4. PartsType'
    BY <1>0, <1>1 DEF PartsType
  <1>5. ASSUME Wanted(u), NEW s \in Requests \ {r}, request[s].on = u
        PROVE  request[s].phase \notin {"describe", "drop", "mark"}
    BY <1>0, <1>1, <1>3, <1>5, Apart DEF LibraryInv, UploadInv, RequestAgrees, Phase, Stored
  <1>6. CASE meta' = [meta EXCEPT ![u] = u] /\ Go(r, "drop") /\ UNCHANGED <<file, faults>>
    <2>1. file' = [file EXCEPT ![u] = file[u]] /\ file'[u] = file[u] /\ meta'[u] = u
      BY <1>1, <1>2, <1>6, Apart DEF MediaTypeOK
    <2>2. UploadAgrees(u)'
      BY <1>0, <1>1, <1>3, <1>6, <2>1, Apart DEF UploadAgrees, Wanted, Stored
    <2>3. /\ request' \in [Requests -> Request \cup {Free}]
          /\ request'[r].phase = "drop" /\ request'[r].on = u
          /\ \A s \in Requests \ {r} : request'[s] = request[s]
      BY <1>1, <1>6, GoTypes DEF Phases
    <2>4. RequestAgrees(r)'
      BY <1>0, <1>1, <1>3, <2>1, <2>3 DEF RequestAgrees, Phase, Wanted, Stored
    <2>5. \A q \in Requests : Phase(q, "insert")' => request'[q] = request[q]
      BY <2>3 DEF Phase
    <2>6. \A s \in Requests \ {r} : request[s].on = u => RequestAgrees(s)'
      BY <1>0, <1>1, <1>5, <2>3, <2>5, BystanderAgrees DEF Phase
    <2>7. QED
      BY <1>0, <1>1, <1>2, <1>4, <1>6, <2>1, <2>2, <2>3, <2>4, <2>6, ObjectMoves
  <1>7. CASE Fault /\ file' = [file EXCEPT ![u] = None] /\ Answer(r) /\ UNCHANGED meta
    <2>1. meta' = [meta EXCEPT ![u] = meta[u]] /\ file'[u] = None /\ meta'[u] = meta[u]
      BY <1>1, <1>2, <1>7, Apart DEF MediaTypeOK
    <2>2. UploadAgrees(u)'
      BY <1>0, <1>1, <1>3, <1>7, <2>1, Apart DEF UploadAgrees, Wanted, Stored
    <2>3. /\ request' \in [Requests -> Request \cup {Free}] /\ request'[r] = Free
          /\ \A s \in Requests \ {r} : request'[s] = request[s]
      BY <1>1, <1>7, AnswerTypes
    <2>4. \A q \in Requests : Phase(q, "insert")' => request'[q] = request[q]
      BY <2>3 DEF Phase, Free
    <2>5. \A s \in Requests \ {r} : request[s].on = u => RequestAgrees(s)'
      BY <1>0, <1>1, <1>5, <2>3, <2>4, BystanderAgrees DEF Phase
    <2>6. faults' \in 0..MaxFaults
      BY <1>1, <1>7, MediaAssumption DEF Fault
    <2>7. QED
      BY <1>0, <1>1, <1>2, <1>4, <1>7, <2>1, <2>2, <2>3, <2>5, <2>6, ObjectMoves
  <1>8. QED
    BY <1>6, <1>7 DEF DescribeObject

LEMMA EraseObjectKeeps ==
  ASSUME LibraryInv, UNCHANGED voiceVars, NEW r \in Requests, EraseObject(r)
  PROVE  LibraryInv'
  <1> SUFFICES ASSUME NEW u, u = request[r].on PROVE LibraryInv'
    OBVIOUS
  <1>0. /\ Phase(r, "erase") \/ Phase(r, "eraseMeta")
        /\ request[r].phase # "free"
        /\ UNCHANGED <<driver, asset, del, eraser, swept, session, upload, parts, faults>>
    BY DEF EraseObject, Phase
  <1>1. /\ u \in Uploads /\ request[r] \in Request /\ RequestAgrees(r) /\ UploadAgrees(u)
        /\ UploadTypeOK /\ PartsType /\ faults \in 0..MaxFaults /\ MediaTypeOK
        /\ upload[u].state \in {"aborting", "aborted"}
    BY <1>0, AtWork DEF RequestAgrees, Phase
  <1>2. ~Wanted(u) /\ asset[u].state # "ready"
    BY <1>1 DEF UploadAgrees, Wanted, InProgress
  <1> DEFINE x == IF Phase(r, "erase") THEN None ELSE file[u]
             y == IF Phase(r, "erase") /\ driver # "s3" THEN meta[u] ELSE None
  <1>3. /\ x \in Bytes \cup {None} /\ file' = [file EXCEPT ![u] = x] /\ x \in {file[u], None}
        /\ y \in Bytes \cup {None} /\ meta' = [meta EXCEPT ![u] = y] /\ y \in {meta[u], None}
    BY <1>0, <1>1, Apart DEF EraseObject, MediaTypeOK, Phase
  <1> HIDE DEF x, y
  <1>4. file'[u] = x /\ meta'[u] = y
    BY <1>1, <1>3, Apart DEF MediaTypeOK
  <1>5. UploadAgrees(u)'
    BY <1>0, <1>1, <1>2, <1>3, <1>4 DEF UploadAgrees, Wanted, Stored
  <1>6. /\ request' \in [Requests -> Request \cup {Free}]
        /\ \/ request'[r] = Free
           \/ request'[r].phase = "eraseMeta" /\ request'[r].on = u
        /\ \A s \in Requests \ {r} : request'[s] = request[s]
    BY <1>1, GoTypes, AnswerTypes DEF EraseObject, Phases
  <1>7. request'[r] # Free => RequestAgrees(r)'
    BY <1>0, <1>1, <1>6 DEF RequestAgrees, Phase
  <1>8. \A q \in Requests : Phase(q, "insert")' => request'[q] = request[q]
    BY <1>6 DEF Phase, Free
  <1>9. \A s \in Requests \ {r} : request[s].on = u => RequestAgrees(s)'
    BY <1>0, <1>1, <1>2, <1>6, <1>8, BystanderAgrees
  <1>10. PartsType'
    BY <1>0, <1>1 DEF PartsType
  <1>11. QED
    BY <1>0, <1>1, <1>3, <1>5, <1>6, <1>7, <1>9, <1>10, ObjectMoves

LEMMA CreateUploadKeeps ==
  ASSUME LibraryInv, UNCHANGED voiceVars, NEW r \in Requests, NEW u \in Uploads,
         NEW k \in Keys, CreateUpload(r, k, u)
  PROVE  LibraryInv'
  <1>0. /\ UNCHANGED <<mediaVars, session, upload>> /\ upload[u] = NoUpload
        /\ \A s \in Requests : request[s].on # u
        /\ request' = [request EXCEPT ![r] = [phase |-> "insert", on |-> u, key |-> k]]
    BY DEF CreateUpload
  <1>1. /\ UploadAgrees(u) /\ u \in Assets /\ MediaTypeOK /\ UploadTypeOK /\ PartsType
        /\ faults \in 0..MaxFaults
    BY Rows DEF UploadTypeOK, PartsType
  <1>2. [phase |-> "insert", on |-> u, key |-> k] \in Request
    BY DEF Request, Phases
  <1>3. /\ request' \in [Requests -> Request \cup {Free}]
        /\ request'[r] = [phase |-> "insert", on |-> u, key |-> k]
        /\ \A s \in Requests \ {r} : request'[s] = request[s]
    BY <1>0, <1>1, <1>2 DEF UploadTypeOK
  <1>4. RequestAgrees(r)'
    BY <1>0, <1>3 DEF RequestAgrees, Phase, NoUpload
  <1>5. UploadAgrees(u)' /\ UNCHANGED <<driver, asset, del, eraser, swept, faults>>
    BY <1>0, <1>1 DEF UploadAgrees, Wanted, Stored, mediaVars
  <1>6. /\ file[u] \in Bytes \cup {None} /\ meta[u] \in Bytes \cup {None}
        /\ file' = [file EXCEPT ![u] = file[u]] /\ meta' = [meta EXCEPT ![u] = meta[u]]
    BY <1>0, <1>1 DEF MediaTypeOK, mediaVars
  <1>7. PartsType'
    BY <1>1, PartsMove DEF CreateUpload
  <1>8. request'[r].on = u
    BY <1>3
  <1>9. QED
    BY <1>0, <1>1, <1>3, <1>4, <1>5, <1>6, <1>7, <1>8, ObjectMoves

\* The lock of the interview: one more answer counts only if there was room for it.
LEMMA AdmittedWithinBudget ==
  ASSUME LibraryInv, NEW u \in Uploads, NEW k, Admitted(k),
         \A v \in Uploads \ {u} : upload'[v] = upload[v] /\ asset'[v] = asset[v],
         upload'[u].key = k
  PROVE  TurnBudget'
  <1>0. UploadInv
    BY DEF LibraryInv
  <1>1. Counted' \subseteq Counted \cup {u}
    BY DEF Counted, TurnUploads
  <1>2. CASE k \in TurnKeys
    <2>1. Cardinality(TurnUploads) + 1 <= TurnLimit
      BY <1>2 DEF Admitted
    <2>2. /\ IsFiniteSet(Counted \cup {u})
          /\ Cardinality(Counted \cup {u}) <= Cardinality(Counted) + 1
      <3>1. IsFiniteSet(Counted) /\ Cardinality(Counted) \in Nat
        BY <1>0, CountedIsFinite
      <3>2. Cardinality(Counted \cup {u}) \in {Cardinality(Counted), Cardinality(Counted) + 1}
        BY <3>1, FS_AddElement
      <3>3. QED
        BY <3>1, <3>2, FS_AddElement
    <2>3. Cardinality(Counted') <= Cardinality(Counted \cup {u}) /\ Cardinality(Counted') \in Nat
      BY <1>1, <2>2, FS_Subset, FS_CardinalityType
    <2>4. Cardinality(Counted') <= TurnLimit
      BY <1>0, <2>1, <2>2, <2>3, CountedIsFinite, UploadAssumption, FS_CardinalityType
    <2>5. QED
      BY <2>4 DEF TurnBudget, Counted
  <1>3. CASE k \notin TurnKeys
    <2>1. u \notin Counted'
      BY <1>3 DEF Counted, TurnUploads
    <2>2. QED
      BY <1>0, <1>1, <2>1, BudgetShrinks
  <1>4. QED
    BY <1>2, <1>3

LEMMA InsertUploadKeeps ==
  ASSUME LibraryInv, UNCHANGED voiceVars, NEW r \in Requests, InsertUpload(r)
  PROVE  LibraryInv'
  <1> SUFFICES ASSUME NEW u, u = request[r].on, NEW k, k = request[r].key PROVE LibraryInv'
    OBVIOUS
  <1>0. /\ Phase(r, "insert") /\ request[r].phase # "free"
        /\ UNCHANGED <<driver, file, meta, del, eraser, swept, session, parts>>
    BY DEF InsertUpload, Phase
  <1>1. /\ u \in Uploads /\ u \in Assets /\ request[r] \in Request /\ RequestAgrees(r)
        /\ UploadAgrees(u) /\ UploadTypeOK /\ MediaTypeOK /\ PartsType /\ faults \in 0..MaxFaults
        /\ upload[u] = NoUpload /\ asset[u] = NoAsset /\ k \in Keys
        /\ file[u] = None /\ meta[u] = None
    BY <1>0, AtWork DEF RequestAgrees, UploadAgrees, Phase
  <1>2. CASE Admitted(k) /\ Answer(r) /\ UNCHANGED faults
             /\ upload' = [upload EXCEPT ![u] =
                  [state |-> "uploading", key |-> k, expired |-> FALSE, stale |-> FALSE]]
             /\ asset' = [asset EXCEPT ![u] = NewAsset("uploading", u)]
    <2> DEFINE x == NewAsset("uploading", u)
               y == [state |-> "uploading", key |-> k, expired |-> FALSE, stale |-> FALSE]
    <2>0. /\ asset' = [asset EXCEPT ![u] = x] /\ x = NewAsset("uploading", u)
          /\ upload' = [upload EXCEPT ![u] = y] /\ y.state = "uploading" /\ y.key = k
      BY <1>2
    <2>1. x \in AssetRow /\ y \in UploadRow
      BY <1>1 DEF NewAsset, AssetRow, AssetStates, Bytes, UploadRow, InProgress
    <2> HIDE DEF x, y
    <2>2. /\ MediaTypeOK' /\ asset'[u] = NewAsset("uploading", u)
          /\ \A a \in Assets \ {u} : asset'[a] = asset[a]
      BY <1>0, <1>1, <1>2, <2>0, <2>1, RowTypes, ZenonT(40)
    <2>3. /\ request' \in [Requests -> Request \cup {Free}] /\ request'[r] = Free
          /\ \A s \in Requests \ {r} : request'[s] = request[s]
      BY <1>1, <1>2, AnswerTypes
    <2>4. /\ UploadTypeOK' /\ upload'[u].state = "uploading" /\ upload'[u].key = k
          /\ \A v \in Uploads \ {u} : upload'[v] = upload[v]
      BY <1>0, <1>1, <2>0, <2>1, <2>3, UploadTypes
    <2>5. u \notin swept
      BY <1>1 DEF UploadAgrees, NoAsset, NewAsset
    <2>6. UploadAgrees(u)'
      BY <1>0, <1>1, <2>2, <2>4, <2>5, Apart
         DEF UploadAgrees, Wanted, Stored, NewAsset, InProgress
    <2>7. TurnBudget'
      BY <1>1, <1>2, <2>2, <2>4, AdmittedWithinBudget, Apart
    <2>8. ASSUME NEW s \in Requests \ {r}, request[s].on = u PROVE RequestAgrees(s)'
      <3>1. request[s].phase \notin
              {"insert", "load", "publish", "describe", "drop", "mark", "check", "erase",
               "eraseMeta", "abort", "aborted"}
        BY <1>0, <1>1, <2>8 DEF LibraryInv, UploadInv, RequestAgrees, Phase, NoUpload
      <3>2. QED
        BY <2>3, <2>8, <3>1 DEF RequestAgrees, Phase
    <2>9. \A a \in Assets \ {u} : SameAsset(a)
      BY <1>0, <2>2 DEF SameAsset
    <2>10. QED
      BY <1>0, <1>1, <2>2, <2>3, <2>4, <2>6, <2>7, <2>8, <2>9, OneRequest
  <1>3. CASE Go(r, "discard") /\ UNCHANGED <<upload, asset>> /\ faults' \in 0..MaxFaults
    <2>1. request'[r].phase = "discard"
      BY <1>1, <1>3, GoTypes DEF Phases
    <2>2. RequestAgrees(r)'
      BY <2>1 DEF RequestAgrees, Phase
    <2>3. PartsType'
      BY <1>0, <1>1 DEF PartsType
    <2>4. QED
      BY <1>0, <1>1, <1>3, <2>2, <2>3, GoMoves DEF Phases
  <1>4. QED
    BY <1>1, <1>2, <1>3, MediaAssumption DEF InsertUpload, Fault

LEMMA UploadKeeps ==
  ASSUME LibraryInv, UploadNext, UNCHANGED voiceVars
  PROVE  LibraryInv'
  <1>1. CASE SignOut \/ \E u \in Uploads : PutSignedPart(u)
    BY <1>1, PutSignedPartKeeps
  <1>2. CASE \E r \in Requests : RequestStep(r) \/ RequestDies(r)
    BY <1>2, InsertUploadKeeps, DiscardUploadKeeps, LoadPartsKeeps, PublishPartsKeeps,
       DescribeObjectKeeps, CheckUploadKeeps, CompleteInBucketKeeps, MarkCompletedKeeps,
       EraseObjectKeeps, MarkAbortedKeeps, RequestDiesKeeps
       DEF RequestStep
  <1>3. CASE \E r \in Requests, u \in Uploads :
               \/ \E k \in Keys : CreateUpload(r, k, u)
               \/ PutLocalPart(r, u) \/ CompleteUpload(r, u)
               \/ AbortUpload(r, u) \/ AbortExpiredUpload(r, u)
    BY <1>3, CreateUploadKeeps, PutLocalPartKeeps, CompleteUploadKeeps, AbortUploadKeeps
  <1>4. CASE \E u \in Uploads :
               \/ Elapse(u) \/ BecomeStale(u)
               \/ (AttachMedia(u) \/ RetireArtifacts(u)) /\ UNCHANGED uploadVars
               \/ RetentionElapses(u) /\ UNCHANGED uploadVars
               \/ \E j \in DeleteJobs : QueueAsset(j, u) /\ UNCHANGED uploadVars
    <2>1. UNCHANGED uploadVars => UNCHANGED <<uploadVars, voiceVars>>
      OBVIOUS
    <2>2. QED
      BY <1>4, <2>1, ElapseKeeps, AttachMediaKeeps, EnqueueKeeps, Apart
  <1>5. QED
    BY <1>1, <1>2, <1>3, <1>4 DEF UploadNext, RetentionElapses

LEMMA LibraryStarts ==
  ASSUME LibraryInit
  PROVE  LibraryInv
  <1>1. MediaTypeOK /\ CleanupInv
    BY MediaAssumption
       DEF LibraryInit, MediaInit, MediaTypeOK, CleanupInv, AssetRow, AssetStates, NoAsset,
           NewAsset, Resting, NoDelete, Works
  <1>2. UploadTypeOK
    BY DEF LibraryInit, UploadInit, UploadTypeOK, UploadRow, NoUpload
  <1>3. VoiceTypeOK /\ VoiceInv
    <2>1. NoJob("none") \in AudioRow /\ NoJob("gone") \in AudioRow
      BY GeneratedAssumption DEF NoJob, AudioRow
    <2>2. VoiceTypeOK
      BY <2>1 DEF LibraryInit, VoiceInit, VoiceTypeOK
    <2>3. \A p \in Phrases : /\ p \in Assets /\ audio[p].status # "ready"
                             /\ asset[p] = NoAsset /\ file[p] = None /\ meta[p] = None
      BY Apart DEF LibraryInit, VoiceInit, MediaInit, NoJob
    <2>4. \A p \in Phrases : PhraseAgrees(p)
      BY <2>3 DEF PhraseAgrees, NoAsset, NewAsset
    <2>5. \A w \in Makers : VoiceAgrees(w)
      BY DEF LibraryInit, VoiceInit, VoiceAgrees, Silent
    <2>6. QED
      BY <2>2, <2>3, <2>4, <2>5 DEF VoiceInv
  <1>4. \A u \in Uploads : UploadAgrees(u)
    BY Apart DEF LibraryInit, UploadInit, MediaInit, UploadAgrees, NoUpload, NoAsset, NewAsset,
                 Wanted, Stored, InProgress
  <1>5. \A r \in Requests : RequestAgrees(r)
    BY DEF LibraryInit, UploadInit, RequestAgrees, Phase, Free
  <1>6. TurnUploads = {} /\ {u \in Uploads : upload[u].state # "absent"} = {}
    BY Apart, UploadAssumption DEF LibraryInit, UploadInit, TurnUploads, NoUpload
  <1>7. Counted = {}
    BY <1>6 DEF Counted
  <1>8. UploadInv
    <2>1. IsFiniteSet({}) /\ Cardinality({}) = 0
      BY FS_EmptySet
    <2>2. IsFiniteSet({u \in Uploads : upload[u].state # "absent"})
      BY <1>6, <2>1
    <2>3. Cardinality(Counted) <= TurnLimit
      BY <1>7, <2>1, UploadAssumption
    <2>4. TurnBudget
      BY <2>3 DEF TurnBudget, Counted
    <2>5. QED
      BY <1>4, <1>5, <2>2, <2>4 DEF UploadInv
  <1>9. QED
    BY <1>1, <1>2, <1>3, <1>8 DEF LibraryInv, LibraryTypeOK

LEMMA LibraryStep ==
  ASSUME LibraryInv, [LibraryNext]_libraryVars
  PROVE  LibraryInv'
  <1>1. CASE CleanupNext /\ UNCHANGED <<uploadVars, voiceVars>>
    BY <1>1, CleanupKeeps
  <1>2. CASE UploadNext /\ UNCHANGED voiceVars
    BY <1>2, UploadKeeps
  <1>3. CASE VoiceNext /\ UNCHANGED uploadVars
    BY <1>3, VoiceKeeps
  <1>4. CASE UNCHANGED libraryVars
    <2>1. UNCHANGED <<mediaVars, uploadVars, voiceVars>>
      BY <1>4 DEF libraryVars
    <2>2. MediaTypeOK' /\ CleanupInv'
      BY <2>1 DEF LibraryInv, LibraryTypeOK, MediaTypeOK, CleanupInv, Works, mediaVars
    <2>3. UNCHANGED <<driver, asset, file, meta, swept>>
      BY <2>1 DEF mediaVars
    <2>4. QED
      BY <2>1, <2>2, <2>3, JobsMove
  <1>5. QED
    BY <1>1, <1>2, <1>3, <1>4 DEF LibraryNext

-----------------------------------------------------------------------------
(* The theorems *)

\* The rows of an upload, its object, the requests at work on it, the delete jobs
\* and the workers that generate audio agree in every reachable state, for any
\* number of them and over any number of faults.
THEOREM LibraryIsInvariant == LibrarySpec => []LibraryInv
  <1>1. LibraryInit => LibraryInv
    BY LibraryStarts
  <1>2. LibraryInv /\ [LibraryNext]_libraryVars => LibraryInv'
    BY LibraryStep
  <1>3. QED
    BY <1>1, <1>2, PTL DEF LibrarySpec

\* The rows of media_assets, media_uploads and recording_feedback_audio, the store
\* and what every process is doing keep their shape.
THEOREM LibraryTypes == LibrarySpec => []LibraryTypeOK
  <1>1. LibraryInv => LibraryTypeOK
    BY DEF LibraryInv
  <1>2. QED
    BY <1>1, LibraryIsInvariant, PTL

\* What a recording, a preview or an attempt has taken is in the store and is what
\* its row describes (CompleteUpload, MarkCompleted, the abort and the sweep).
THEOREM AttachedStaysStored == LibrarySpec => []AttachedIsStored
  <1>1. ASSUME LibraryInv PROVE AttachedIsStored
    <2> SUFFICES ASSUME NEW u \in Uploads, asset[u].state = "ready"
                 PROVE  Stat(u) /\ file[u] = asset[u].sum
      BY DEF AttachedIsStored
    <2>1. UploadAgrees(u) /\ u # None
      BY <1>1, Apart DEF LibraryInv, UploadInv
    <2>2. upload[u].state # "absent"
      BY <2>1 DEF UploadAgrees, NoAsset, NewAsset
    <2>3. QED
      BY <2>1, <2>2 DEF UploadAgrees, Stored, Stat
  <1>2. QED
    BY <1>1, LibraryIsInvariant, PTL

\* Once ClaimAborting has fenced an upload, no completion makes its asset ready and
\* nothing takes it.
THEOREM AbortWins == LibrarySpec => []AbortFencesCompletion
  <1>1. LibraryInv => AbortFencesCompletion
    BY DEF LibraryInv, UploadInv, UploadAgrees, AbortFencesCompletion, InProgress
  <1>2. QED
    BY <1>1, LibraryIsInvariant, PTL

\* The answers of an interview that count never exceed TurnLimit.
THEOREM TurnsStayWithinBudget == LibrarySpec => []TurnBudget
  <1>1. LibraryInv => TurnBudget
    BY DEF LibraryInv, UploadInv
  <1>2. QED
    BY <1>1, LibraryIsInvariant, PTL

\* Audio that GetFeedbackAudio reports as ready is attached and can be downloaded,
\* on the local store and while no media.delete job was made for it.
THEOREM ReadyAudioCanPlay == LibrarySpec => []ReadyAudioPlays
  <1>1. LibraryInv => ReadyAudioPlays
    BY DEF LibraryInv, VoiceInv, PhraseAgrees, ReadyAudioPlays
  <1>2. QED
    BY <1>1, LibraryIsInvariant, PTL

\* No generated object is without the row that ReserveGenerated wrote first.
THEOREM GeneratedStaysRegistered == LibrarySpec => []GeneratedIsRegistered
  <1>1. LibraryInv => GeneratedIsRegistered
    BY DEF LibraryInv, VoiceInv, PhraseAgrees, GeneratedIsRegistered
  <1>2. QED
    BY <1>1, LibraryIsInvariant, PTL
=============================================================================
