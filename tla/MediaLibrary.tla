---------------------------- MODULE MediaLibrary ----------------------------
(***************************************************************************)
(* The media of the application: what clients upload (MediaUploads), what  *)
(* workers generate (GeneratedAudio), and the sweep and the media.delete   *)
(* handlers that remove both (MediaAssets), over one store.                *)
(***************************************************************************)
EXTENDS MediaUploads, GeneratedAudio

\* CreateUpload draws the id of an asset, GeneratedStore derives it from the object key.
ASSUME LibraryAssumption == Uploads \cap Phrases = {}

libraryVars == <<mediaVars, uploadVars, voiceVars>>

LibraryTypeOK == MediaTypeOK /\ UploadTypeOK /\ VoiceTypeOK

LibraryInit == MediaInit /\ UploadInit /\ VoiceInit

LibraryNext ==
  \/ CleanupNext /\ UNCHANGED <<uploadVars, voiceVars>>
  \/ UploadNext /\ UNCHANGED voiceVars
  \/ VoiceNext /\ UNCHANGED uploadVars

LibrarySpec == LibraryInit /\ [][LibraryNext]_libraryVars

LibraryFairSpec ==
  LibrarySpec /\ CleanupFairness /\ UploadFairness /\ VoiceFairness

-----------------------------------------------------------------------------
\* Audio that is shown as ready can be played: its asset is attached, the
\* object is there and is the one the row describes, whichever worker had the
\* job and whatever a worker that lost it still does.  Local store, and an asset
\* that no media.delete job was made for.
ReadyAudioPlays ==
  \A p \in Phrases \ swept :
    driver = "local" /\ audio[p].status = "ready" =>
      /\ asset[p].state = "ready" /\ asset[p].attached
      /\ Stat(p) /\ file[p] = asset[p].sum

\* Every object of generated audio has a row that leads the sweep to it, from
\* the moment its first byte is stored, so that a worker which dies leaves
\* nothing behind for ever.
GeneratedIsRegistered ==
  \A p \in Phrases \ swept : file[p] # None => asset[p].state \in {"failed", "ready"}

-----------------------------------------------------------------------------
(* The inductive invariant *)

LibraryInv ==
  /\ LibraryTypeOK
  /\ CleanupInv
  /\ UploadInv
  /\ VoiceInv
=============================================================================
