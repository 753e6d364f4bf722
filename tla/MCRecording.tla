---------------------------- MODULE MCRecording ----------------------------
(***************************************************************************)
(* Recording, with the refinement mapping under which the Journal screen   *)
(* alone implements Dictation.                                             *)
(***************************************************************************)
EXTENDS Recording

\* PROCESSING shows two waits: an analysis is in flight in the second.
Phase ==
    CASE status[Journal] \in {"IDLE", "INITIALIZING"} -> "starting"
      [] status[Journal] = "READY"     -> "ready"
      [] status[Journal] = "RECORDING" -> "recording"
      [] status[Journal] = "REVIEWING" -> "review"
      [] status[Journal] = "SAVED"     -> "saved"
      [] status[Journal] = "ERROR"     -> "error"
      [] status[Journal] = "PROCESSING" ->
            IF inFlight = {} THEN "transcribing" ELSE "analyzing"

D == INSTANCE Dictation WITH
        MaxTakes <- MaxSessions,
        phase    <- Phase,
        takes    <- started,
        take     <- currentAudioFile[Journal],
        text     <- finalTranscript[Journal],
        entries  <- {[text |-> e.text, audio |-> e.audio] : e \in entries}

\* The Journal keeps Dictation's promise, its waits ending included: late,
\* crossed or lost results of the engine and of the LLM never show.
KeepsPromise == D!Promise
=============================================================================
