----------------------------- MODULE Recording -----------------------------
(***************************************************************************)
(* The life of a voice recording: the RecordingViewModels of the Journal   *)
(* and Communication screens, the singleton WhisperSttEngine they share    *)
(* (its recording path), the SharedFlow that carries its events to every   *)
(* view model, the foreground TranscriptionService, and the entries the    *)
(* journal repository holds.                                               *)
(*                                                                         *)
(* The main thread runs the view-model methods and the event collectors,   *)
(* one at a time; each recording has a coroutine of its own on             *)
(* Dispatchers.IO/Default whose steps interleave with them.  A session is  *)
(* one call of startRecording that passes its guard; it names the audio    *)
(* file (a fresh timestamp), the AudioRecord and the coroutine of that     *)
(* call.  A text is the set of sessions whose microphone it was spoken     *)
(* into, Typed standing for text from the keyboard.                        *)
(***************************************************************************)
EXTENDS Naturals, Sequences, FiniteSets

CONSTANTS
    MaxSessions,   \* bound: recordings started
    MaxAnalyses,   \* bound: analyses started
    MaxVisits,     \* bound: times the Communication screen is opened
    MaxChanges,    \* bound: edits of the settings
    Env            \* what the environment may do, a subset of EnvKinds

EnvKinds == {"manual",      \* the user types entries
             "impatient",   \* the user discards while PROCESSING
             "micFault",    \* AudioRecord fails to start, or a read fails
             "diskFault",   \* writing the WAV file throws
             "initFault",   \* initialize() throws
             "noSpeech",    \* Whisper returns a blank text, or fails
             "llmFault"}    \* the LLM or the database throws

ASSUME RecordingAssumption ==
    /\ MaxSessions \in Nat /\ MaxAnalyses \in Nat
    /\ MaxVisits \in Nat /\ MaxChanges \in Nat
    /\ Env \subseteq EnvKinds

Journal == "journal"
Coach   == "coach"
VMs     == {Journal, Coach}

Sessions == 1..MaxSessions
Analyses == 1..MaxAnalyses
None     == 0
Typed    == 0
Text     == SUBSET (Sessions \cup {Typed})

Status == {"IDLE", "INITIALIZING", "READY", "RECORDING", "REVIEWING",
           "PROCESSING", "SAVED", "ERROR"}

\* The steps of the coroutine startListening launches.
JobStep == {"unused",      \* the session has not been started
            "launched",    \* launched, the file not opened yet
            "capturing",   \* in the read loop
            "finishing",   \* the loop is over, the file still open
            "loading",     \* header written, transcribeFile about to read it
            "whisper",     \* the native transcription runs
            "done"}

Event == [type : {"Final", "Error"}, session : Sessions, text : Text]

Analysis == [id : Analyses, vm : VMs, text : Text,
             audio : Sessions \cup {None}, saving : BOOLEAN]
Entry    == [id : Analyses, text : Text, audio : Sessions \cup {None}]

VARIABLES
    \* RecordingViewModel, one of each per view model
    status, finalTranscript, transcriptBuffer, currentAudioFile,
    durationJob,   \* the job durationJob refers to is still running
    tickers,       \* number of duration jobs running
    emissions,     \* settings emissions its watcher has not collected yet
    inits,         \* calls of stt.initialize() running on Dispatchers.IO
    results,       \* how those that ended did, not yet seen on the main thread
    orphans,       \* calls whose view model was cleared, running on
    inbox,         \* engine events its collector has not handled yet
    \* WhisperSttEngine
    isInitialized,
    audioRecord,   \* the session whose AudioRecord the field holds, or None
    openMics,      \* AudioRecords started and not released
    started,       \* number of sessions started
    step,          \* of each session: where its coroutine is
    owner,         \* whose scope it runs in: 0 the Journal's, n the n-th visit's
    heard,         \* the AudioRecords its loop read samples from
    file,          \* its WAV file: absent, audio, or a stub with only a header
    \* the rest of the system
    coachOpen, visits, changes,
    inFlight, analyses, entries,
    service        \* TranscriptionService is in the foreground

vmVars     == <<status, finalTranscript, transcriptBuffer, currentAudioFile>>
tickVars   == <<durationJob, tickers>>
initVars   == <<emissions, inits, results, orphans, changes>>
micVars    == <<audioRecord, openMics>>
jobVars    == <<started, step, owner, heard, file>>
navVars    == <<coachOpen, visits>>
entryVars  == <<inFlight, analyses, entries>>
vars == <<vmVars, tickVars, initVars, inbox, isInitialized, micVars, jobVars,
          navVars, entryVars, service>>

-----------------------------------------------------------------------------
Alive(v) == v = Journal \/ coachOpen

\* The view model whose scope the session's coroutine runs in is not cleared.
isActive(s) == owner[s] = 0 \/ (coachOpen /\ owner[s] = visits)

\* The screen in front: only its buttons can be pressed.
OnTop(v) == v = IF coachOpen THEN Coach ELSE Journal

\* JournalScreen's scrim blocks the rest of the screen in these states.
Overlay == {"RECORDING", "PROCESSING", "REVIEWING"}

Init ==
    /\ status           = [v \in VMs |-> "IDLE"]
    /\ finalTranscript  = [v \in VMs |-> {}]
    /\ transcriptBuffer = [v \in VMs |-> {}]
    /\ currentAudioFile = [v \in VMs |-> None]
    /\ durationJob      = [v \in VMs |-> FALSE]
    /\ tickers          = [v \in VMs |-> 0]
    /\ emissions        = [v \in VMs |-> IF v = Journal THEN 1 ELSE 0]
    /\ inits            = [v \in VMs |-> 0]
    /\ results          = [v \in VMs |-> <<>>]
    /\ orphans = 0
    /\ inbox            = [v \in VMs |-> <<>>]
    /\ isInitialized = FALSE
    /\ audioRecord = None /\ openMics = {}
    /\ started = 0
    /\ step  = [s \in Sessions |-> "unused"]
    /\ owner = [s \in Sessions |-> 0]
    /\ heard = [s \in Sessions |-> {}]
    /\ file  = [s \in Sessions |-> "absent"]
    /\ coachOpen = FALSE /\ visits = 0 /\ changes = 0
    /\ inFlight = {} /\ analyses = 0 /\ entries = {}
    /\ service = FALSE

-----------------------------------------------------------------------------
\* Helpers the handlers share.

\* _events.emit: every live collector gets the event.
Emit(e) == inbox' = [v \in VMs |-> IF Alive(v) THEN Append(inbox[v], e)
                                              ELSE inbox[v]]

ErrorOf(s) == [type |-> "Error", session |-> s, text |-> {}]
FinalOf(s) == [type |-> "Final", session |-> s, text |-> heard[s]]

\* durationJob?.cancel()
CancelTicker(v) ==
    /\ tickers' = [tickers EXCEPT ![v] = IF durationJob[v] THEN @ - 1 ELSE @]
    /\ durationJob' = [durationJob EXCEPT ![v] = FALSE]

\* transcriptBuffer.clear()
ClearBuffer_Kept(v) == UNCHANGED transcriptBuffer
ClearBuffer(v) == transcriptBuffer' = [transcriptBuffer EXCEPT ![v] = {}]

\* currentAudioFile = stt.createAudioFile()
NewAudioFile_OncePerScreen(v, s) ==
    currentAudioFile' = [currentAudioFile EXCEPT ![v] = IF @ = None THEN s ELSE @]
NewAudioFile(v, s) == currentAudioFile' = [currentAudioFile EXCEPT ![v] = s]

\* TranscriptionService.start and stop
StartService_Omitted == UNCHANGED service
StartService == service' = TRUE
StopService == service' = FALSE

\* WhisperSttEngine.stopListening: the coroutine is left to finish by itself.
StopListening_NotReleased == audioRecord' = None /\ UNCHANGED openMics
StopListening ==
    /\ openMics' = openMics \ {audioRecord}
    /\ audioRecord' = None

-----------------------------------------------------------------------------
\* The settings watcher and stt.initialize().

\* An edit of the settings reaches the watcher of every live view model, by
\* one or both of the two flows it combines.  The
\* user edits them on a screen the Journal's scrim and the Communication
\* screen keep out of reach; initialize() itself resets an unusable path.
ChangeSettings ==
    /\ changes < MaxChanges
    /\ \/ ~coachOpen /\ status[Journal] \notin Overlay
       \/ orphans > 0 \/ \E v \in VMs : inits[v] > 0
    /\ changes' = changes + 1
    /\ \E n \in [VMs -> 1..2] :
         emissions' = [v \in VMs |-> IF Alive(v) THEN emissions[v] + n[v]
                                                ELSE emissions[v]]
    /\ UNCHANGED <<vmVars, tickVars, inits, results, orphans, inbox,
                   isInitialized, micVars, jobVars, navVars, entryVars, service>>

InitializeStt(v) ==
    /\ emissions[v] > 0
    /\ emissions' = [emissions EXCEPT ![v] = @ - 1]
    /\ inits' = [inits EXCEPT ![v] = @ + 1]
    /\ status' = [status EXCEPT ![v] = "INITIALIZING"]
    /\ UNCHANGED <<finalTranscript, transcriptBuffer, currentAudioFile,
                   tickVars, results, orphans, changes, inbox, isInitialized,
                   micVars, jobVars, navVars, entryVars, service>>

\* initialize() ends on its IO thread; WhisperEngine models what it does.
InitializeEnds(v, ok) ==
    /\ inits[v] > 0
    /\ ~ok => "initFault" \in Env
    /\ inits' = [inits EXCEPT ![v] = @ - 1]
    /\ results' = [results EXCEPT ![v] = Append(@, ok)]
    /\ isInitialized' = ok
    /\ UNCHANGED <<vmVars, tickVars, emissions, orphans, changes, inbox, micVars,
                   jobVars, navVars, entryVars, service>>

\* A call whose view model was cleared: its next suspension point throws a
\* CancellationException, which the catch of Throwable takes for a failure.
OrphanInitializeEnds(ok) ==
    /\ orphans > 0
    /\ orphans' = orphans - 1
    /\ isInitialized' = ok
    /\ UNCHANGED <<vmVars, tickVars, emissions, inits, results, changes, inbox,
                   micVars, jobVars, navVars, entryVars, service>>

\* initializeStt resumes on the main thread.
InitializeReturns(v) ==
    /\ results[v] # <<>>
    /\ results' = [results EXCEPT ![v] = Tail(@)]
    /\ status' = [status EXCEPT ![v] = IF Head(results[v]) THEN "READY"
                                                          ELSE "ERROR"]
    /\ UNCHANGED <<finalTranscript, transcriptBuffer, currentAudioFile,
                   tickVars, emissions, inits, orphans, changes, inbox,
                   isInitialized, micVars, jobVars, navVars, entryVars, service>>

-----------------------------------------------------------------------------
\* RecordingViewModel's methods, called from the screen in front.

StartOffered(v) ==
    /\ OnTop(v)
    /\ status[v] \in {"READY", "SAVED"} \cup
                     (IF v = Coach THEN {"REVIEWING"} ELSE {})

\* startRecording up to startListening; s is the new session.
NewRecording(v, s) ==
    /\ StartOffered(v)
    /\ started < MaxSessions
    /\ s = started + 1
    /\ started' = s
    /\ owner' = [owner EXCEPT ![s] = IF v = Journal THEN 0 ELSE visits]
    /\ NewAudioFile(v, s)
    /\ ClearBuffer(v)
    /\ tickers' = [tickers EXCEPT ![v] = @ + 1]
    /\ durationJob' = [durationJob EXCEPT ![v] = TRUE]
    /\ UNCHANGED <<initVars, isInitialized, heard, file, navVars, entryVars>>

\* startListening opens the microphone and launches the coroutine.
StartRecording(v) == \E s \in Sessions :
    /\ NewRecording(v, s)
    /\ isInitialized
    /\ finalTranscript' = [finalTranscript EXCEPT ![v] = {}]
    /\ status' = [status EXCEPT ![v] = "RECORDING"]
    /\ audioRecord' = s
    /\ openMics' = openMics \cup {s}
    /\ step' = [step EXCEPT ![s] = "launched"]
    /\ UNCHANGED <<inbox, service>>

\* startListening reports an error instead: the engine is not initialised, or
\* the AudioRecord does not record (the field keeps it).  tryEmit resumes a
\* collector that waits at once, on this thread; one with events to handle
\* finds the error behind them.
StartRecordingFails(v) == \E s \in Sessions :
    LET now == {w \in VMs : Alive(w) /\ inbox[w] = <<>>} IN
    /\ NewRecording(v, s)
    /\ \/ ~isInitialized /\ UNCHANGED micVars
       \/ isInitialized /\ "micFault" \in Env
          /\ audioRecord' = s /\ openMics' = openMics \cup {s}
    /\ finalTranscript' = [finalTranscript EXCEPT ![v] = {}]
    /\ status' = [w \in VMs |-> IF w \in now THEN "ERROR"
                                ELSE IF w = v THEN "RECORDING" ELSE status[w]]
    /\ inbox' = [w \in VMs |-> IF Alive(w) /\ w \notin now
                               THEN Append(inbox[w], ErrorOf(s)) ELSE inbox[w]]
    /\ service' = (service /\ now = {})
    /\ step' = [step EXCEPT ![s] = "done"]

StopRecording(v) ==
    /\ OnTop(v) /\ status[v] = "RECORDING"
    /\ CancelTicker(v)
    /\ status' = [status EXCEPT ![v] = "PROCESSING"]
    /\ StartService
    /\ StopListening
    /\ UNCHANGED <<finalTranscript, transcriptBuffer, currentAudioFile, initVars,
                   inbox, isInitialized, jobVars, navVars, entryVars>>

\* Keeps currentAudioFile.
StartManualEntry ==
    /\ "manual" \in Env
    /\ OnTop(Journal) /\ status[Journal] \in {"READY", "SAVED"}
    /\ ClearBuffer(Journal)
    /\ finalTranscript' = [finalTranscript EXCEPT ![Journal] = {}]
    /\ status' = [status EXCEPT ![Journal] = "REVIEWING"]
    /\ UNCHANGED <<currentAudioFile, tickVars, initVars, inbox, isInitialized,
                   micVars, jobVars, navVars, entryVars, service>>

\* The user adds to the text under review, or rewrites it.
UpdateTranscript ==
    /\ "manual" \in Env
    /\ OnTop(Journal) /\ status[Journal] = "REVIEWING"
    /\ \E text \in {finalTranscript[Journal] \cup {Typed}, {Typed}} :
         /\ transcriptBuffer' = [transcriptBuffer EXCEPT ![Journal] = text]
         /\ finalTranscript' = [finalTranscript EXCEPT ![Journal] = text]
    /\ UNCHANGED <<status, currentAudioFile, tickVars, initVars, inbox,
                   isInitialized, micVars, jobVars, navVars, entryVars, service>>

\* analyzeTranscript finds fewer than five characters.
AnalyzeTooShort ==
    /\ OnTop(Journal) /\ status[Journal] = "REVIEWING"
    /\ status' = [status EXCEPT ![Journal] = "READY"]
    /\ UNCHANGED <<finalTranscript, transcriptBuffer, currentAudioFile, tickVars,
                   initVars, inbox, isInitialized, micVars, jobVars, navVars,
                   entryVars, service>>

AnalyzeTranscript ==
    /\ OnTop(Journal) /\ status[Journal] = "REVIEWING"
    /\ finalTranscript[Journal] # {}
    /\ analyses < MaxAnalyses
    /\ analyses' = analyses + 1
    /\ inFlight' = inFlight \cup
         {[id |-> analyses + 1, vm |-> Journal, text |-> finalTranscript[Journal],
           audio |-> None, saving |-> FALSE]}
    /\ status' = [status EXCEPT ![Journal] = "PROCESSING"]
    /\ UNCHANGED <<finalTranscript, transcriptBuffer, currentAudioFile, tickVars,
                   initVars, inbox, isInitialized, micVars, jobVars, navVars,
                   entries, service>>

\* llm.analyzeEntry returns: only now is currentAudioFile read for the entry.
AnalysisReturns(a) ==
    /\ a \in inFlight /\ ~a.saving
    /\ inFlight' = (inFlight \ {a}) \cup
         {[a EXCEPT !.audio = currentAudioFile[a.vm], !.saving = TRUE]}
    /\ UNCHANGED <<vmVars, tickVars, initVars, inbox, isInitialized, micVars,
                   jobVars, navVars, analyses, entries, service>>

\* repo.save returns.
SaveReturns(a) ==
    /\ a \in inFlight /\ a.saving
    /\ inFlight' = inFlight \ {a}
    /\ entries' = entries \cup {[id |-> a.id, text |-> a.text, audio |-> a.audio]}
    /\ status' = [status EXCEPT ![a.vm] = "SAVED"]
    /\ UNCHANGED <<finalTranscript, transcriptBuffer, currentAudioFile, tickVars,
                   initVars, inbox, isInitialized, micVars, jobVars, navVars,
                   analyses, service>>

\* Either of them throws.
AnalysisFails(a) ==
    /\ "llmFault" \in Env
    /\ a \in inFlight
    /\ inFlight' = inFlight \ {a}
    /\ status' = [status EXCEPT ![a.vm] = "ERROR"]
    /\ UNCHANGED <<finalTranscript, transcriptBuffer, currentAudioFile, tickVars,
                   initVars, inbox, isInitialized, micVars, jobVars, navVars,
                   analyses, entries, service>>

\* The Journal's Discard, the Communication screen's RESET.
CancelRecording(v) ==
    /\ OnTop(v)
    /\ v = Journal => \/ status[v] = "REVIEWING"
                      \/ status[v] = "PROCESSING" /\ "impatient" \in Env
    /\ CancelTicker(v)
    /\ StopService
    /\ StopListening
    /\ file' = [s \in Sessions |-> IF s = currentAudioFile[v] THEN "absent"
                                                             ELSE file[s]]
    /\ currentAudioFile' = [currentAudioFile EXCEPT ![v] = None]
    /\ finalTranscript' = [finalTranscript EXCEPT ![v] = {}]
    /\ status' = [status EXCEPT ![v] = "READY"]
    /\ UNCHANGED <<transcriptBuffer, initVars, inbox, isInitialized, started, step,
                   owner, heard, navVars, entryVars>>

\* The collector of stt.events.
HandleFinal(v) ==
    /\ inbox[v] # <<>> /\ Head(inbox[v]).type = "Final"
    /\ inbox' = [inbox EXCEPT ![v] = Tail(@)]
    /\ transcriptBuffer' = [transcriptBuffer EXCEPT ![v] =
                              @ \cup Head(inbox[v]).text]
    /\ finalTranscript' = [finalTranscript EXCEPT ![v] = transcriptBuffer'[v]]
    /\ status' = [status EXCEPT ![v] = "REVIEWING"]
    /\ StopService
    /\ UNCHANGED <<currentAudioFile, tickVars, initVars, isInitialized, micVars,
                   jobVars, navVars, entryVars>>

HandleError(v) ==
    /\ inbox[v] # <<>> /\ Head(inbox[v]).type = "Error"
    /\ inbox' = [inbox EXCEPT ![v] = Tail(@)]
    /\ status' = [status EXCEPT ![v] = "ERROR"]
    /\ StopService
    /\ UNCHANGED <<finalTranscript, transcriptBuffer, currentAudioFile, tickVars,
                   initVars, isInitialized, micVars, jobVars, navVars, entryVars>>

-----------------------------------------------------------------------------
\* Navigation: a new view model per visit of the Communication screen.

OpenCoach ==
    /\ ~coachOpen /\ visits < MaxVisits
    /\ status[Journal] \notin Overlay
    /\ coachOpen' = TRUE /\ visits' = visits + 1
    /\ emissions' = [emissions EXCEPT ![Coach] = 1]
    /\ UNCHANGED <<vmVars, tickVars, inits, results, orphans, changes, inbox,
                   isInitialized, micVars, jobVars, entryVars, service>>

\* The view model and its state are gone.  viewModelScope is cancelled before
\* onCleared, whose stt.release() therefore never runs: the microphone and the
\* engine stay as they are.
LeaveCoach ==
    /\ coachOpen
    /\ coachOpen' = FALSE
    /\ status' = [status EXCEPT ![Coach] = "IDLE"]
    /\ finalTranscript' = [finalTranscript EXCEPT ![Coach] = {}]
    /\ transcriptBuffer' = [transcriptBuffer EXCEPT ![Coach] = {}]
    /\ currentAudioFile' = [currentAudioFile EXCEPT ![Coach] = None]
    /\ tickers' = [tickers EXCEPT ![Coach] = 0]
    /\ durationJob' = [durationJob EXCEPT ![Coach] = FALSE]
    /\ emissions' = [emissions EXCEPT ![Coach] = 0]
    /\ orphans' = orphans + inits[Coach]
    /\ inits' = [inits EXCEPT ![Coach] = 0]
    /\ results' = [results EXCEPT ![Coach] = <<>>]
    /\ inbox' = [inbox EXCEPT ![Coach] = <<>>]
    /\ UNCHANGED <<changes, isInitialized, micVars, jobVars, visits, entryVars,
                   service>>

-----------------------------------------------------------------------------
\* The coroutine of a session.

jobFrame == <<vmVars, tickVars, initVars, isInitialized, micVars, started, owner,
              navVars, entryVars, service>>

\* The coroutine starts: the file is created, with a header.
OpenAudioFile(s) ==
    /\ step[s] = "launched" /\ isActive(s)
    /\ step' = [step EXCEPT ![s] = "capturing"]
    /\ file' = [file EXCEPT ![s] = "audio"]
    /\ UNCHANGED <<jobFrame, heard, inbox>>

\* It was cancelled before it was dispatched: the body never runs.
NeverDispatched(s) ==
    /\ step[s] = "launched" /\ ~isActive(s)
    /\ step' = [step EXCEPT ![s] = "done"]
    /\ UNCHANGED <<jobFrame, heard, file, inbox>>

\* One turn of the loop that gets samples, from whatever AudioRecord the field
\* holds now.
ReadSamples(s) ==
    /\ step[s] = "capturing" /\ isActive(s)
    /\ audioRecord # None
    /\ heard' = [heard EXCEPT ![s] = @ \cup {audioRecord}]
    /\ UNCHANGED <<jobFrame, step, file, inbox>>

\* The loop ends by itself: cancelled, or no AudioRecord any more.
LeaveLoop(s) ==
    /\ step[s] = "capturing"
    /\ ~isActive(s) \/ audioRecord = None
    /\ step' = [step EXCEPT ![s] = "finishing"]
    /\ UNCHANGED <<jobFrame, heard, file, inbox>>

\* It ends by an error: the microphone fails, or what the loop was reading has
\* been released meanwhile.
ReadFails(s) ==
    /\ step[s] = "capturing"
    /\ "micFault" \in Env \/ ~(heard[s] \cup {s} \subseteq openMics)
    /\ step' = [step EXCEPT ![s] = "finishing"]
    /\ UNCHANGED <<jobFrame, heard, file, inbox>>

\* Writing samples or the header throws: caught, logged, and no event.
WriteFails(s) ==
    /\ "diskFault" \in Env
    /\ step[s] \in {"capturing", "finishing"}
    /\ step' = [step EXCEPT ![s] = "done"]
    /\ UNCHANGED <<jobFrame, heard, file, inbox>>

NothingRecorded_Silent(s) ==
    /\ step[s] = "finishing" /\ heard[s] = {}
    /\ step' = [step EXCEPT ![s] = "done"]
    /\ UNCHANGED <<jobFrame, heard, file, inbox>>
NothingRecorded(s) ==
    /\ step[s] = "finishing" /\ heard[s] = {}
    /\ step' = [step EXCEPT ![s] = "done"]
    /\ Emit(ErrorOf(s))
    /\ UNCHANGED <<jobFrame, heard, file>>

\* updateWavHeader opens the file "rw": one deleted meanwhile comes back as a
\* header alone.  A cancelled coroutine gets no further than withContext, whose
\* CancellationException the loop's handler swallows.
UpdateWavHeader(s) ==
    /\ step[s] = "finishing" /\ heard[s] # {}
    /\ file' = [file EXCEPT ![s] = IF @ = "absent" THEN "stub" ELSE @]
    /\ step' = [step EXCEPT ![s] = IF isActive(s) THEN "loading" ELSE "done"]
    /\ UNCHANGED <<jobFrame, heard, inbox>>

LoadAudio(s) ==
    /\ step[s] = "loading" /\ file[s] = "audio"
    /\ step' = [step EXCEPT ![s] = "whisper"]
    /\ UNCHANGED <<jobFrame, heard, file, inbox>>

AudioFileEmpty_NoReturn(s) ==
    /\ step[s] = "loading" /\ file[s] # "audio"
    /\ step' = [step EXCEPT ![s] = "whisper"]
    /\ Emit(ErrorOf(s))
    /\ UNCHANGED <<jobFrame, heard, file>>
AudioFileEmpty(s) ==
    /\ step[s] = "loading" /\ file[s] # "audio"
    /\ step' = [step EXCEPT ![s] = "done"]
    /\ Emit(ErrorOf(s))
    /\ UNCHANGED <<jobFrame, heard, file>>

TranscriptionSucceeds(s) ==
    /\ step[s] = "whisper" /\ isActive(s)
    /\ step' = [step EXCEPT ![s] = "done"]
    /\ Emit(FinalOf(s))
    /\ UNCHANGED <<jobFrame, heard, file>>

\* A blank text, an exception, the timeout, or a scope cancelled meanwhile.
TranscriptionFails_Silent(s) ==
    /\ step[s] = "whisper"
    /\ ~isActive(s) \/ "noSpeech" \in Env
    /\ step' = [step EXCEPT ![s] = "done"]
    /\ UNCHANGED <<jobFrame, heard, file, inbox>>
TranscriptionFails(s) ==
    /\ step[s] = "whisper"
    /\ ~isActive(s) \/ "noSpeech" \in Env
    /\ step' = [step EXCEPT ![s] = "done"]
    /\ Emit(ErrorOf(s))
    /\ UNCHANGED <<jobFrame, heard, file>>

-----------------------------------------------------------------------------
Screen(v) == StartRecording(v) \/ StartRecordingFails(v) \/ StopRecording(v)
             \/ CancelRecording(v)

User == \/ \E v \in VMs : Screen(v)
        \/ StartManualEntry \/ UpdateTranscript
        \/ AnalyzeTooShort \/ AnalyzeTranscript
        \/ OpenCoach \/ LeaveCoach \/ ChangeSettings

Initializing(v) == InitializeStt(v) \/ InitializeReturns(v)
                   \/ \E ok \in BOOLEAN : InitializeEnds(v, ok)

Collect(v) == HandleFinal(v) \/ HandleError(v)

Analyzing == \E a \in inFlight : AnalysisReturns(a) \/ SaveReturns(a)
                                 \/ AnalysisFails(a)

\* What the coroutine does by itself; the other steps are faults.
Runs(s) == \/ OpenAudioFile(s) \/ NeverDispatched(s)
           \/ ReadSamples(s) \/ LeaveLoop(s)
           \/ NothingRecorded(s) \/ UpdateWavHeader(s)
           \/ LoadAudio(s) \/ AudioFileEmpty(s)
           \/ TranscriptionSucceeds(s) \/ TranscriptionFails(s)

Job(s) == Runs(s) \/ ReadFails(s) \/ WriteFails(s)

Next == \/ User
        \/ \E v \in VMs : Initializing(v) \/ Collect(v)
        \/ \E ok \in BOOLEAN : OrphanInitializeEnds(ok)
        \/ Analyzing
        \/ \E s \in Sessions : Job(s)

Spec == Init /\ [][Next]_vars

\* The dispatchers run every coroutine that can run; initialize(), the native
\* transcription and the LLM call return, with a result or without.  Nothing
\* is assumed of the user, and no microphone or disk has to fail.
Fairness ==
    /\ \A v \in VMs : WF_vars(Initializing(v)) /\ WF_vars(Collect(v))
    /\ WF_vars(\E ok \in BOOLEAN : OrphanInitializeEnds(ok))
    /\ WF_vars(Analyzing)
    /\ \A s \in Sessions : WF_vars(Runs(s))

LiveSpec == Spec /\ Fairness

-----------------------------------------------------------------------------
\* The variables hold values of their kind.
TypeOK ==
    /\ status \in [VMs -> Status]
    /\ finalTranscript \in [VMs -> Text]
    /\ transcriptBuffer \in [VMs -> Text]
    /\ currentAudioFile \in [VMs -> Sessions \cup {None}]
    /\ durationJob \in [VMs -> BOOLEAN]
    /\ tickers \in [VMs -> Nat]
    /\ emissions \in [VMs -> Nat]
    /\ inits \in [VMs -> Nat]
    /\ results \in [VMs -> Seq(BOOLEAN)]
    /\ orphans \in Nat
    /\ inbox \in [VMs -> Seq(Event)]
    /\ isInitialized \in BOOLEAN
    /\ audioRecord \in Sessions \cup {None}
    /\ openMics \subseteq Sessions
    /\ started \in 0..MaxSessions
    /\ step \in [Sessions -> JobStep]
    /\ owner \in [Sessions -> 0..MaxVisits]
    /\ heard \in [Sessions -> SUBSET Sessions]
    /\ file \in [Sessions -> {"absent", "audio", "stub"}]
    /\ coachOpen \in BOOLEAN
    /\ visits \in 0..MaxVisits
    /\ changes \in 0..MaxChanges
    /\ inFlight \subseteq Analysis
    /\ analyses \in 0..MaxAnalyses
    /\ entries \subseteq Entry
    /\ service \in BOOLEAN

-----------------------------------------------------------------------------
(* Safety.                                                                 *)

Running == {"launched", "capturing", "finishing", "loading", "whisper"}

\* Each recording reports to a screen at most once, and only when its
\* coroutine is through: no event of one session is queued twice, and none is
\* queued while the session may still emit another.
OneOutcomePerRecording ==
    \A v \in VMs :
      /\ \A i \in 1..Len(inbox[v]) : step[inbox[v][i].session] = "done"
      /\ \A i, j \in 1..Len(inbox[v]) :
            inbox[v][i].session = inbox[v][j].session => i = j

\* The microphone is open only while a screen shows that it records, and every
\* open AudioRecord is the one stopListening would release.
MicOnlyWhileRecording ==
    openMics # {} => /\ openMics = {audioRecord}
                     /\ \E v \in VMs : Alive(v) /\ status[v] = "RECORDING"

\* TranscriptionService's "existence keeps the process alive while Whisper
\* works": it is in the foreground as long as a screen's current recording,
\* its microphone released, is still being processed.
ServiceWhileProcessing ==
    \A v \in VMs : \A s \in Sessions \ openMics :
        s = currentAudioFile[v] /\ step[s] \in Running => service

\* The audio file a saved entry links to is on disk with its audio:
\* cancelRecording deletes "the unused audio file" only.
SavedAudioSurvives ==
    \A e \in entries : e.audio # None => file[e.audio] = "audio"

\* An entry links to the recording its speech was spoken into, and no other.
EntryIsItsRecording ==
    \A e \in entries : e.text \ {Typed} # {} => e.text \ {Typed} = {e.audio}

\* An outcome a screen has yet to handle is that of its current recording: no
\* late result of an earlier one can replace what the user sees.
OutcomesAreCurrent ==
    \A v \in VMs : \A i \in 1..Len(inbox[v]) :
        inbox[v][i].session = currentAudioFile[v]

-----------------------------------------------------------------------------
(* Liveness.                                                               *)

\* A screen does not show PROCESSING for ever.
ProcessingEnds ==
    \A v \in VMs : status[v] = "PROCESSING" ~> status[v] # "PROCESSING"

\* The service leaves the foreground: it "ensures the engine finishes its
\* work", no longer.  The user has to end the recordings: the loop of an
\* earlier one may have come to read the microphone of the one that runs.
ServiceStops == []<>(openMics = {}) => (service ~> ~service)
=============================================================================
