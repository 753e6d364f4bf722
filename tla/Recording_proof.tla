-------------------------- MODULE Recording_proof --------------------------
(***************************************************************************)
(* Proofs about Recording, for any number of recordings and analyses.      *)
(*                                                                         *)
(* For any number of visits and edits of the settings and in every         *)
(* environment: the variables keep their types, and each recording has at  *)
(* most one outcome.                                                       *)
(*                                                                         *)
(* With one screen, no edit and a patient user: the service covers the     *)
(* transcription, no outcome is late, entries link to their recordings,    *)
(* microphone and saved audio are where they should be, and the Journal is *)
(* a Dictation, step by step.                                              *)
(***************************************************************************)
EXTENDS MCRecording, TLAPS

\* The sessions not started yet have no coroutine.
UnusedInv == \A s \in Sessions : s > started => step[s] = "unused"

\* A duration job that a view model refers to is one of those that run.
TickerInv == \A v \in VMs : durationJob[v] => tickers[v] > 0

IInv == TypeOK /\ TickerInv /\ OneOutcomePerRecording /\ UnusedInv

-----------------------------------------------------------------------------
\* What the two operations on a collector's inbox do, position by position.
LEMMA TailFacts ==
    ASSUME NEW T, NEW q \in Seq(T), q # <<>>
    PROVE  /\ Tail(q) \in Seq(T) /\ Head(q) \in T
           /\ Len(q) \in Nat /\ Len(Tail(q)) = Len(q) - 1
           /\ \A i \in 1..Len(Tail(q)) : i + 1 \in 1..Len(q) /\ Tail(q)[i] = q[i+1]
  OBVIOUS

LEMMA AppendFacts ==
    ASSUME NEW T, NEW q \in Seq(T), NEW e \in T
    PROVE  /\ Append(q, e) \in Seq(T)
           /\ Len(q) \in Nat /\ Len(Append(q, e)) = Len(q) + 1
           /\ \A i \in 1..Len(q) : Append(q, e)[i] = q[i]
           /\ Append(q, e)[Len(q) + 1] = e
  OBVIOUS

LEMMA EventTypes ==
    ASSUME TypeOK, NEW s \in Sessions
    PROVE  ErrorOf(s) \in Event /\ FinalOf(s) \in Event
  BY DEF TypeOK, Event, ErrorOf, FinalOf, Text

LEMMA EmitType ==
    ASSUME TypeOK, NEW e \in Event, Emit(e)
    PROVE  inbox' \in [VMs -> Seq(Event)]
  <1>1. \A v \in VMs : Append(inbox[v], e) \in Seq(Event)
    BY AppendFacts DEF TypeOK
  <1> QED
    BY <1>1 DEF TypeOK, Emit

-----------------------------------------------------------------------------
\* Type correctness: every variable keeps its type in every reachable state.
LEMMA InitType == Init => TypeOK
  <1> SUFFICES ASSUME Init PROVE TypeOK
    OBVIOUS
  <1>1. <<>> \in Seq(Event) /\ <<>> \in Seq(BOOLEAN)
    OBVIOUS
  <1>2. inbox \in [VMs -> Seq(Event)] /\ results \in [VMs -> Seq(BOOLEAN)]
    BY <1>1 DEF Init
  <1>3. /\ status \in [VMs -> Status]
        /\ finalTranscript \in [VMs -> Text] /\ transcriptBuffer \in [VMs -> Text]
        /\ currentAudioFile \in [VMs -> Sessions \cup {None}]
    BY DEF Init, Status, Text
  <1>4. /\ durationJob \in [VMs -> BOOLEAN] /\ tickers \in [VMs -> Nat]
        /\ emissions \in [VMs -> Nat] /\ inits \in [VMs -> Nat] /\ orphans \in Nat
        /\ isInitialized \in BOOLEAN
    BY DEF Init
  <1>5. /\ audioRecord \in Sessions \cup {None} /\ openMics \subseteq Sessions
        /\ started \in 0..MaxSessions
        /\ step \in [Sessions -> JobStep] /\ owner \in [Sessions -> 0..MaxVisits]
        /\ heard \in [Sessions -> SUBSET Sessions]
        /\ file \in [Sessions -> {"absent", "audio", "stub"}]
    BY RecordingAssumption DEF Init, JobStep
  <1>6. /\ coachOpen \in BOOLEAN /\ visits \in 0..MaxVisits
        /\ changes \in 0..MaxChanges /\ analyses \in 0..MaxAnalyses
        /\ service \in BOOLEAN
    <2>1. /\ 0 \in 0..MaxVisits /\ 0 \in 0..MaxChanges /\ 0 \in 0..MaxAnalyses
      BY RecordingAssumption
    <2> QED
      BY <2>1, Zenon DEF Init
  <1>7. inFlight \subseteq Analysis /\ entries \subseteq Entry
    BY Zenon DEF Init
  <1> QED
    BY <1>2, <1>3, <1>4, <1>5, <1>6, <1>7 DEF TypeOK

LEMMA InitializingType ==
    ASSUME TypeOK, NEW v \in VMs,
           ChangeSettings \/ Initializing(v) \/ \E ok \in BOOLEAN : OrphanInitializeEnds(ok)
    PROVE  TypeOK'
  <1> USE RecordingAssumption
      DEF TypeOK, vmVars, tickVars, initVars, micVars, jobVars, navVars, entryVars
  <1>1. CASE ChangeSettings
    <2>1. changes' \in 0..MaxChanges
      BY <1>1 DEF ChangeSettings
    <2> DEFINE more(n) == [w \in VMs |-> IF Alive(w) THEN emissions[w] + n[w]
                                                       ELSE emissions[w]]
    <2>2. ASSUME NEW n \in [VMs -> 1..2] PROVE more(n) \in [VMs -> Nat]
      <3>1. ASSUME NEW w \in VMs PROVE emissions[w] + n[w] \in Nat
        <4>1. emissions[w] \in Nat /\ n[w] \in 1..2
          OBVIOUS
        <4> HIDE DEF TypeOK, more
        <4> QED
          BY <4>1
      <3>2. \A w \in VMs : emissions[w] \in Nat
        OBVIOUS
      <3> QED
        BY <3>1, <3>2
    <2>3. emissions' \in [VMs -> Nat]
      <3>1. \E n \in [VMs -> 1..2] : emissions' = more(n)
        BY <1>1, Zenon DEF ChangeSettings
      <3> HIDE DEF more
      <3> QED
        BY <2>2, <3>1
    <2> QED
      BY <1>1, <2>1, <2>3 DEF ChangeSettings
  <1>2. CASE InitializeStt(v)
    BY <1>2, SMTT(30) DEF InitializeStt, Status
  <1>3. ASSUME NEW ok \in BOOLEAN, InitializeEnds(v, ok) PROVE TypeOK'
    <2>1. Append(results[v], ok) \in Seq(BOOLEAN)
      BY AppendFacts
    <2> QED
      BY <1>3, <2>1, SMTT(30) DEF InitializeEnds
  <1>4. ASSUME NEW ok \in BOOLEAN, OrphanInitializeEnds(ok) PROVE TypeOK'
    BY <1>4 DEF OrphanInitializeEnds
  <1>5. CASE InitializeReturns(v)
    <2>1. Tail(results[v]) \in Seq(BOOLEAN)
      BY <1>5, TailFacts DEF InitializeReturns
    <2> QED
      BY <1>5, <2>1 DEF InitializeReturns, Status
  <1> QED
    BY <1>1, <1>2, <1>3, <1>4, <1>5 DEF Initializing

LEMMA ScreenType ==
    ASSUME TypeOK, TickerInv, NEW v \in VMs, Screen(v)
    PROVE  TypeOK'
  <1> USE RecordingAssumption DEF TypeOK
  <1>1. ASSUME NEW s \in Sessions, NewRecording(v, s)
        PROVE  /\ started' \in 0..MaxSessions
               /\ owner' \in [Sessions -> 0..MaxVisits]
               /\ currentAudioFile' \in [VMs -> Sessions \cup {None}]
               /\ transcriptBuffer' \in [VMs -> Text]
               /\ tickers' \in [VMs -> Nat] /\ durationJob' \in [VMs -> BOOLEAN]
               /\ UNCHANGED <<initVars, isInitialized, heard, file, navVars, entryVars>>
    <2>1. started' \in 0..MaxSessions
      BY <1>1 DEF NewRecording
    <2>2. owner' \in [Sessions -> 0..MaxVisits]
      BY <1>1 DEF NewRecording
    <2>3. currentAudioFile' \in [VMs -> Sessions \cup {None}]
      BY <1>1 DEF NewRecording, NewAudioFile
    <2>4. transcriptBuffer' \in [VMs -> Text]
      BY <1>1 DEF NewRecording, ClearBuffer, Text
    <2>5. tickers' \in [VMs -> Nat] /\ durationJob' \in [VMs -> BOOLEAN]
      BY <1>1, SMTT(30) DEF NewRecording
    <2> QED
      BY <1>1, <2>1, <2>2, <2>3, <2>4, <2>5 DEF NewRecording
  <1>2. CASE StartRecording(v)
    <2>1. PICK s \in Sessions :
            /\ NewRecording(v, s)
            /\ finalTranscript' = [finalTranscript EXCEPT ![v] = {}]
            /\ status' = [status EXCEPT ![v] = "RECORDING"]
            /\ audioRecord' = s
            /\ openMics' = openMics \cup {s}
            /\ step' = [step EXCEPT ![s] = "launched"]
            /\ UNCHANGED <<inbox, service>>
      BY <1>2 DEF StartRecording
    <2> QED
      BY <1>1, <2>1 DEF initVars, navVars, entryVars, Status, JobStep, Text
  <1>3. CASE StartRecordingFails(v)
    <2>1. PICK s \in Sessions :
            /\ NewRecording(v, s)
            /\ \/ UNCHANGED micVars
               \/ audioRecord' = s /\ openMics' = openMics \cup {s}
            /\ finalTranscript' = [finalTranscript EXCEPT ![v] = {}]
            /\ status' \in [VMs -> Status]
            /\ \E W \in SUBSET VMs :
                 inbox' = [w \in VMs |-> IF w \in W THEN Append(inbox[w], ErrorOf(s))
                                                    ELSE inbox[w]]
            /\ service' \in BOOLEAN
            /\ step' = [step EXCEPT ![s] = "done"]
      <3>1. PICK s \in Sessions :
            LET now == {w \in VMs : Alive(w) /\ inbox[w] = <<>>} IN
              /\ NewRecording(v, s)
              /\ \/ UNCHANGED micVars
                 \/ audioRecord' = s /\ openMics' = openMics \cup {s}
              /\ finalTranscript' = [finalTranscript EXCEPT ![v] = {}]
              /\ status' = [w \in VMs |-> IF w \in now THEN "ERROR"
                                          ELSE IF w = v THEN "RECORDING"
                                          ELSE status[w]]
              /\ inbox' = [w \in VMs |-> IF Alive(w) /\ w \notin now
                                         THEN Append(inbox[w], ErrorOf(s))
                                         ELSE inbox[w]]
              /\ service' = (service /\ now = {})
              /\ step' = [step EXCEPT ![s] = "done"]
        BY <1>3, Zenon DEF StartRecordingFails
      <3> DEFINE now == {w \in VMs : Alive(w) /\ inbox[w] = <<>>}
                 W == {w \in VMs : Alive(w) /\ w \notin now}
      <3>2. inbox' = [w \in VMs |-> IF w \in W THEN Append(inbox[w], ErrorOf(s))
                                               ELSE inbox[w]]
        BY <3>1
      <3>3. service' \in BOOLEAN
        BY <3>1, Zenon
      <3>4. status' \in [VMs -> Status]
        BY <3>1 DEF Status
      <3> HIDE DEF now
      <3> QED
        BY <3>1, <3>2, <3>3, <3>4
    <2>2. \A w \in VMs : Append(inbox[w], ErrorOf(s)) \in Seq(Event)
      BY AppendFacts, EventTypes
    <2>3. inbox' \in [VMs -> Seq(Event)]
      BY <2>1, <2>2
    <2>4. audioRecord' \in Sessions \cup {None} /\ openMics' \subseteq Sessions
      BY <2>1 DEF micVars
    <2> QED
      BY <1>1, <2>1, <2>3, <2>4 DEF initVars, navVars, entryVars, JobStep, Text
  <1>4. ASSUME CancelTicker(v), StopRecording(v) \/ CancelRecording(v)
        PROVE  tickers' \in [VMs -> Nat] /\ durationJob' \in [VMs -> BOOLEAN]
    BY <1>4 DEF CancelTicker, TickerInv
  <1>5. CASE StopRecording(v)
    BY <1>4, <1>5 DEF StopRecording, StartService, StopListening, initVars, jobVars,
       navVars, entryVars, Status
  <1>6. CASE CancelRecording(v)
    BY <1>4, <1>6 DEF CancelRecording, StopService, StopListening, initVars, navVars,
       entryVars, Status, Text
  <1> QED
    BY <1>2, <1>3, <1>5, <1>6 DEF Screen

LEMMA EntryType ==
    ASSUME TypeOK,
           \/ StartManualEntry \/ UpdateTranscript \/ AnalyzeTooShort
           \/ AnalyzeTranscript \/ Analyzing
    PROVE  TypeOK'
  <1> USE RecordingAssumption
      DEF TypeOK, tickVars, initVars, micVars, jobVars, navVars
  <1>1. CASE StartManualEntry
    BY <1>1 DEF StartManualEntry, ClearBuffer, entryVars, Status, Text, VMs
  <1>2. CASE UpdateTranscript
    <2>1. PICK text \in Text :
            /\ transcriptBuffer' = [transcriptBuffer EXCEPT ![Journal] = text]
            /\ finalTranscript' = [finalTranscript EXCEPT ![Journal] = text]
      BY <1>2 DEF UpdateTranscript, Text, VMs
    <2> QED
      BY <1>2, <2>1 DEF UpdateTranscript, entryVars
  <1>3. CASE AnalyzeTooShort
    BY <1>3 DEF AnalyzeTooShort, entryVars, Status
  <1>4. CASE AnalyzeTranscript
    <2>1. analyses' \in 0..MaxAnalyses /\ analyses + 1 \in Analyses
      BY <1>4 DEF AnalyzeTranscript, Analyses
    <2>2. [id |-> analyses + 1, vm |-> Journal, text |-> finalTranscript[Journal],
           audio |-> None, saving |-> FALSE] \in Analysis
      BY <2>1 DEF Analysis, VMs
    <2>3. inFlight' \subseteq Analysis
      BY <1>4, <2>2, Zenon DEF AnalyzeTranscript
    <2> QED
      BY <1>4, <2>1, <2>3 DEF AnalyzeTranscript, Status
  <1>5. ASSUME NEW a \in inFlight, AnalysisReturns(a) PROVE TypeOK'
    <2>1. a \in Analysis /\ currentAudioFile[a.vm] \in Sessions \cup {None}
      BY <1>5 DEF Analysis
    <2>2. [a EXCEPT !.audio = currentAudioFile[a.vm], !.saving = TRUE] \in Analysis
      BY <2>1 DEF Analysis
    <2>3. inFlight' \subseteq Analysis
      BY <1>5, <2>2, Zenon DEF AnalysisReturns
    <2> QED
      BY <1>5, <2>3 DEF AnalysisReturns, vmVars
  <1>6. ASSUME NEW a \in inFlight, SaveReturns(a) PROVE TypeOK'
    <2>1. a \in Analysis
      BY <1>6
    <2>2. entries' \subseteq Entry /\ inFlight' \subseteq Analysis
      BY <1>6, <2>1 DEF SaveReturns, Analysis, Entry
    <2> QED
      BY <1>6, <2>2 DEF SaveReturns, Status
  <1>7. ASSUME NEW a \in inFlight, AnalysisFails(a) PROVE TypeOK'
    BY <1>7 DEF AnalysisFails, Status
  <1> QED
    BY <1>1, <1>2, <1>3, <1>4, <1>5, <1>6, <1>7 DEF Analyzing

LEMMA CollectType ==
    ASSUME TypeOK, NEW v \in VMs, Collect(v)
    PROVE  TypeOK'
  <1> USE DEF TypeOK, tickVars, initVars, micVars, jobVars, navVars, entryVars
  <1>1. inbox[v] \in Seq(Event) /\ inbox[v] # <<>>
    BY DEF Collect, HandleFinal, HandleError
  <1>2. Tail(inbox[v]) \in Seq(Event) /\ Head(inbox[v]) \in Event
    BY <1>1, TailFacts
  <1>3. CASE HandleFinal(v)
    <2>1. transcriptBuffer' \in [VMs -> Text]
      BY <1>2, <1>3 DEF HandleFinal, Event, Text
    <2>2. finalTranscript' \in [VMs -> Text]
      BY <1>3, <2>1 DEF HandleFinal
    <2> QED
      BY <1>2, <1>3, <2>1, <2>2 DEF HandleFinal, StopService, Status
  <1>4. CASE HandleError(v)
    BY <1>2, <1>4 DEF HandleError, StopService, Status
  <1> QED
    BY <1>3, <1>4 DEF Collect

LEMMA NavigationType ==
    ASSUME TypeOK, OpenCoach \/ LeaveCoach
    PROVE  TypeOK'
  <1> USE RecordingAssumption
      DEF TypeOK, vmVars, tickVars, micVars, jobVars, entryVars
  <1>1. CASE OpenCoach
    <2>1. visits' \in 0..MaxVisits
      BY <1>1 DEF OpenCoach
    <2>2. emissions' \in [VMs -> Nat]
      BY <1>1, ZenonT(30) DEF OpenCoach
    <2> QED
      BY <1>1, <2>1, <2>2, SMTT(30) DEF OpenCoach
  <1>2. CASE LeaveCoach
    <2>1. /\ status' \in [VMs -> Status] /\ finalTranscript' \in [VMs -> Text]
          /\ transcriptBuffer' \in [VMs -> Text]
          /\ currentAudioFile' \in [VMs -> Sessions \cup {None}]
      BY <1>2 DEF LeaveCoach, Status, Text
    <2>2. /\ tickers' \in [VMs -> Nat] /\ durationJob' \in [VMs -> BOOLEAN]
          /\ emissions' \in [VMs -> Nat] /\ inits' \in [VMs -> Nat]
      BY <1>2 DEF LeaveCoach
    <2>3. orphans' \in Nat
      BY <1>2, SMTT(30) DEF LeaveCoach, VMs
    <2>4. <<>> \in Seq(BOOLEAN) /\ <<>> \in Seq(Event)
      OBVIOUS
    <2>5. results' \in [VMs -> Seq(BOOLEAN)] /\ inbox' \in [VMs -> Seq(Event)]
      BY <1>2, <2>4 DEF LeaveCoach
    <2> QED
      BY <1>2, <2>1, <2>2, <2>3, <2>5 DEF LeaveCoach
  <1> QED
    BY <1>1, <1>2

LEMMA JobType ==
    ASSUME TypeOK, NEW s \in Sessions, Job(s)
    PROVE  TypeOK'
  <1>1. inbox' \in [VMs -> Seq(Event)]
    <2>1. UNCHANGED inbox \/ \E e \in Event : Emit(e)
      BY EventTypes DEF Job, Runs, ReadFails, OpenAudioFile, NeverDispatched, ReadSamples,
         LeaveLoop, WriteFails, NothingRecorded, UpdateWavHeader, LoadAudio, AudioFileEmpty,
         TranscriptionSucceeds, TranscriptionFails
    <2> QED
      BY <2>1, EmitType DEF TypeOK
  <1>2. step' \in [Sessions -> JobStep]
    BY DEF Job, Runs, ReadFails, OpenAudioFile, NeverDispatched, ReadSamples, LeaveLoop,
       WriteFails, NothingRecorded, UpdateWavHeader, LoadAudio, AudioFileEmpty,
       TranscriptionSucceeds, TranscriptionFails, TypeOK, JobStep
  <1>3. heard' \in [Sessions -> SUBSET Sessions]
    <2>1. CASE ReadSamples(s)
      <3>1. audioRecord \in Sessions
        BY <2>1 DEF ReadSamples, TypeOK
      <3> QED
        BY <2>1, <3>1 DEF ReadSamples, TypeOK
    <2>2. CASE ~ReadSamples(s)
      BY <2>2 DEF Job, Runs, ReadFails, OpenAudioFile, NeverDispatched, LeaveLoop,
         WriteFails, NothingRecorded, UpdateWavHeader, LoadAudio, AudioFileEmpty,
         TranscriptionSucceeds, TranscriptionFails, TypeOK
    <2> QED
      BY <2>1, <2>2
  <1>4. file' \in [Sessions -> {"absent", "audio", "stub"}]
    BY DEF Job, Runs, ReadFails, OpenAudioFile, NeverDispatched, ReadSamples, LeaveLoop,
       WriteFails, NothingRecorded, UpdateWavHeader, LoadAudio, AudioFileEmpty,
       TranscriptionSucceeds, TranscriptionFails, TypeOK
  <1>5. UNCHANGED jobFrame
    BY DEF Job, Runs, ReadFails, OpenAudioFile, NeverDispatched, ReadSamples, LeaveLoop,
       WriteFails, NothingRecorded, UpdateWavHeader, LoadAudio, AudioFileEmpty,
       TranscriptionSucceeds, TranscriptionFails
  <1> QED
    BY <1>1, <1>2, <1>3, <1>4, <1>5 DEF TypeOK, jobFrame, vmVars, tickVars, initVars,
       micVars, navVars, entryVars

LEMMA NextType == TypeOK /\ TickerInv /\ [Next]_vars => TypeOK'
  <1> SUFFICES ASSUME TypeOK, TickerInv, [Next]_vars PROVE TypeOK'
    OBVIOUS
  <1>1. CASE User
    BY <1>1, ScreenType, EntryType, NavigationType, InitializingType DEF User, VMs
  <1>2. ASSUME NEW v \in VMs, Initializing(v) \/ Collect(v) PROVE TypeOK'
    BY <1>2, InitializingType, CollectType
  <1>3. ASSUME NEW ok \in BOOLEAN, OrphanInitializeEnds(ok) PROVE TypeOK'
    BY <1>3, InitializingType DEF VMs
  <1>4. CASE Analyzing
    BY <1>4, EntryType
  <1>5. ASSUME NEW s \in Sessions, Job(s) PROVE TypeOK'
    BY <1>5, JobType
  <1>6. CASE UNCHANGED vars
    BY <1>6 DEF TypeOK, vars, vmVars, tickVars, initVars, micVars, jobVars, navVars,
       entryVars
  <1> QED
    BY <1>1, <1>2, <1>3, <1>4, <1>5, <1>6 DEF Next

-----------------------------------------------------------------------------
\* Every step of the system leaves a collector's inbox alone, takes its head,
\* drops it, or adds the event of a session that is through with that step.
LEMMA OutcomeStep ==
    ASSUME TypeOK, OneOutcomePerRecording,
           \A s \in Sessions : step[s] = "done" => step'[s] = "done",
           \A v \in VMs :
             \/ inbox'[v] = inbox[v]
             \/ inbox[v] # <<>> /\ inbox'[v] = Tail(inbox[v])
             \/ inbox'[v] = <<>>
             \/ \E e \in Event : /\ inbox'[v] = Append(inbox[v], e)
                                 /\ step[e.session] # "done"
                                 /\ step'[e.session] = "done"
    PROVE  OneOutcomePerRecording'
  <1> USE DEF OneOutcomePerRecording
  <1>1. SUFFICES ASSUME NEW v \in VMs
        PROVE  /\ \A i \in 1..Len(inbox'[v]) : step'[inbox'[v][i].session] = "done"
               /\ \A i, j \in 1..Len(inbox'[v]) :
                     inbox'[v][i].session = inbox'[v][j].session => i = j
    OBVIOUS
  <1>2. inbox[v] \in Seq(Event) /\ Len(inbox[v]) \in Nat
    BY DEF TypeOK
  <1>3. \A i \in 1..Len(inbox[v]) : /\ inbox[v][i].session \in Sessions
                                    /\ step[inbox[v][i].session] = "done"
                                    /\ step'[inbox[v][i].session] = "done"
    <2>1. \A i \in 1..Len(inbox[v]) : inbox[v][i] \in Event
      BY <1>2
    <2>2. \A i \in 1..Len(inbox[v]) : inbox[v][i].session \in Sessions
      BY <2>1 DEF Event
    <2> QED
      BY <2>2
  <1>4. CASE inbox'[v] = inbox[v]
    <2>1. \A i, j \in 1..Len(inbox[v]) :
            inbox[v][i].session = inbox[v][j].session => i = j
      OBVIOUS
    <2> QED
      BY <1>3, <1>4, <2>1
  <1>5. CASE inbox[v] # <<>> /\ inbox'[v] = Tail(inbox[v])
    <2>1. \A i \in 1..Len(inbox'[v]) : /\ i + 1 \in 1..Len(inbox[v])
                                       /\ inbox'[v][i] = inbox[v][i+1]
      BY <1>2, <1>5, TailFacts
    <2>2. \A k, m \in 1..Len(inbox[v]) :
            inbox[v][k].session = inbox[v][m].session => k = m
      OBVIOUS
    <2>3. ASSUME NEW i \in 1..Len(inbox'[v]), NEW j \in 1..Len(inbox'[v]),
                 inbox'[v][i].session = inbox'[v][j].session
          PROVE  i = j
      <3>1. i + 1 = j + 1
        BY <2>1, <2>2, <2>3, SMTT(30)
      <3> QED
        BY <3>1
    <2>4. \A i \in 1..Len(inbox'[v]) : step'[inbox'[v][i].session] = "done"
      BY <1>3, <2>1, SMTT(30)
    <2> QED
      BY <2>3, <2>4
  <1>6. CASE inbox'[v] = <<>>
    BY <1>6
  <1>7. ASSUME NEW e \in Event, inbox'[v] = Append(inbox[v], e),
               step[e.session] # "done", step'[e.session] = "done"
        PROVE  /\ \A i \in 1..Len(inbox'[v]) : step'[inbox'[v][i].session] = "done"
               /\ \A i, j \in 1..Len(inbox'[v]) :
                     inbox'[v][i].session = inbox'[v][j].session => i = j
    <2>1. \A i \in 1..Len(inbox'[v]) :
            \/ i \in 1..Len(inbox[v]) /\ inbox'[v][i] = inbox[v][i]
            \/ i = Len(inbox[v]) + 1 /\ inbox'[v][i] = e
      BY <1>2, <1>7, AppendFacts
    <2>2. \A i \in 1..Len(inbox[v]) : inbox[v][i].session # e.session
      BY <1>3, <1>7
    <2>3. ASSUME NEW i \in 1..Len(inbox'[v]), NEW j \in 1..Len(inbox'[v]),
                 inbox'[v][i].session = inbox'[v][j].session
          PROVE  i = j
      BY <2>1, <2>2, <2>3
    <2> QED
      BY <1>3, <1>7, <2>1, <2>3
  <1> QED
    BY <1>4, <1>5, <1>6, <1>7

LEMMA ScreenInv ==
    ASSUME IInv, NEW v \in VMs, Screen(v)
    PROVE  TickerInv' /\ OneOutcomePerRecording' /\ UnusedInv'
  <1> USE DEF IInv
  <1>1. ASSUME NEW s \in Sessions, NewRecording(v, s)
        PROVE  /\ TickerInv'
               /\ started' = s /\ s > started /\ step[s] = "unused"
    <2>1. started' = s /\ s > started
      BY <1>1 DEF NewRecording, TypeOK, Sessions
    <2>2. TickerInv'
      BY <1>1, SMTT(30) DEF NewRecording, TickerInv, TypeOK
    <2> QED
      BY <2>1, <2>2 DEF UnusedInv
  <1>2. CASE StartRecording(v)
    <2>1. PICK s \in Sessions : /\ NewRecording(v, s)
                                /\ step' = [step EXCEPT ![s] = "launched"]
                                /\ UNCHANGED inbox
      BY <1>2 DEF StartRecording
    <2>2. \A t \in Sessions : step[t] = "done" => step'[t] = "done"
      BY <1>1, <2>1 DEF TypeOK
    <2>3. UnusedInv'
      BY <1>1, <2>1 DEF UnusedInv, TypeOK, Sessions
    <2> QED
      BY <1>1, <2>1, <2>2, <2>3, OutcomeStep
  <1>3. CASE StartRecordingFails(v)
    <2>1. PICK s \in Sessions :
            /\ NewRecording(v, s)
            /\ step' = [step EXCEPT ![s] = "done"]
            /\ \A w \in VMs : inbox'[w] = inbox[w] \/ inbox'[w] = Append(inbox[w], ErrorOf(s))
      BY <1>3, ZenonT(30) DEF StartRecordingFails
    <2>2. \A t \in Sessions : step[t] = "done" => step'[t] = "done"
      BY <2>1 DEF TypeOK
    <2>3. UnusedInv'
      BY <1>1, <2>1 DEF UnusedInv, TypeOK, Sessions
    <2>4. /\ ErrorOf(s) \in Event /\ ErrorOf(s).session = s
          /\ step[s] # "done" /\ step'[s] = "done"
      BY <1>1, <2>1, EventTypes DEF ErrorOf, TypeOK
    <2>5. OneOutcomePerRecording'
      BY <2>1, <2>2, <2>4, OutcomeStep
    <2> QED
      BY <1>1, <2>1, <2>3, <2>5
  <1>4. CASE StopRecording(v) \/ CancelRecording(v)
    <2>1. CancelTicker(v) /\ UNCHANGED <<inbox, step, started>>
      BY <1>4 DEF StopRecording, CancelRecording, jobVars
    <2>2. TickerInv'
      BY <2>1 DEF CancelTicker, TickerInv, TypeOK
    <2>3. OneOutcomePerRecording'
      BY <2>1, OutcomeStep
    <2> QED
      BY <2>1, <2>2, <2>3 DEF UnusedInv
  <1> QED
    BY <1>2, <1>3, <1>4 DEF Screen

\* The steps that start no recording and no coroutine, and emit nothing.
LEMMA QuietInv ==
    ASSUME IInv, UNCHANGED <<tickVars, inbox, step, started>>
    PROVE  TickerInv' /\ OneOutcomePerRecording' /\ UnusedInv'
  <1>1. TickerInv' /\ UnusedInv'
    BY DEF IInv, TickerInv, UnusedInv, tickVars
  <1>2. OneOutcomePerRecording'
    BY OutcomeStep DEF IInv
  <1> QED
    BY <1>1, <1>2

LEMMA CollectInv ==
    ASSUME IInv, NEW v \in VMs, Collect(v)
    PROVE  TickerInv' /\ OneOutcomePerRecording' /\ UnusedInv'
  <1>1. /\ inbox[v] # <<>> /\ inbox' = [inbox EXCEPT ![v] = Tail(@)]
        /\ UNCHANGED <<tickVars, step, started>>
    BY DEF Collect, HandleFinal, HandleError, jobVars
  <1>2. OneOutcomePerRecording'
    BY <1>1, OutcomeStep DEF IInv, TypeOK
  <1> QED
    BY <1>1, <1>2 DEF IInv, TickerInv, UnusedInv, tickVars

LEMMA LeaveInv ==
    ASSUME IInv, LeaveCoach
    PROVE  TickerInv' /\ OneOutcomePerRecording' /\ UnusedInv'
  <1>1. /\ inbox' = [inbox EXCEPT ![Coach] = <<>>]
        /\ tickers' = [tickers EXCEPT ![Coach] = 0]
        /\ durationJob' = [durationJob EXCEPT ![Coach] = FALSE]
        /\ UNCHANGED <<step, started>>
    BY DEF LeaveCoach, jobVars
  <1>2. TickerInv'
    BY <1>1 DEF IInv, TickerInv, TypeOK
  <1>3. OneOutcomePerRecording'
    BY <1>1, OutcomeStep DEF IInv, TypeOK
  <1> QED
    BY <1>1, <1>2, <1>3 DEF IInv, UnusedInv

LEMMA JobInv ==
    ASSUME IInv, NEW s \in Sessions, Job(s)
    PROVE  TickerInv' /\ OneOutcomePerRecording' /\ UnusedInv'
  <1> USE DEF IInv
  <1>1. /\ step[s] \in Running
        /\ step' = [step EXCEPT ![s] = step'[s]]
        /\ UNCHANGED <<tickVars, started>>
    BY DEF Job, Runs, ReadFails, OpenAudioFile, NeverDispatched, ReadSamples, LeaveLoop,
       WriteFails, NothingRecorded, UpdateWavHeader, LoadAudio, AudioFileEmpty,
       TranscriptionSucceeds, TranscriptionFails, Running, jobFrame, TypeOK
  <1>2. \/ UNCHANGED inbox
        \/ step'[s] = "done" /\ \E e \in {ErrorOf(s), FinalOf(s)} : Emit(e)
    BY DEF Job, Runs, ReadFails, OpenAudioFile, NeverDispatched, ReadSamples, LeaveLoop,
       WriteFails, NothingRecorded, UpdateWavHeader, LoadAudio, AudioFileEmpty,
       TranscriptionSucceeds, TranscriptionFails, TypeOK
  <1>3. \A t \in Sessions : step[t] = "done" => step'[t] = "done"
    BY <1>1 DEF TypeOK, Running
  <1>4. OneOutcomePerRecording'
    <2>1. CASE UNCHANGED inbox
      BY <1>3, <2>1, OutcomeStep
    <2>2. ASSUME NEW e \in {ErrorOf(s), FinalOf(s)}, Emit(e), step'[s] = "done"
          PROVE  OneOutcomePerRecording'
      <3>1. e \in Event /\ e.session = s
        <4>1. ErrorOf(s) \in Event /\ FinalOf(s) \in Event
          BY EventTypes
        <4>2. ErrorOf(s).session = s /\ FinalOf(s).session = s
          BY DEF ErrorOf, FinalOf
        <4> QED
          BY <4>1, <4>2
      <3>2. step[e.session] # "done" /\ step'[e.session] = "done"
        BY <1>1, <2>2, <3>1 DEF Running
      <3>3. \A v \in VMs : inbox'[v] = inbox[v] \/ inbox'[v] = Append(inbox[v], e)
        BY <2>2 DEF Emit
      <3> QED
        BY <1>3, <3>1, <3>2, <3>3, OutcomeStep
    <2> QED
      BY <1>2, <2>1, <2>2
  <1>5. UnusedInv'
    BY <1>1 DEF UnusedInv, TypeOK, Running
  <1> QED
    BY <1>1, <1>4, <1>5 DEF TickerInv, tickVars

LEMMA InitInv == Init => IInv
  <1> SUFFICES ASSUME Init PROVE IInv
    OBVIOUS
  <1>1. \A v \in VMs : inbox[v] = <<>> /\ 1..Len(inbox[v]) = {}
    BY DEF Init
  <1>2. OneOutcomePerRecording
    BY <1>1 DEF OneOutcomePerRecording
  <1>3. TickerInv /\ UnusedInv
    BY DEF Init, TickerInv, UnusedInv
  <1> QED
    BY <1>2, <1>3, InitType DEF IInv

LEMMA NextInv == IInv /\ [Next]_vars => IInv'
  <1> SUFFICES ASSUME IInv, [Next]_vars PROVE IInv'
    OBVIOUS
  <1>1. TypeOK'
    BY NextType DEF IInv
  <1>2. ASSUME NEW v \in VMs, Screen(v)
        PROVE  TickerInv' /\ OneOutcomePerRecording' /\ UnusedInv'
    BY <1>2, ScreenInv
  <1>3. ASSUME \/ StartManualEntry \/ UpdateTranscript \/ AnalyzeTooShort
               \/ AnalyzeTranscript \/ Analyzing
        PROVE  TickerInv' /\ OneOutcomePerRecording' /\ UnusedInv'
    BY <1>3, QuietInv DEF StartManualEntry, UpdateTranscript, AnalyzeTooShort,
       AnalyzeTranscript, Analyzing, AnalysisReturns, SaveReturns, AnalysisFails,
       jobVars
  <1>4. ASSUME NEW v \in VMs, ChangeSettings \/ OpenCoach \/ Initializing(v)
        PROVE  TickerInv' /\ OneOutcomePerRecording' /\ UnusedInv'
    BY <1>4, QuietInv DEF ChangeSettings, OpenCoach, Initializing, InitializeStt,
       InitializeReturns, InitializeEnds, jobVars
  <1>5. ASSUME NEW ok \in BOOLEAN, OrphanInitializeEnds(ok)
        PROVE  TickerInv' /\ OneOutcomePerRecording' /\ UnusedInv'
    BY <1>5, QuietInv DEF OrphanInitializeEnds, jobVars
  <1>6. CASE UNCHANGED vars
    <2>1. UNCHANGED <<tickVars, inbox, step, started>>
      BY <1>6 DEF vars, jobVars
    <2> QED
      BY <1>1, <2>1, QuietInv DEF IInv
  <1> QED
    <2>1. ASSUME Next PROVE TickerInv' /\ OneOutcomePerRecording' /\ UnusedInv'
      <3>1. CASE User
        <4>1. Journal \in VMs
          BY DEF VMs
        <4> QED
          BY <1>2, <1>3, <1>4, <3>1, <4>1, LeaveInv DEF User
      <3>2. CASE \E v \in VMs : Initializing(v) \/ Collect(v)
        BY <1>4, <3>2, CollectInv
      <3>3. CASE \E s \in Sessions : Job(s)
        BY <3>3, JobInv
      <3> QED
        BY <1>3, <1>5, <2>1, <3>1, <3>2, <3>3 DEF Next
    <2> QED
      BY <1>1, <1>6, <2>1 DEF IInv

LEMMA Invariance == Spec => []IInv
  BY InitInv, NextInv, PTL DEF Spec

\* Every variable keeps its type, whatever the environment does.
THEOREM TypeCorrect == Spec => []TypeOK
  BY Invariance, PTL DEF IInv

\* A recording never has two outcomes, nor one while it may still have another.
THEOREM OneOutcome == Spec => []OneOutcomePerRecording
  BY Invariance, PTL DEF IInv
-----------------------------------------------------------------------------
(* One screen.  With the Journal alone in front, no edit of the settings   *)
(* and a user who waits for what a recording gives, the screen's status    *)
(* says which of its coroutines run.                                       *)

OneScreen == MaxVisits = 0 /\ MaxChanges = 0 /\ "impatient" \notin Env

\* The Journal's current recording.
Current == currentAudioFile[Journal]

Resting(s) == step[s] \in {"unused", "done"}

\* Nothing of the Communication screen ever exists.
Alone ==
    /\ ~coachOpen /\ visits = 0 /\ changes = 0 /\ orphans = 0
    /\ emissions[Coach] = 0 /\ inits[Coach] = 0 /\ results[Coach] = <<>>
    /\ inbox[Coach] = <<>> /\ currentAudioFile[Coach] = None
    /\ \A s \in Sessions : owner[s] = 0
    /\ \A a \in inFlight : a.vm = Journal
    /\ Current <= started

\* No recording is under way and no outcome waits.
Still == inbox[Journal] = <<>> /\ \A s \in Sessions : Resting(s)

\* A recording not started yet has heard nothing.
Fresh == \A s \in Sessions : step[s] = "unused" => heard[s] = {}

\* The engine has been initialised, once.
Settled == emissions[Journal] = 0 /\ inits[Journal] = 0 /\ results[Journal] = <<>>

Starting ==
    /\ \/ /\ status[Journal] = "IDLE"
          /\ emissions[Journal] = 1 /\ inits[Journal] = 0 /\ results[Journal] = <<>>
       \/ /\ status[Journal] = "INITIALIZING"
          /\ emissions[Journal] = 0 /\ inits[Journal] = 1 /\ results[Journal] = <<>>
       \/ /\ status[Journal] = "INITIALIZING"
          /\ emissions[Journal] = 0 /\ inits[Journal] = 0
          /\ results[Journal] = <<isInitialized>>
    /\ Still /\ inFlight = {}

\* A recording is under way, or its outcome waits.
Outcome(e) ==
    /\ step[Current] = "done" /\ e.session = Current
    /\ e.type = "Final" => e.text = {Current} /\ file[Current] = "audio"
Taking ==
    /\ status[Journal] \in {"RECORDING", "PROCESSING"}
    /\ Settled /\ inFlight = {}
    /\ Current \in Sessions /\ Current = started
    /\ transcriptBuffer[Journal] = {}
    /\ step[Current] # "unused"
    /\ \A s \in Sessions : s # Current => Resting(s)
    /\ inbox[Journal] = <<>> \/ \E e \in Event : inbox[Journal] = <<e>> /\ Outcome(e)
    /\ heard[Current] \subseteq {Current} /\ audioRecord \in {None, Current}
    /\ step[Current] \in {"loading", "whisper"} => heard[Current] # {}
    /\ ~Resting(Current) /\ step[Current] # "launched" => file[Current] = "audio"
    /\ status[Journal] = "RECORDING" => audioRecord = Current /\ Current \in openMics
    /\ status[Journal] = "PROCESSING" /\ ~Resting(Current) => service

\* Its text is being analysed.
Waiting ==
    /\ status[Journal] = "PROCESSING"
    /\ Settled /\ Still
    /\ \E a \in Analysis : /\ inFlight = {a}
                           /\ a.text = finalTranscript[Journal]
                           /\ a.text \subseteq {Current, Typed}
                           /\ a.saving => a.audio = Current

\* The screen waits for the user.
AtRest ==
    /\ status[Journal] \in {"READY", "REVIEWING", "SAVED", "ERROR"}
    /\ Settled /\ Still /\ inFlight = {}
    /\ status[Journal] = "REVIEWING" => finalTranscript[Journal] \subseteq {Current, Typed}

\* The microphone, when it never fails.
MicInv ==
    /\ openMics # {} => openMics = {audioRecord} /\ status[Journal] = "RECORDING"
    /\ status[Journal] = "RECORDING" => /\ step[Current] \in {"launched", "capturing", "done"}
                                        /\ inbox[Journal] = <<>>

\* The files, when nothing is typed.
SavedInv ==
    /\ SavedAudioSurvives
    /\ \A e \in entries : e.audio <= started
    /\ status[Journal] \in {"RECORDING", "PROCESSING", "REVIEWING"} =>
          Current \in Sessions /\ \A e \in entries : e.audio # Current
    /\ status[Journal] = "REVIEWING" \/ inFlight # {} => file[Current] = "audio"

OneScreenInv ==
    /\ OneScreen
    /\ Alone
    /\ Fresh
    /\ status[Journal] \in {"IDLE", "INITIALIZING", "ERROR"} \/ isInitialized
    /\ Starting \/ Taking \/ Waiting \/ AtRest
    /\ EntryIsItsRecording
    /\ "micFault" \notin Env => MicInv
    /\ "manual" \notin Env => SavedInv

LEMMA OneScreenFacts ==
    ASSUME TypeOK, OneScreenInv
    PROVE  /\ OneScreen /\ Alone /\ Fresh /\ started \in Nat
           /\ Journal \in VMs /\ Coach \in VMs /\ Journal # Coach
           /\ \A v \in VMs : v = Journal \/ v = Coach
           /\ \A v : OnTop(v) <=> v = Journal
           /\ \A s \in Sessions : isActive(s)
           /\ \A v \in VMs : Alive(v) <=> v = Journal
           /\ Current \in Sessions \cup {None} /\ None \notin Sessions
           /\ inbox[Journal] \in Seq(Event)
  <1>1. Journal \in VMs /\ Coach \in VMs /\ Journal # Coach
    BY DEF VMs, Journal, Coach
  <1>a. OneScreen /\ Alone /\ Fresh
    BY DEF OneScreenInv
  <1>b. started \in Nat
    BY DEF TypeOK
  <1>2. /\ \A v \in VMs : v = Journal \/ v = Coach
        /\ \A v : OnTop(v) <=> v = Journal
        /\ \A v \in VMs : Alive(v) <=> v = Journal
    BY <1>1, <1>a DEF VMs, OnTop, Alive, Alone
  <1>3. \A s \in Sessions : isActive(s)
    BY <1>a DEF isActive, Alone
  <1>4. Current \in Sessions \cup {None} /\ None \notin Sessions
    BY <1>1 DEF Current, TypeOK, None, Sessions
  <1>5. inbox[Journal] \in Seq(Event)
    BY <1>1 DEF TypeOK
  <1> QED
    BY <1>1, <1>2, <1>3, <1>4, <1>5, <1>a, <1>b

\* A step that leaves everything alone but the named variables of the Journal
\* keeps the Communication screen closed.
LEMMA StaysAlone ==
    ASSUME TypeOK, Alone, UNCHANGED <<navVars, changes, orphans>>,
           emissions'[Coach] = emissions[Coach], inits'[Coach] = inits[Coach],
           results'[Coach] = results[Coach], inbox'[Coach] = inbox[Coach],
           currentAudioFile'[Coach] = currentAudioFile[Coach],
           \A s \in Sessions : owner'[s] = 0,
           \A a \in inFlight' : a.vm = Journal,
           Current' <= started'
    PROVE  Alone'
  BY DEF Alone, navVars

LEMMA OneScreenInit == OneScreen /\ Init => OneScreenInv
  <1> SUFFICES ASSUME OneScreen, Init PROVE OneScreenInv
    OBVIOUS
  <1> USE DEF Init, VMs, Journal, Coach
  <1>1. Alone
    BY DEF Alone, Current, None
  <1>2. Starting
    BY DEF Starting, Still, Resting
  <1>3. EntryIsItsRecording /\ MicInv /\ SavedInv
    BY DEF EntryIsItsRecording, MicInv, SavedInv, SavedAudioSurvives
  <1>4. status[Journal] = "IDLE" /\ Fresh
    BY DEF Fresh
  <1> QED
    BY <1>1, <1>2, <1>3, <1>4 DEF OneScreenInv

\* The steps the environment of one screen rules out.
LEMMA RuledOut ==
    ASSUME TypeOK, OneScreenInv
    PROVE  /\ ~ChangeSettings /\ ~OpenCoach /\ ~LeaveCoach
           /\ \A ok \in BOOLEAN : ~OrphanInitializeEnds(ok)
           /\ \A v \in VMs : v # Journal => ~Screen(v) /\ ~Initializing(v) /\ ~Collect(v)
  <1>0. /\ OneScreen /\ Alone /\ Coach \in VMs /\ \A v \in VMs : v = Journal \/ v = Coach
        /\ \A v : OnTop(v) <=> v = Journal
    BY OneScreenFacts
  <1> USE <1>0 DEF Alone, OneScreen
  <1>1. ~ChangeSettings
    BY DEF ChangeSettings
  <1>2. ~OpenCoach
    BY DEF OpenCoach
  <1>3. ~LeaveCoach
    BY DEF LeaveCoach
  <1>4. ASSUME NEW ok \in BOOLEAN PROVE ~OrphanInitializeEnds(ok)
    BY DEF OrphanInitializeEnds
  <1>5. ASSUME NEW v \in VMs, v # Journal
        PROVE  ~Screen(v) /\ ~Initializing(v) /\ ~Collect(v)
    <2>1. v = Coach
      BY <1>5
    <2>2. ~Screen(v)
      BY <1>5 DEF Screen, StartRecording, StartRecordingFails, NewRecording, StartOffered,
         StopRecording, CancelRecording
    <2>3. ~Initializing(v)
      <3>1. emissions[v] = 0 /\ inits[v] = 0 /\ results[v] = <<>>
        BY <2>1
      <3>2. ~(0 > 0)
        OBVIOUS
      <3> QED
        BY <3>1, <3>2, Zenon DEF Initializing, InitializeStt, InitializeEnds,
           InitializeReturns
    <2>4. ~Collect(v)
      BY <2>1 DEF Collect, HandleFinal, HandleError
    <2> QED
      BY <2>2, <2>3, <2>4
  <1> QED
    BY <1>1, <1>2, <1>3, <1>4, <1>5

LEMMA InitializingOne ==
    ASSUME TypeOK, OneScreenInv, Initializing(Journal)
    PROVE  OneScreenInv'
  <1>a. /\ Journal \in VMs /\ Coach \in VMs /\ Journal # Coach /\ OneScreen /\ Alone
        /\ None \notin Sessions
        /\ emissions[Journal] \in Nat /\ inits[Journal] \in Nat
    <2>1. emissions[Journal] \in Nat /\ inits[Journal] \in Nat
      BY DEF TypeOK, VMs
    <2> QED
      BY <2>1, OneScreenFacts
  <1>b. \/ emissions[Journal] > 0 \/ inits[Journal] > 0 \/ results[Journal] # <<>>
    BY DEF Initializing, InitializeStt, InitializeEnds, InitializeReturns
  <1>c. Starting
    BY <1>a, <1>b DEF OneScreenInv, Taking, Waiting, AtRest, Settled
  <1>d. /\ UNCHANGED <<finalTranscript, transcriptBuffer, currentAudioFile, tickVars,
                       orphans, changes, inbox, micVars, jobVars, navVars, entryVars,
                       service>>
        /\ emissions'[Coach] = emissions[Coach] /\ inits'[Coach] = inits[Coach]
        /\ results'[Coach] = results[Coach]
    BY <1>a DEF Initializing, InitializeStt, InitializeEnds, InitializeReturns, TypeOK,
       vmVars
  <1>1. Alone'
    <2>1. Current' <= started'
      BY <1>a, <1>d DEF Current, Alone, jobVars
    <2> QED
      BY <1>a, <1>d, <2>1, StaysAlone DEF Alone, entryVars, jobVars
  <1>2. Still' /\ inFlight' = {}
    BY <1>c, <1>d DEF Still, Resting, Starting, jobVars, entryVars
  <1>3. /\ status'[Journal] \in {"INITIALIZING", "READY", "ERROR"}
        /\ status'[Journal] = "READY" => isInitialized'
        /\ Starting' \/ AtRest'
    <2>1. CASE InitializeStt(Journal)
      <3>1. /\ status[Journal] = "IDLE" /\ emissions[Journal] = 1
            /\ inits[Journal] = 0 /\ results[Journal] = <<>>
        BY <1>a, <1>c, <2>1 DEF InitializeStt, Starting
      <3>2. /\ status'[Journal] = "INITIALIZING" /\ emissions'[Journal] = 0
            /\ inits'[Journal] = 1 /\ results'[Journal] = <<>>
        BY <1>a, <2>1, <3>1 DEF InitializeStt, TypeOK
      <3> QED
        BY <1>2, <3>2 DEF Starting
    <2>2. ASSUME NEW ok \in BOOLEAN, InitializeEnds(Journal, ok)
          PROVE  Starting' /\ status'[Journal] = "INITIALIZING"
      <3>1. /\ status[Journal] = "INITIALIZING" /\ emissions[Journal] = 0
            /\ inits[Journal] = 1 /\ results[Journal] = <<>>
        BY <1>a, <1>c, <2>2 DEF InitializeEnds, Starting
      <3>2. Append(<<>>, ok) = <<ok>>
        OBVIOUS
      <3>3. /\ status'[Journal] = "INITIALIZING" /\ emissions'[Journal] = 0
            /\ inits'[Journal] = 0
        BY <1>a, <2>2, <3>1 DEF InitializeEnds, TypeOK, vmVars
      <3>4. results'[Journal] = <<isInitialized'>>
        BY <1>a, <2>2, <3>1, <3>2 DEF InitializeEnds, TypeOK
      <3> QED
        BY <1>2, <3>3, <3>4 DEF Starting
    <2>3. CASE InitializeReturns(Journal)
      <3>1. /\ emissions[Journal] = 0 /\ inits[Journal] = 0
            /\ results[Journal] = <<isInitialized>>
        BY <1>a, <1>c, <2>3 DEF InitializeReturns, Starting
      <3>2. Head(<<isInitialized>>) = isInitialized /\ Tail(<<isInitialized>>) = <<>>
        OBVIOUS
      <3>3. /\ status'[Journal] = (IF isInitialized THEN "READY" ELSE "ERROR")
            /\ UNCHANGED isInitialized
        BY <1>a, <2>3, <3>1, <3>2 DEF InitializeReturns, TypeOK
      <3>4. Settled'
        BY <1>a, <2>3, <3>1, <3>2 DEF InitializeReturns, TypeOK, Settled
      <3> QED
        BY <1>2, <3>3, <3>4 DEF AtRest
    <2> QED
      BY <2>1, <2>2, <2>3 DEF Initializing, Starting, InitializeStt, TypeOK
  <1>4. EntryIsItsRecording'
    BY <1>d DEF OneScreenInv, EntryIsItsRecording, entryVars
  <1>5. MicInv => MicInv'
    BY <1>c, <1>d, <1>3 DEF MicInv, micVars, Starting
  <1>6. SavedInv => SavedInv'
    BY <1>d, <1>2, <1>3 DEF SavedInv, SavedAudioSurvives, entryVars, jobVars
  <1>7. Fresh'
    BY <1>a, <1>d, OneScreenFacts DEF Fresh, jobVars
  <1> QED
    BY <1>a, <1>1, <1>3, <1>4, <1>5, <1>6, <1>7 DEF OneScreenInv, OneScreen

LEMMA StartOne ==
    ASSUME TypeOK, TypeOK', UnusedInv, OneScreenInv,
           StartRecording(Journal) \/ StartRecordingFails(Journal)
    PROVE  OneScreenInv'
  <1>a. /\ Journal \in VMs /\ Coach \in VMs /\ Journal # Coach /\ OneScreen /\ Alone
        /\ None \notin Sessions /\ Current \in Sessions \cup {None} /\ started \in Nat
    BY OneScreenFacts
  <1>b. AtRest /\ status[Journal] \in {"READY", "SAVED"} /\ isInitialized
    <2>1. status[Journal] \in {"READY", "SAVED"}
      BY <1>a DEF StartRecording, StartRecordingFails, NewRecording, StartOffered
    <2> QED
      BY <2>1 DEF OneScreenInv, Starting, Taking, Waiting
  <1>c. PICK s \in Sessions :
          /\ NewRecording(Journal, s)
          /\ \/ /\ status' = [status EXCEPT ![Journal] = "RECORDING"]
                /\ audioRecord' = s /\ openMics' = openMics \cup {s}
                /\ step' = [step EXCEPT ![s] = "launched"]
                /\ UNCHANGED <<inbox, service>>
             \/ /\ status'[Journal] = "ERROR" /\ "micFault" \in Env
                /\ step' = [step EXCEPT ![s] = "done"]
                /\ \A v \in VMs : inbox'[v] = inbox[v]
    <2>1. CASE StartRecording(Journal)
      BY <2>1, Zenon DEF StartRecording
    <2>2. CASE StartRecordingFails(Journal)
      <3> DEFINE now == {w \in VMs : Alive(w) /\ inbox[w] = <<>>}
      <3>1. inbox[Journal] = <<>> /\ \A w \in VMs : Alive(w) <=> w = Journal
        BY <1>a, <1>b, OneScreenFacts DEF AtRest, Still
      <3>2. Journal \in now /\ \A w \in VMs : ~(Alive(w) /\ w \notin now)
        BY <1>a, <3>1
      <3>3. PICK s \in Sessions :
              /\ NewRecording(Journal, s)
              /\ \/ ~isInitialized
                 \/ "micFault" \in Env
              /\ status' = [w \in VMs |-> IF w \in now THEN "ERROR"
                                          ELSE IF w = Journal THEN "RECORDING" ELSE status[w]]
              /\ inbox' = [w \in VMs |-> IF Alive(w) /\ w \notin now
                                         THEN Append(inbox[w], ErrorOf(s)) ELSE inbox[w]]
              /\ step' = [step EXCEPT ![s] = "done"]
        BY <2>2, Zenon DEF StartRecordingFails
      <3>4. status'[Journal] = "ERROR" /\ \A v \in VMs : inbox'[v] = inbox[v]
        <4> HIDE DEF now
        <4> QED
          BY <1>a, <3>2, <3>3
      <3> QED
        BY <1>b, <3>3, <3>4
    <2> QED
      BY <2>1, <2>2
  <1>d. /\ s = started + 1 /\ started' = s /\ owner' = [owner EXCEPT ![s] = 0]
        /\ Current' = s /\ currentAudioFile'[Coach] = currentAudioFile[Coach]
        /\ transcriptBuffer'[Journal] = {}
        /\ UNCHANGED <<initVars, isInitialized, heard, file, navVars, entryVars>>
    BY <1>a, <1>c DEF NewRecording, NewAudioFile, ClearBuffer, TypeOK, Current
  <1>e. \A t \in Sessions : t # s => step'[t] = step[t]
    BY <1>c DEF TypeOK
  <1>f. step[s] = "unused" /\ heard[s] = {} /\ s > started
    <2>1. s > started
      BY <1>a, <1>d
    <2> QED
      BY <2>1, OneScreenFacts DEF UnusedInv, Fresh
  <1>g. \A t \in Sessions : t # s => Resting(t)'
    BY <1>b, <1>e DEF AtRest, Still, Resting
  <1>1. Alone'
    <2>1. \A t \in Sessions : owner'[t] = 0
      BY <1>a, <1>d DEF Alone, TypeOK
    <2>2. /\ UNCHANGED <<navVars, changes, orphans, emissions, inits, results>>
          /\ inbox'[Coach] = inbox[Coach] /\ Current' <= started'
          /\ \A a \in inFlight' : a.vm = Journal
      BY <1>a, <1>c, <1>d DEF initVars, entryVars, Alone
    <2> QED
      BY <1>a, <1>d, <2>1, <2>2, StaysAlone
  <1>2. Fresh'
    <2>1. step'[s] # "unused"
      BY <1>c DEF TypeOK
    <2> QED
      BY <1>d, <1>e, <2>1, OneScreenFacts DEF Fresh
  <1>h. EntryIsItsRecording' /\ isInitialized'
    BY <1>a, <1>b, <1>d DEF OneScreenInv, EntryIsItsRecording, entryVars
  <1>i. SavedInv => SavedInv'
    <2>1. \A e \in entries : e.audio \in Nat
      BY DEF TypeOK, Entry, Sessions, None
    <2>2. \A e \in entries : e.audio <= started => e.audio <= s /\ e.audio # s
      BY <1>a, <1>d, <2>1
    <2>3. inFlight' = {} /\ status'[Journal] # "REVIEWING"
      <3>1. inFlight' = {}
        BY <1>b, <1>d DEF AtRest, entryVars
      <3>2. status'[Journal] # "REVIEWING"
        BY <1>a, <1>c DEF TypeOK
      <3> QED
        BY <3>1, <3>2
    <2> QED
      BY <1>d, <2>2, <2>3 DEF SavedInv, SavedAudioSurvives, entryVars
  <1>3. CASE status'[Journal] = "ERROR"
    <2>1. Still'
      <3>1. step'[s] = "done" /\ inbox'[Journal] = <<>>
        BY <1>a, <1>b, <1>c, <1>3 DEF TypeOK, AtRest, Still
      <3> QED
        BY <1>g, <3>1 DEF Still, Resting
    <2>2. AtRest'
      BY <1>b, <1>d, <1>3, <2>1 DEF AtRest, Settled, initVars, entryVars
    <2>4. "micFault" \in Env
      BY <1>a, <1>c, <1>3 DEF TypeOK
    <2> QED
      BY <1>a, <1>d, <1>1, <1>2, <1>h, <1>i, <2>2, <2>4 DEF OneScreenInv, OneScreen
  <1>4. CASE status'[Journal] = "RECORDING"
    <2>1. /\ audioRecord' = s /\ openMics' = openMics \cup {s}
          /\ step'[s] = "launched" /\ UNCHANGED <<inbox, service>>
      BY <1>c, <1>4 DEF TypeOK
    <2>2. Taking'
      BY <1>b, <1>d, <1>f, <1>g, <1>4, <2>1 DEF Taking, AtRest, Still, Settled, initVars,
         entryVars, Resting, Current
    <2>3. MicInv => MicInv'
      BY <1>b, <1>d, <1>4, <2>1 DEF MicInv, AtRest, Still
    <2> QED
      BY <1>a, <1>d, <1>1, <1>2, <1>h, <1>i, <2>2, <2>3 DEF OneScreenInv, OneScreen
  <1> QED
    BY <1>a, <1>c, <1>3, <1>4 DEF TypeOK

LEMMA StopOne ==
    ASSUME TypeOK, TypeOK', OneScreenInv, StopRecording(Journal)
    PROVE  OneScreenInv'
  <1>a. /\ Journal \in VMs /\ Coach \in VMs /\ Journal # Coach /\ OneScreen /\ Alone
        /\ None \notin Sessions /\ Current \in Sessions \cup {None} /\ Fresh
    BY OneScreenFacts
  <1>b. Taking /\ status[Journal] = "RECORDING" /\ isInitialized
    BY DEF StopRecording, OneScreenInv, Starting, Waiting, AtRest
  <1>c. /\ status' = [status EXCEPT ![Journal] = "PROCESSING"]
        /\ status'[Journal] = "PROCESSING" /\ service'
        /\ openMics' = openMics \ {audioRecord} /\ audioRecord' = None
        /\ UNCHANGED <<finalTranscript, transcriptBuffer, currentAudioFile, initVars,
                       inbox, isInitialized, jobVars, navVars, entryVars>>
    BY <1>a DEF StopRecording, StartService, StopListening, TypeOK
  <1>1. Alone' /\ Fresh'
    BY <1>a, <1>c DEF Alone, Fresh, Current, initVars, jobVars, navVars, entryVars
  <1>2. Taking'
    BY <1>b, <1>c DEF Taking, Settled, initVars, jobVars, entryVars, Current, Resting, Outcome
  <1>3. EntryIsItsRecording'
    BY <1>c DEF OneScreenInv, EntryIsItsRecording, entryVars
  <1>4. MicInv => MicInv'
    BY <1>b, <1>c DEF MicInv
  <1>5. SavedInv => SavedInv'
    BY <1>b, <1>c DEF SavedInv, SavedAudioSurvives, entryVars, jobVars, Current
  <1> QED
    BY <1>a, <1>b, <1>c, <1>1, <1>2, <1>3, <1>4, <1>5 DEF OneScreenInv, OneScreen

LEMMA CancelOne ==
    ASSUME TypeOK, TypeOK', OneScreenInv, CancelRecording(Journal)
    PROVE  OneScreenInv'
  <1>a. /\ Journal \in VMs /\ Coach \in VMs /\ Journal # Coach /\ OneScreen /\ Alone
        /\ None \notin Sessions /\ Current \in Sessions \cup {None} /\ Fresh
    BY OneScreenFacts
  <1>b. AtRest /\ status[Journal] = "REVIEWING" /\ isInitialized
    <2>1. status[Journal] = "REVIEWING"
      BY <1>a DEF CancelRecording, OneScreen
    <2> QED
      BY <2>1 DEF OneScreenInv, Starting, Taking, Waiting
  <1>c. /\ status'[Journal] = "READY"
        /\ openMics' = openMics \ {audioRecord} /\ audioRecord' = None
        /\ file' = [s \in Sessions |-> IF s = Current THEN "absent" ELSE file[s]]
        /\ Current' = None /\ currentAudioFile'[Coach] = currentAudioFile[Coach]
        /\ UNCHANGED <<transcriptBuffer, initVars, inbox, isInitialized, started, step,
                       owner, heard, navVars, entryVars>>
    BY <1>a DEF CancelRecording, StopListening, TypeOK, Current
  <1>1. Alone' /\ Fresh'
    <2>1. None <= started
      BY OneScreenFacts DEF None
    <2> QED
      BY <1>a, <1>c, <2>1 DEF Alone, Fresh, initVars, navVars, entryVars
  <1>2. AtRest'
    BY <1>b, <1>c DEF AtRest, Settled, Still, Resting, initVars, entryVars
  <1>3. EntryIsItsRecording'
    BY <1>c DEF OneScreenInv, EntryIsItsRecording, entryVars
  <1>4. MicInv => MicInv'
    BY <1>b, <1>c DEF MicInv
  <1>5. SavedInv => SavedInv'
    <2>1. SavedInv => SavedAudioSurvives'
      BY <1>a, <1>b, <1>c DEF SavedInv, SavedAudioSurvives, entryVars, TypeOK, Entry
    <2> QED
      BY <1>b, <1>c, <2>1 DEF SavedInv, AtRest, entryVars
  <1> QED
    BY <1>a, <1>b, <1>c, <1>1, <1>2, <1>3, <1>4, <1>5 DEF OneScreenInv, OneScreen

LEMMA TypedOne ==
    ASSUME TypeOK, TypeOK', OneScreenInv,
           StartManualEntry \/ UpdateTranscript \/ AnalyzeTooShort
    PROVE  OneScreenInv'
  <1>a. /\ Journal \in VMs /\ Coach \in VMs /\ Journal # Coach /\ OneScreen /\ Alone
        /\ None \notin Sessions /\ Current \in Sessions \cup {None} /\ Fresh
    BY OneScreenFacts
  <1>b. AtRest /\ status[Journal] \in {"READY", "SAVED", "REVIEWING"} /\ isInitialized
    <2>1. status[Journal] \in {"READY", "SAVED", "REVIEWING"}
      BY DEF StartManualEntry, UpdateTranscript, AnalyzeTooShort
    <2> QED
      BY <2>1 DEF OneScreenInv, Starting, Taking, Waiting, StartManualEntry,
         UpdateTranscript, AnalyzeTooShort
  <1>c. UNCHANGED <<currentAudioFile, tickVars, initVars, inbox, isInitialized,
                    micVars, jobVars, navVars, entryVars, service>>
    BY DEF StartManualEntry, UpdateTranscript, AnalyzeTooShort
  <1>d. /\ status'[Journal] \in {"READY", "REVIEWING"}
        /\ status'[Journal] = "REVIEWING" =>
              finalTranscript'[Journal] \subseteq {Current, Typed}
        /\ status'[Journal] = "REVIEWING" => "manual" \in Env
    <2>1. CASE StartManualEntry
      BY <1>a, <2>1 DEF StartManualEntry, TypeOK
    <2>2. CASE UpdateTranscript
      <3>1. finalTranscript[Journal] \subseteq {Current, Typed}
        BY <1>b, <2>2 DEF AtRest, UpdateTranscript
      <3>2. /\ finalTranscript'[Journal] \subseteq finalTranscript[Journal] \cup {Typed}
            /\ status'[Journal] = "REVIEWING" /\ "manual" \in Env
        <4>1. PICK text \in {finalTranscript[Journal] \cup {Typed}, {Typed}} :
                finalTranscript' = [finalTranscript EXCEPT ![Journal] = text]
          BY <2>2 DEF UpdateTranscript
        <4>2. finalTranscript'[Journal] = text
          BY <1>a, <4>1 DEF TypeOK
        <4> QED
          BY <2>2, <4>2 DEF UpdateTranscript
      <3> QED
        BY <3>1, <3>2
    <2>3. CASE AnalyzeTooShort
      BY <1>a, <2>3 DEF AnalyzeTooShort, TypeOK
    <2> QED
      BY <2>1, <2>2, <2>3
  <1>1. Alone' /\ Fresh'
    BY <1>a, <1>c DEF Alone, Fresh, Current, initVars, jobVars, navVars, entryVars
  <1>2. AtRest'
    BY <1>b, <1>c, <1>d DEF AtRest, Settled, Still, Resting, initVars, entryVars, jobVars,
       Current
  <1>3. EntryIsItsRecording'
    BY <1>c DEF OneScreenInv, EntryIsItsRecording, entryVars
  <1>4. MicInv => MicInv'
    BY <1>b, <1>c, <1>d DEF MicInv, micVars
  <1>5. "manual" \notin Env => (SavedInv => SavedInv')
    BY <1>b, <1>c, <1>d DEF SavedInv, SavedAudioSurvives, entryVars, jobVars, Current, AtRest
  <1> QED
    BY <1>a, <1>b, <1>c, <1>d, <1>1, <1>2, <1>3, <1>4, <1>5 DEF OneScreenInv, OneScreen

LEMMA AnalyzeOne ==
    ASSUME TypeOK, TypeOK', OneScreenInv, AnalyzeTranscript
    PROVE  OneScreenInv'
  <1>a. /\ Journal \in VMs /\ Coach \in VMs /\ Journal # Coach /\ OneScreen /\ Alone
        /\ None \notin Sessions /\ Current \in Sessions \cup {None} /\ Fresh
    BY OneScreenFacts
  <1>b. AtRest /\ status[Journal] = "REVIEWING" /\ isInitialized
    BY DEF AnalyzeTranscript, OneScreenInv, Starting, Taking, Waiting
  <1> DEFINE a == [id |-> analyses + 1, vm |-> Journal, text |-> finalTranscript[Journal],
                   audio |-> None, saving |-> FALSE]
  <1>c. /\ inFlight' = {a} /\ status'[Journal] = "PROCESSING"
        /\ UNCHANGED <<finalTranscript, transcriptBuffer, currentAudioFile, tickVars,
                       initVars, inbox, isInitialized, micVars, jobVars, navVars,
                       entries, service>>
    BY <1>a, <1>b DEF AnalyzeTranscript, AtRest, TypeOK
  <1>d. a \in Analysis /\ a.vm = Journal /\ a.text = finalTranscript[Journal] /\ ~a.saving
    BY <1>c DEF TypeOK
  <1> HIDE DEF a
  <1>1. Alone' /\ Fresh'
    BY <1>a, <1>c, <1>d DEF Alone, Fresh, Current, initVars, jobVars, navVars
  <1>2. Waiting'
    BY <1>b, <1>c, <1>d DEF AtRest, Waiting, Settled, Still, Resting, initVars, jobVars,
       Current
  <1>3. EntryIsItsRecording'
    BY <1>c DEF OneScreenInv, EntryIsItsRecording
  <1>4. MicInv => MicInv'
    BY <1>b, <1>c DEF MicInv, micVars
  <1>5. SavedInv => SavedInv'
    BY <1>b, <1>c DEF SavedInv, SavedAudioSurvives, jobVars, Current
  <1> QED
    BY <1>a, <1>b, <1>c, <1>1, <1>2, <1>3, <1>4, <1>5 DEF OneScreenInv, OneScreen

LEMMA AnalyzingOne ==
    ASSUME TypeOK, TypeOK', OneScreenInv, Analyzing
    PROVE  OneScreenInv'
  <1>a. /\ Journal \in VMs /\ Coach \in VMs /\ Journal # Coach /\ OneScreen /\ Alone
        /\ None \notin Sessions /\ Current \in Sessions \cup {None} /\ Fresh
    BY OneScreenFacts
  <1>b. Waiting /\ isInitialized
    BY DEF Analyzing, OneScreenInv, Starting, Taking, AtRest, Waiting
  <1>c. PICK a \in Analysis : /\ inFlight = {a} /\ a.vm = Journal
                              /\ a.text = finalTranscript[Journal]
                              /\ a.text \subseteq {Current, Typed}
                              /\ a.saving => a.audio = Current
    BY <1>a, <1>b DEF Waiting, Alone
  <1>d. AnalysisReturns(a) \/ SaveReturns(a) \/ AnalysisFails(a)
    BY <1>c DEF Analyzing
  <1>e. UNCHANGED <<finalTranscript, transcriptBuffer, currentAudioFile, tickVars,
                    initVars, inbox, isInitialized, micVars, jobVars, navVars, service>>
    BY <1>d DEF AnalysisReturns, SaveReturns, AnalysisFails, vmVars
  <1>f. status[Journal] = "PROCESSING" /\ Settled' /\ Still'
    BY <1>b, <1>e DEF Waiting, Settled, Still, Resting, initVars, jobVars
  <1>g. Fresh' /\ (\A b \in inFlight' : b.vm = Journal) => Alone'
    BY <1>a, <1>e DEF Alone, Current, initVars, navVars, jobVars
  <1>h. Fresh'
    BY <1>a, <1>e DEF Fresh, jobVars
  <1>1. CASE AnalysisReturns(a)
    <2> DEFINE b == [a EXCEPT !.audio = currentAudioFile[a.vm], !.saving = TRUE]
    <2>1. inFlight' = {b} /\ UNCHANGED <<status, entries>>
      BY <1>c, <1>1 DEF AnalysisReturns, vmVars
    <2>2. b \in Analysis /\ b.vm = a.vm /\ b.text = a.text /\ b.audio = Current
      BY <1>c, <2>1 DEF Analysis, TypeOK, Current
    <2> HIDE DEF b
    <2>3. Waiting'
      BY <1>c, <1>e, <1>f, <2>1, <2>2 DEF Waiting, Current
    <2>4. Alone'
      BY <1>c, <1>g, <1>h, <2>1, <2>2
    <2>5. EntryIsItsRecording'
      BY <2>1 DEF OneScreenInv, EntryIsItsRecording
    <2>6. MicInv => MicInv'
      BY <1>e, <2>1 DEF MicInv, micVars, jobVars, Current
    <2>7. SavedInv => SavedInv'
      BY <1>c, <1>e, <2>1 DEF SavedInv, SavedAudioSurvives, jobVars, Current
    <2> QED
      BY <1>a, <1>b, <1>e, <1>h, <2>3, <2>4, <2>5, <2>6, <2>7 DEF OneScreenInv, OneScreen
  <1>2. CASE SaveReturns(a) \/ AnalysisFails(a)
    <2>1. /\ inFlight' = {} /\ status'[Journal] \in {"SAVED", "ERROR"}
          /\ \/ UNCHANGED entries
             \/ a.saving /\ entries' = entries \cup
                               {[id |-> a.id, text |-> a.text, audio |-> a.audio]}
      BY <1>a, <1>c, <1>2 DEF SaveReturns, AnalysisFails, TypeOK
    <2>2. AtRest'
      BY <1>f, <2>1 DEF AtRest
    <2>3. Alone'
      BY <1>g, <1>h, <2>1
    <2>4. EntryIsItsRecording'
      <3>1. CASE UNCHANGED entries
        BY <3>1 DEF OneScreenInv, EntryIsItsRecording
      <3>2. CASE a.saving /\ entries' = entries \cup
                               {[id |-> a.id, text |-> a.text, audio |-> a.audio]}
        <4>1. a.audio = Current /\ a.text \subseteq {Current, Typed}
          BY <1>c, <3>2
        <4>2. a.text \ {Typed} # {} => a.text \ {Typed} = {a.audio}
          BY <4>1
        <4> QED
          BY <3>2, <4>2 DEF OneScreenInv, EntryIsItsRecording
      <3> QED
        BY <2>1, <3>1, <3>2
    <2>5. MicInv => MicInv'
      BY <1>e, <1>f, <2>1 DEF MicInv, micVars, jobVars, Current
    <2>6. SavedInv => SavedInv'
      <3>1. SavedInv => file[Current] = "audio" /\ Current \in Sessions /\ Current <= started
        BY <1>a, <1>c, <1>f DEF SavedInv, Alone
      <3>2. CASE UNCHANGED entries
        BY <1>e, <2>1, <3>2 DEF SavedInv, SavedAudioSurvives, jobVars
      <3>3. CASE a.saving /\ entries' = entries \cup
                               {[id |-> a.id, text |-> a.text, audio |-> a.audio]}
        <4>1. a.audio = Current
          BY <1>c, <3>3
        <4> QED
          BY <1>e, <2>1, <3>1, <3>3, <4>1 DEF SavedInv, SavedAudioSurvives, jobVars
      <3> QED
        BY <2>1, <3>2, <3>3
    <2> QED
      BY <1>a, <1>b, <1>e, <1>h, <2>1, <2>2, <2>3, <2>4, <2>5, <2>6 DEF OneScreenInv, OneScreen
  <1> QED
    BY <1>d, <1>1, <1>2

LEMMA CollectOne ==
    ASSUME TypeOK, TypeOK', OneScreenInv, Collect(Journal)
    PROVE  OneScreenInv'
  <1>a. /\ Journal \in VMs /\ Coach \in VMs /\ Journal # Coach /\ OneScreen /\ Alone
        /\ None \notin Sessions /\ Current \in Sessions \cup {None} /\ Fresh
    BY OneScreenFacts
  <1>b. Taking /\ isInitialized /\ inbox[Journal] # <<>>
    BY DEF Collect, HandleFinal, HandleError, OneScreenInv, Starting, AtRest, Waiting, Still,
       Taking
  <1>c. PICK e \in Event : inbox[Journal] = <<e>> /\ Outcome(e)
    BY <1>b DEF Taking
  <1>d. Head(<<e>>) = e /\ Tail(<<e>>) = <<>>
    OBVIOUS
  <1>e. /\ inbox'[Journal] = <<>> /\ inbox'[Coach] = inbox[Coach]
        /\ UNCHANGED <<currentAudioFile, tickVars, initVars, isInitialized, micVars,
                       jobVars, navVars, entryVars>>
    <2>1. inbox' = [inbox EXCEPT ![Journal] = Tail(inbox[Journal])]
      BY DEF Collect, HandleFinal, HandleError
    <2>2. UNCHANGED <<currentAudioFile, tickVars, initVars, isInitialized, micVars,
                      jobVars, navVars, entryVars>>
      BY DEF Collect, HandleFinal, HandleError
    <2> QED
      BY <1>a, <1>c, <1>d, <2>1, <2>2 DEF TypeOK
  <1>f. \/ status'[Journal] = "ERROR"
        \/ /\ status'[Journal] = "REVIEWING" /\ finalTranscript'[Journal] = {Current}
           /\ file[Current] = "audio"
    <2>1. CASE HandleFinal(Journal)
      <3>1. transcriptBuffer[Journal] = {} /\ e.type = "Final"
        BY <1>b, <1>c, <1>d, <2>1 DEF Taking, HandleFinal
      <3>2. e.text = {Current} /\ file[Current] = "audio"
        BY <1>c, <3>1 DEF Outcome
      <3>3. transcriptBuffer'[Journal] = {Current}
        BY <1>a, <1>c, <1>d, <2>1, <3>1, <3>2 DEF HandleFinal, TypeOK
      <3>4. finalTranscript'[Journal] = {Current} /\ status'[Journal] = "REVIEWING"
        BY <1>a, <2>1, <3>3 DEF HandleFinal, TypeOK
      <3> QED
        BY <3>2, <3>4
    <2>2. CASE HandleError(Journal)
      BY <1>a, <2>2 DEF HandleError, TypeOK
    <2> QED
      BY <2>1, <2>2 DEF Collect
  <1>1. Alone' /\ Fresh'
    BY <1>a, <1>e DEF Alone, Fresh, Current, initVars, jobVars, navVars, entryVars
  <1>2. AtRest'
    <2>1. Still'
      BY <1>b, <1>c, <1>e DEF Taking, Still, Resting, Outcome, jobVars
    <2> QED
      BY <1>b, <1>e, <1>f, <2>1 DEF Taking, AtRest, Settled, initVars, entryVars, Current
  <1>3. EntryIsItsRecording'
    BY <1>e DEF OneScreenInv, EntryIsItsRecording, entryVars
  <1>4. MicInv => MicInv'
    BY <1>b, <1>e, <1>f DEF MicInv, micVars
  <1>5. SavedInv => SavedInv'
    BY <1>b, <1>e, <1>f DEF SavedInv, SavedAudioSurvives, entryVars, jobVars, Current, Taking
  <1> QED
    BY <1>a, <1>b, <1>e, <1>1, <1>2, <1>3, <1>4, <1>5 DEF OneScreenInv, OneScreen

\* A step of a coroutine: only the current recording's is under way.
LEMMA JobOne ==
    ASSUME TypeOK, TypeOK', OneScreenInv, NEW s \in Sessions, Job(s)
    PROVE  OneScreenInv'
  <1>a. /\ Journal \in VMs /\ Coach \in VMs /\ Journal # Coach /\ OneScreen /\ Alone
        /\ None \notin Sessions /\ Current \in Sessions \cup {None} /\ Fresh
        /\ isActive(s) /\ \A v \in VMs : Alive(v) <=> v = Journal
    BY OneScreenFacts
  <1>b. step[s] \in Running /\ ~Resting(s)
    BY DEF Job, Runs, ReadFails, OpenAudioFile, NeverDispatched, ReadSamples, LeaveLoop,
       WriteFails, NothingRecorded, UpdateWavHeader, LoadAudio, AudioFileEmpty,
       TranscriptionSucceeds, TranscriptionFails, Running, Resting
  <1>c. Taking /\ isInitialized /\ s = Current
    <2>1. Taking
      BY <1>b DEF OneScreenInv, Starting, AtRest, Waiting, Still
    <2> QED
      BY <1>b, <2>1 DEF OneScreenInv, Taking
  <1>d. inbox[Journal] = <<>>
    BY <1>b, <1>c DEF Taking, Outcome, Running
  <1>e. /\ UNCHANGED jobFrame
        /\ \A t \in Sessions : t # s => /\ step'[t] = step[t]
                                        /\ heard'[t] = heard[t] /\ file'[t] = file[t]
    BY DEF Job, Runs, ReadFails, OpenAudioFile, NeverDispatched, ReadSamples, LeaveLoop,
       WriteFails, NothingRecorded, UpdateWavHeader, LoadAudio, AudioFileEmpty,
       TranscriptionSucceeds, TranscriptionFails, TypeOK
  <1>f. UNCHANGED <<status, finalTranscript, transcriptBuffer, currentAudioFile, emissions,
                    inits, results, orphans, changes, isInitialized, audioRecord, openMics,
                    started, owner, coachOpen, visits, inFlight, entries, service>>
    BY <1>e DEF jobFrame, vmVars, initVars, micVars, navVars, entryVars
  <1>g. Current' = Current /\ Settled' /\ inFlight' = {}
    BY <1>c, <1>f DEF Current, Taking, Settled
  \* What the step does to the recording itself.
  <1>h. /\ step'[s] # "unused"
        /\ heard'[s] \subseteq {s}
        /\ step'[s] \in {"loading", "whisper"} => heard'[s] # {}
        /\ step'[s] \notin {"launched", "done"} => file'[s] = "audio"
        /\ file[s] = "audio" => file'[s] = "audio"
    <2>1. heard[s] \subseteq {s} /\ audioRecord \in {None, s}
      BY <1>c DEF Taking
    <2>2. step[s] \in {"loading", "whisper"} => heard[s] # {}
      BY <1>c DEF Taking
    <2>3. step[s] # "launched" => file[s] = "audio"
      BY <1>b, <1>c DEF Taking
    <2> USE <1>a, <2>1, <2>2, <2>3 DEF TypeOK
    <2>4. CASE OpenAudioFile(s)
      BY <2>4 DEF OpenAudioFile
    <2>5. CASE NeverDispatched(s)
      BY <2>5 DEF NeverDispatched
    <2>6. CASE ReadSamples(s)
      BY <2>6 DEF ReadSamples
    <2>7. CASE LeaveLoop(s)
      BY <2>7 DEF LeaveLoop
    <2>8. CASE WriteFails(s)
      BY <2>8 DEF WriteFails
    <2>9. CASE NothingRecorded(s)
      BY <2>9 DEF NothingRecorded
    <2>10. CASE UpdateWavHeader(s)
      BY <2>10 DEF UpdateWavHeader
    <2>11. CASE LoadAudio(s)
      BY <2>11 DEF LoadAudio
    <2>12. CASE AudioFileEmpty(s)
      BY <2>12 DEF AudioFileEmpty
    <2>13. CASE TranscriptionSucceeds(s)
      BY <2>13 DEF TranscriptionSucceeds
    <2>14. CASE TranscriptionFails(s)
      BY <2>14 DEF TranscriptionFails
    <2>15. CASE ReadFails(s)
      BY <2>15 DEF ReadFails
    <2> QED
      BY <2>4, <2>5, <2>6, <2>7, <2>8, <2>9, <2>10, <2>11, <2>12, <2>13, <2>14, <2>15
         DEF Job, Runs
  \* Its outcome, if the step is its last one.
  <1>i. \/ UNCHANGED inbox
        \/ \E e \in Event : Emit(e) /\ Outcome(e)' /\ step[s] \in {"finishing", "loading", "whisper"}
    <2>1. ErrorOf(s) \in Event /\ FinalOf(s) \in Event
      BY EventTypes
    <2>2. /\ ErrorOf(s).session = s /\ ErrorOf(s).type = "Error"
          /\ FinalOf(s).session = s /\ FinalOf(s).type = "Final" /\ FinalOf(s).text = heard[s]
      BY DEF ErrorOf, FinalOf
    <2>3. step'[s] = "done" => Outcome(ErrorOf(s))'
      BY <1>c, <1>g, <2>2 DEF Outcome, ErrorOf
    <2>4. CASE TranscriptionSucceeds(s)
      <3>1. step[s] = "whisper" /\ step'[s] = "done" /\ Emit(FinalOf(s)) /\ heard' = heard
            /\ file' = file
        BY <2>4 DEF TranscriptionSucceeds, TypeOK
      <3>2. heard[s] = {s} /\ file[s] = "audio"
        BY <1>b, <1>c, <3>1 DEF Taking
      <3>3. PICK e \in Event : /\ e = FinalOf(s) /\ e.session = s
                              /\ e.type = "Final" /\ e.text = {s}
        BY <2>1, <2>2, <3>2
      <3>4. Outcome(e)'
        BY <1>c, <1>g, <3>1, <3>2, <3>3 DEF Outcome
      <3> QED
        BY <3>1, <3>3, <3>4
    <2>5. CASE NothingRecorded(s) \/ AudioFileEmpty(s) \/ TranscriptionFails(s)
      <3>1. /\ step[s] \in {"finishing", "loading", "whisper"}
            /\ step'[s] = "done" /\ Emit(ErrorOf(s))
        BY <2>5 DEF NothingRecorded, AudioFileEmpty, TranscriptionFails, TypeOK
      <3> QED
        BY <2>1, <2>3, <3>1
    <2>6. CASE UNCHANGED inbox
      BY <2>6
    <2> QED
      BY <2>4, <2>5, <2>6 DEF Job, Runs, ReadFails, OpenAudioFile, NeverDispatched,
         ReadSamples, LeaveLoop, WriteFails, UpdateWavHeader, LoadAudio
  <1>j. /\ inbox'[Coach] = inbox[Coach]
        /\ inbox'[Journal] = <<>> \/ \E e \in Event : inbox'[Journal] = <<e>> /\ Outcome(e)'
    <2>1. CASE UNCHANGED inbox
      BY <1>d, <2>1
    <2>2. ASSUME NEW e \in Event, Emit(e), Outcome(e)'
          PROVE  /\ inbox'[Coach] = inbox[Coach]
                 /\ \E f \in Event : inbox'[Journal] = <<f>> /\ Outcome(f)'
      <3>1. Append(<<>>, e) = <<e>>
        OBVIOUS
      <3>2. inbox'[Coach] = inbox[Coach] /\ inbox'[Journal] = <<e>>
        BY <1>a, <1>d, <2>2, <3>1 DEF Emit
      <3> QED
        BY <2>2, <3>2
    <2> QED
      BY <1>i, <2>1, <2>2
  <1>1. Alone' /\ Fresh'
    <2>1. Alone'
      BY <1>a, <1>f, <1>j DEF Alone, Current
    <2> QED
      BY <1>a, <1>e, <1>h, <2>1 DEF Fresh
  <1>2. Taking'
    <2>1. status'[Journal] = "PROCESSING" /\ ~Resting(Current)' => service'
      BY <1>b, <1>c, <1>f DEF Taking
    <2>2. \A t \in Sessions : t # Current => Resting(t)'
      BY <1>c, <1>e DEF Taking, Resting
    <2>3. ~Resting(Current)' /\ step'[s] # "launched" => file'[s] = "audio"
      BY <1>c, <1>g, <1>h DEF Resting
    <2> QED
      BY <1>c, <1>f, <1>g, <1>h, <1>j, <2>1, <2>2, <2>3 DEF Taking
  <1>3. EntryIsItsRecording'
    BY <1>f DEF OneScreenInv, EntryIsItsRecording
  <1>4. "micFault" \notin Env => (MicInv => MicInv')
    <2> SUFFICES ASSUME "micFault" \notin Env, MicInv PROVE MicInv'
      OBVIOUS
    <2>1. CASE status[Journal] # "RECORDING"
      BY <1>f, <2>1 DEF MicInv
    <2>2. CASE status[Journal] = "RECORDING"
      <3>1. /\ step[s] \in {"launched", "capturing"} /\ audioRecord # None
            /\ heard[s] \cup {s} \subseteq openMics
        BY <1>a, <1>b, <1>c, <2>2 DEF MicInv, Taking, Running
      <3>2. step'[s] \in {"launched", "capturing", "done"}
        BY <1>a, <3>1 DEF Job, Runs, ReadFails, OpenAudioFile, NeverDispatched, ReadSamples,
           LeaveLoop, WriteFails, NothingRecorded, UpdateWavHeader, LoadAudio,
           AudioFileEmpty, TranscriptionSucceeds, TranscriptionFails, TypeOK
      <3>3. UNCHANGED inbox
        BY <1>i, <3>1
      <3> QED
        BY <1>c, <1>d, <1>f, <1>g, <3>2, <3>3 DEF MicInv
    <2> QED
      BY <2>1, <2>2
  <1>5. SavedInv => SavedInv'
    <2> SUFFICES ASSUME SavedInv PROVE SavedInv'
      OBVIOUS
    <2>1. \A e \in entries : e.audio # s /\ e.audio \in Sessions \cup {None}
      BY <1>c DEF SavedInv, Taking, TypeOK, Entry
    <2>2. SavedAudioSurvives'
      BY <1>e, <1>f, <2>1 DEF SavedInv, SavedAudioSurvives
    <2> QED
      BY <1>c, <1>f, <1>g, <2>2 DEF SavedInv, Taking
  <1> QED
    BY <1>a, <1>c, <1>f, <1>1, <1>2, <1>3, <1>4, <1>5 DEF OneScreenInv, OneScreen

LEMMA OneScreenNext == TypeOK /\ TypeOK' /\ UnusedInv /\ OneScreenInv /\ [Next]_vars => OneScreenInv'
  <1> SUFFICES ASSUME TypeOK, TypeOK', UnusedInv, OneScreenInv, [Next]_vars
               PROVE  OneScreenInv'
    OBVIOUS
  <1>1. CASE User
    <2>1. CASE \E v \in VMs : Screen(v)
      <3>1. Screen(Journal)
        BY <2>1, RuledOut
      <3> QED
        BY <3>1, StartOne, StopOne, CancelOne DEF Screen
    <2>2. CASE StartManualEntry \/ UpdateTranscript \/ AnalyzeTooShort \/ AnalyzeTranscript
      BY <2>2, TypedOne, AnalyzeOne
    <2> QED
      BY <1>1, <2>1, <2>2, RuledOut DEF User
  <1>2. ASSUME NEW v \in VMs, Initializing(v) \/ Collect(v) PROVE OneScreenInv'
    <2>1. v = Journal
      BY <1>2, RuledOut
    <2> QED
      BY <1>2, <2>1, InitializingOne, CollectOne
  <1>3. CASE Analyzing
    BY <1>3, AnalyzingOne
  <1>4. ASSUME NEW s \in Sessions, Job(s) PROVE OneScreenInv'
    BY <1>4, JobOne
  <1>5. CASE UNCHANGED vars
    <2>1. Alone' /\ Fresh'
      BY <1>5, OneScreenFacts DEF Alone, Fresh, Current, vars, vmVars, initVars, jobVars,
         navVars, entryVars
    <2>2. (Starting \/ Taking \/ Waiting \/ AtRest)'
      BY <1>5 DEF OneScreenInv, Starting, Taking, Waiting, AtRest, Still, Settled, Resting,
         Outcome, Current, vars, vmVars, initVars, micVars, jobVars, entryVars
    <2>3. (status[Journal] \in {"IDLE", "INITIALIZING", "ERROR"} \/ isInitialized)'
      BY <1>5 DEF OneScreenInv, vars, vmVars
    <2>4. EntryIsItsRecording'
      BY <1>5 DEF OneScreenInv, EntryIsItsRecording, vars, entryVars
    <2>5. (MicInv => MicInv') /\ (SavedInv => SavedInv')
      BY <1>5 DEF MicInv, SavedInv, SavedAudioSurvives, Current, vars, vmVars, micVars,
         jobVars, entryVars
    <2> QED
      BY <2>1, <2>2, <2>3, <2>4, <2>5 DEF OneScreenInv, OneScreen
  <1> QED
    BY <1>1, <1>2, <1>3, <1>4, <1>5, RuledOut DEF Next

LEMMA OneScreenInvariance == OneScreen /\ Spec => [](IInv /\ OneScreenInv)
  <1>1. OneScreen /\ Init => IInv /\ OneScreenInv
    BY InitInv, OneScreenInit
  <1>2. IInv /\ OneScreenInv /\ [Next]_vars => IInv' /\ OneScreenInv'
    BY NextInv, OneScreenNext DEF IInv
  <1> QED
    BY <1>1, <1>2, PTL DEF Spec

\* What the invariant says of the four properties, at every state.
LEMMA OneScreenImplies ==
    ASSUME IInv, OneScreenInv
    PROVE  /\ ServiceWhileProcessing /\ OutcomesAreCurrent /\ EntryIsItsRecording
           /\ "micFault" \notin Env => MicOnlyWhileRecording
           /\ "manual" \notin Env => SavedAudioSurvives
  <1>a. /\ Journal \in VMs /\ Coach \in VMs /\ Journal # Coach /\ Alone
        /\ None \notin Sessions /\ \A v \in VMs : v = Journal \/ v = Coach
        /\ \A v \in VMs : Alive(v) <=> v = Journal
    BY OneScreenFacts DEF IInv
  <1>1. ServiceWhileProcessing
    <2> SUFFICES ASSUME NEW v \in VMs, NEW s \in Sessions \ openMics,
                        s = currentAudioFile[v], step[s] \in Running
                 PROVE  service
      BY DEF ServiceWhileProcessing
    <2>1. v = Journal /\ s = Current
      BY <1>a DEF Alone, Current
    <2>2. ~Resting(s)
      BY DEF Running, Resting
    <2>3. Taking
      BY <2>2 DEF OneScreenInv, Starting, Waiting, AtRest, Still
    <2>4. status[Journal] = "PROCESSING"
      BY <2>1, <2>3 DEF Taking
    <2> QED
      BY <2>1, <2>2, <2>3, <2>4 DEF Taking
  <1>2. OutcomesAreCurrent
    <2> SUFFICES ASSUME NEW v \in VMs, NEW i \in 1..Len(inbox[v])
                 PROVE  inbox[v][i].session = currentAudioFile[v]
      BY DEF OutcomesAreCurrent
    <2>1. inbox[v] # <<>>
      <3>1. inbox[v] = <<>> => 1..Len(inbox[v]) = {}
        OBVIOUS
      <3> QED
        BY <3>1
    <2>2. v = Journal
      BY <1>a, <2>1 DEF Alone
    <2>3. Taking
      BY <2>1, <2>2 DEF OneScreenInv, Starting, Waiting, AtRest, Still
    <2>4. PICK e \in Event : inbox[v] = <<e>> /\ e.session = Current
      BY <2>1, <2>2, <2>3 DEF Taking, Outcome
    <2>5. i = 1 /\ <<e>>[1] = e
      BY <2>4
    <2> QED
      BY <2>2, <2>4, <2>5 DEF Current
  <1>3. MicInv => MicOnlyWhileRecording
    BY <1>a DEF MicInv, MicOnlyWhileRecording
  <1> QED
    BY <1>1, <1>2, <1>3 DEF OneScreenInv, SavedInv

\* While the Journal's current recording is processed the service that keeps
\* the process alive is in the foreground, whatever fails.
THEOREM ServiceStaysUp == OneScreen /\ Spec => []ServiceWhileProcessing
  BY OneScreenInvariance, OneScreenImplies, PTL

\* No late result of an earlier recording reaches the Journal.
THEOREM NoLateOutcome == OneScreen /\ Spec => []OutcomesAreCurrent
  BY OneScreenInvariance, OneScreenImplies, PTL

\* A saved entry links to the recording its speech was spoken into.
THEOREM EntriesLinkRight == OneScreen /\ Spec => []EntryIsItsRecording
  BY OneScreenInvariance, OneScreenImplies, PTL

\* If the microphone does not fail it is open only while the screen says so.
THEOREM MicClosedAtRest ==
    ASSUME "micFault" \notin Env
    PROVE  OneScreen /\ Spec => []MicOnlyWhileRecording
  <1>1. IInv /\ OneScreenInv => MicOnlyWhileRecording
    BY OneScreenImplies
  <1> QED
    BY <1>1, OneScreenInvariance, PTL

\* If nothing is typed, the audio of every saved entry stays on disk.
THEOREM SavedAudioStays ==
    ASSUME "manual" \notin Env
    PROVE  OneScreen /\ Spec => []SavedAudioSurvives
  <1>1. IInv /\ OneScreenInv => SavedAudioSurvives
    BY OneScreenImplies
  <1> QED
    BY <1>1, OneScreenInvariance, PTL

-----------------------------------------------------------------------------
(* The Journal alone implements Dictation.                                 *)

LEMMA PhaseFacts ==
    /\ status[Journal] \in {"IDLE", "INITIALIZING"} => Phase = "starting"
    /\ status[Journal] = "READY" => Phase = "ready"
    /\ status[Journal] = "RECORDING" => Phase = "recording"
    /\ status[Journal] = "REVIEWING" => Phase = "review"
    /\ status[Journal] = "SAVED" => Phase = "saved"
    /\ status[Journal] = "ERROR" => Phase = "error"
    /\ status[Journal] = "PROCESSING" /\ inFlight = {} => Phase = "transcribing"
    /\ status[Journal] = "PROCESSING" /\ inFlight # {} => Phase = "analyzing"
  BY DEF Phase

\* The Journal's variables that Dictation's are made of.
shown == <<status[Journal], started, currentAudioFile[Journal], finalTranscript[Journal],
           inFlight = {}, entries>>

LEMMA ShowsNothingNew ==
    ASSUME UNCHANGED shown
    PROVE  UNCHANGED D!dvars
  BY DEF shown, D!dvars, Phase

LEMMA DictationInit == Init => D!Init
  <1> SUFFICES ASSUME Init PROVE D!Init
    OBVIOUS
  <1>1. /\ status[Journal] = "IDLE" /\ started = 0 /\ currentAudioFile[Journal] = 0
        /\ finalTranscript[Journal] = {} /\ entries = {}
    BY DEF Init, VMs, None
  <1>2. Phase = "starting"
    BY <1>1, PhaseFacts
  <1>3. {[text |-> e.text, audio |-> e.audio] : e \in entries} = {}
    BY <1>1
  <1> QED
    BY <1>1, <1>2, <1>3 DEF D!Init, D!NoTake

LEMMA InitializingTells ==
    ASSUME TypeOK, OneScreenInv, Initializing(Journal)
    PROVE  [D!Next]_D!dvars
  <1>a. Journal \in VMs
    BY DEF VMs
  <1>b. /\ emissions[Journal] > 0 \/ inits[Journal] > 0 \/ results[Journal] # <<>>
        /\ UNCHANGED <<finalTranscript, currentAudioFile, started, inFlight, entries>>
    BY DEF Initializing, InitializeStt, InitializeEnds, InitializeReturns, vmVars, jobVars,
       entryVars
  <1>c. emissions[Journal] \in Nat /\ inits[Journal] \in Nat
    BY <1>a DEF TypeOK
  <1>d. status[Journal] \in {"IDLE", "INITIALIZING"}
    BY <1>b, <1>c DEF OneScreenInv, Starting, Taking, Waiting, AtRest, Settled
  <1>1. status'[Journal] \in {"INITIALIZING", "READY", "ERROR"} \/ UNCHANGED status
    BY <1>a DEF Initializing, InitializeStt, InitializeEnds, InitializeReturns, TypeOK, vmVars
  <1>2. Phase = "starting" /\ Phase' \in {"starting", "ready", "error"}
    <2>1. Phase = "starting"
      BY <1>d, PhaseFacts
    <2>2. Phase' \in {"starting", "ready", "error"}
      BY <1>1, <1>d DEF Phase
    <2> QED
      BY <2>1, <2>2
  <1>3. CASE Phase' = "starting"
    BY <1>b, <1>2, <1>3 DEF D!dvars
  <1>4. CASE Phase' \in {"ready", "error"}
    BY <1>b, <1>2, <1>4 DEF D!Next, D!Prepare
  <1> QED
    BY <1>2, <1>3, <1>4

LEMMA ScreenTells ==
    ASSUME TypeOK, TypeOK', OneScreenInv, Screen(Journal), "micFault" \notin Env
    PROVE  D!Next
  <1>a. /\ Journal \in VMs /\ Coach \in VMs /\ Journal # Coach /\ OneScreen
        /\ \A v : OnTop(v) <=> v = Journal
    BY OneScreenFacts
  <1>1. CASE StartRecording(Journal)
    <2>1. /\ status[Journal] \in {"READY", "SAVED"} /\ started < MaxSessions
          /\ started' = started + 1 /\ currentAudioFile'[Journal] = started + 1
          /\ UNCHANGED entries
          /\ status'[Journal] = "RECORDING" /\ finalTranscript'[Journal] = {}
      <3>1. PICK s \in Sessions :
              /\ NewRecording(Journal, s)
              /\ finalTranscript' = [finalTranscript EXCEPT ![Journal] = {}]
              /\ status' = [status EXCEPT ![Journal] = "RECORDING"]
        BY <1>1, Zenon DEF StartRecording
      <3> QED
        BY <1>a, <3>1 DEF NewRecording, NewAudioFile, StartOffered, TypeOK, entryVars
    <2>2. Phase \in {"ready", "saved"} /\ Phase' = "recording"
      BY <2>1 DEF Phase
    <2> QED
      BY <2>1, <2>2 DEF D!Next, D!Record, D!Idle
  <1>2. ~StartRecordingFails(Journal)
    <2>1. SUFFICES ASSUME StartRecordingFails(Journal) PROVE FALSE
      OBVIOUS
    <2>2. ~isInitialized /\ status[Journal] \in {"READY", "SAVED"}
      BY <1>a, <2>1, Zenon DEF StartRecordingFails, NewRecording, StartOffered
    <2> QED
      BY <2>2 DEF OneScreenInv
  <1>3. CASE StopRecording(Journal)
    <2>1. /\ status[Journal] = "RECORDING" /\ status'[Journal] = "PROCESSING"
          /\ UNCHANGED <<finalTranscript, currentAudioFile, started, inFlight, entries>>
      BY <1>a, <1>3 DEF StopRecording, TypeOK, jobVars, entryVars
    <2>2. inFlight = {}
      BY <2>1 DEF OneScreenInv, Starting, Taking, Waiting, AtRest
    <2>3. Phase = "recording" /\ Phase' = "transcribing"
      BY <2>1, <2>2 DEF Phase
    <2> QED
      BY <2>1, <2>3 DEF D!Next, D!Stop
  <1>4. CASE CancelRecording(Journal)
    <2>1. /\ status[Journal] = "REVIEWING" /\ status'[Journal] = "READY"
          /\ currentAudioFile'[Journal] = 0 /\ finalTranscript'[Journal] = {}
          /\ UNCHANGED <<started, entries>>
      BY <1>a, <1>4 DEF CancelRecording, OneScreen, TypeOK, entryVars, None
    <2>2. Phase = "review" /\ Phase' = "ready"
      BY <2>1 DEF Phase
    <2> QED
      BY <2>1, <2>2 DEF D!Next, D!Discard, D!NoTake
  <1> QED
    BY <1>1, <1>2, <1>3, <1>4 DEF Screen

LEMMA TypingTells ==
    ASSUME TypeOK, TypeOK', OneScreenInv,
           StartManualEntry \/ UpdateTranscript \/ AnalyzeTooShort \/ AnalyzeTranscript
    PROVE  D!Next
  <1>a. Journal \in VMs
    BY DEF VMs
  <1>b. UNCHANGED <<currentAudioFile, started, entries>>
    BY DEF StartManualEntry, UpdateTranscript, AnalyzeTooShort, AnalyzeTranscript, jobVars,
       entryVars
  <1>1. CASE StartManualEntry
    <2>1. /\ status[Journal] \in {"READY", "SAVED"} /\ status'[Journal] = "REVIEWING"
          /\ finalTranscript'[Journal] = {}
      BY <1>a, <1>1 DEF StartManualEntry, TypeOK
    <2>2. Phase \in {"ready", "saved"} /\ Phase' = "review"
      BY <2>1 DEF Phase
    <2> QED
      BY <1>b, <2>1, <2>2 DEF D!Next, D!Write, D!Idle
  <1>2. CASE UpdateTranscript
    <2>1. PICK text \in {finalTranscript[Journal] \cup {Typed}, {Typed}} :
            finalTranscript' = [finalTranscript EXCEPT ![Journal] = text]
      BY <1>2 DEF UpdateTranscript
    <2>2. /\ finalTranscript'[Journal] \in {finalTranscript[Journal] \cup {0}, {0}}
          /\ status[Journal] = "REVIEWING" /\ status'[Journal] = "REVIEWING"
      BY <1>a, <1>2, <2>1 DEF UpdateTranscript, TypeOK, Typed
    <2>3. Phase = "review" /\ Phase' = "review"
      BY <2>2 DEF Phase
    <2> QED
      BY <1>b, <2>2, <2>3 DEF D!Next, D!Edit, D!Typed
  <1>3. CASE AnalyzeTooShort
    <2>1. /\ status[Journal] = "REVIEWING" /\ status'[Journal] = "READY"
          /\ UNCHANGED finalTranscript
      BY <1>a, <1>3 DEF AnalyzeTooShort, TypeOK
    <2>2. Phase = "review" /\ Phase' = "ready"
      BY <2>1 DEF Phase
    <2> QED
      BY <1>b, <2>1, <2>2 DEF D!Next, D!TooShort
  <1>4. CASE AnalyzeTranscript
    <2>1. /\ status[Journal] = "REVIEWING" /\ status'[Journal] = "PROCESSING"
          /\ finalTranscript[Journal] # {} /\ inFlight' # {} /\ UNCHANGED finalTranscript
      BY <1>a, <1>4 DEF AnalyzeTranscript, TypeOK
    <2>2. Phase = "review" /\ Phase' = "analyzing"
      BY <2>1 DEF Phase
    <2> QED
      BY <1>b, <2>1, <2>2 DEF D!Next, D!Confirm
  <1> QED
    BY <1>1, <1>2, <1>3, <1>4

LEMMA AnalyzingTells ==
    ASSUME TypeOK, TypeOK', OneScreenInv, Analyzing
    PROVE  [D!Next]_D!dvars
  <1>a. Journal \in VMs
    BY DEF VMs
  <1>b. Waiting
    BY DEF Analyzing, OneScreenInv, Starting, Taking, AtRest, Waiting
  <1>c. PICK a \in Analysis : /\ inFlight = {a} /\ a.vm = Journal
                              /\ a.text = finalTranscript[Journal]
                              /\ a.saving => a.audio = Current
    BY <1>b DEF Waiting, OneScreenInv, Alone
  <1>d. AnalysisReturns(a) \/ SaveReturns(a) \/ AnalysisFails(a)
    BY <1>c DEF Analyzing
  <1>e. UNCHANGED <<finalTranscript, currentAudioFile, started>>
    BY <1>d DEF AnalysisReturns, SaveReturns, AnalysisFails, vmVars, jobVars
  <1>f. status[Journal] = "PROCESSING" /\ Phase = "analyzing"
    BY <1>b, <1>c, PhaseFacts DEF Waiting
  <1>1. CASE AnalysisReturns(a)
    <2>1. inFlight' # {} /\ UNCHANGED <<status, entries>>
      BY <1>1 DEF AnalysisReturns, vmVars
    <2>2. Phase' = Phase
      BY <1>c, <2>1 DEF Phase
    <2> QED
      BY <1>e, <2>1, <2>2 DEF D!dvars
  <1>2. CASE SaveReturns(a)
    <2>1. /\ status'[Journal] = "SAVED" /\ a.saving
          /\ entries' = entries \cup {[id |-> a.id, text |-> a.text, audio |-> a.audio]}
      BY <1>a, <1>c, <1>2 DEF SaveReturns, TypeOK
    <2>2. Phase' = "saved"
      BY <2>1 DEF Phase
    <2>3. {[text |-> e.text, audio |-> e.audio] : e \in entries'}
             = {[text |-> e.text, audio |-> e.audio] : e \in entries}
                  \cup {[text |-> a.text, audio |-> a.audio]}
      <3> DEFINE r == [id |-> a.id, text |-> a.text, audio |-> a.audio]
                 Told(e) == [text |-> e.text, audio |-> e.audio]
      <3>1. Told(r) = Told(a)
        OBVIOUS
      <3>2. entries' = entries \cup {r}
        BY <2>1
      <3> HIDE DEF r, Told
      <3>3. {Told(e) : e \in entries'} = {Told(e) : e \in entries} \cup {Told(a)}
        BY <3>1, <3>2
      <3> QED
        BY <3>3 DEF Told
    <2>4. a.text = finalTranscript[Journal] /\ a.audio = currentAudioFile[Journal]
      BY <1>c, <2>1 DEF Current
    <2> QED
      BY <1>e, <1>f, <2>2, <2>3, <2>4 DEF D!Next, D!Save
  <1>3. CASE AnalysisFails(a)
    <2>1. status'[Journal] = "ERROR" /\ UNCHANGED entries
      BY <1>a, <1>c, <1>3 DEF AnalysisFails, TypeOK
    <2>2. Phase' = "error"
      BY <2>1 DEF Phase
    <2> QED
      BY <1>e, <1>f, <2>1, <2>2 DEF D!Next, D!Fail
  <1> QED
    BY <1>d, <1>1, <1>2, <1>3

LEMMA CollectTells ==
    ASSUME TypeOK, TypeOK', OneScreenInv, Collect(Journal), "micFault" \notin Env
    PROVE  D!Next
  <1>a. Journal \in VMs
    BY DEF VMs
  <1>b. Taking /\ status[Journal] = "PROCESSING" /\ inFlight = {}
    <2>1. Taking /\ inbox[Journal] # <<>>
      BY DEF Collect, HandleFinal, HandleError, OneScreenInv, Starting, AtRest, Waiting, Still,
         Taking
    <2> QED
      BY <2>1 DEF OneScreenInv, MicInv, Taking
  <1>c. PICK e \in Event : inbox[Journal] = <<e>> /\ Outcome(e)
    BY <1>b DEF Collect, HandleFinal, HandleError, Taking
  <1>d. Head(<<e>>) = e
    OBVIOUS
  <1>e. UNCHANGED <<currentAudioFile, started, entries>>
    BY DEF Collect, HandleFinal, HandleError, jobVars, entryVars
  <1>f. Phase = "transcribing"
    BY <1>b, PhaseFacts
  <1>1. CASE HandleFinal(Journal)
    <2>1. e.type = "Final" /\ transcriptBuffer[Journal] = {} /\ e.text = {Current}
      BY <1>b, <1>c, <1>d, <1>1 DEF HandleFinal, Taking, Outcome
    <2>2. transcriptBuffer'[Journal] = {Current}
      BY <1>a, <1>c, <1>d, <1>1, <2>1 DEF HandleFinal, TypeOK
    <2>3. /\ finalTranscript'[Journal] = {currentAudioFile[Journal]}
          /\ status'[Journal] = "REVIEWING"
      BY <1>a, <1>1, <2>2 DEF HandleFinal, TypeOK, Current
    <2>4. Phase' = "review"
      BY <2>3 DEF Phase
    <2> QED
      BY <1>e, <1>f, <2>3, <2>4 DEF D!Next, D!Transcribed
  <1>2. CASE HandleError(Journal)
    <2>1. status'[Journal] = "ERROR" /\ UNCHANGED finalTranscript
      BY <1>a, <1>2 DEF HandleError, TypeOK
    <2>2. Phase' = "error"
      BY <2>1 DEF Phase
    <2> QED
      BY <1>e, <1>f, <2>1, <2>2 DEF D!Next, D!Fail
  <1> QED
    BY <1>1, <1>2 DEF Collect

LEMMA DictationStep ==
    ASSUME TypeOK, TypeOK', OneScreenInv, [Next]_vars, "micFault" \notin Env
    PROVE  [D!Next]_D!dvars
  <1>1. CASE User
    <2>1. CASE \E v \in VMs : Screen(v)
      BY <2>1, RuledOut, ScreenTells
    <2>2. CASE StartManualEntry \/ UpdateTranscript \/ AnalyzeTooShort \/ AnalyzeTranscript
      BY <2>2, TypingTells
    <2> QED
      BY <1>1, <2>1, <2>2, RuledOut DEF User
  <1>2. ASSUME NEW v \in VMs, Initializing(v) \/ Collect(v) PROVE [D!Next]_D!dvars
    <2>1. v = Journal
      BY <1>2, RuledOut
    <2> QED
      BY <1>2, <2>1, InitializingTells, CollectTells
  <1>3. CASE Analyzing
    BY <1>3, AnalyzingTells
  <1>4. ASSUME NEW s \in Sessions, Job(s) PROVE [D!Next]_D!dvars
    <2>1. UNCHANGED jobFrame
      BY <1>4 DEF Job, Runs, ReadFails, OpenAudioFile, NeverDispatched, ReadSamples,
         LeaveLoop, WriteFails, NothingRecorded, UpdateWavHeader, LoadAudio, AudioFileEmpty,
         TranscriptionSucceeds, TranscriptionFails
    <2>2. UNCHANGED shown
      BY <2>1 DEF jobFrame, shown, vmVars, entryVars
    <2> QED
      BY <2>2, ShowsNothingNew
  <1>5. CASE UNCHANGED vars
    <2>1. UNCHANGED shown
      BY <1>5 DEF vars, shown, vmVars, jobVars, entryVars
    <2> QED
      BY <2>1, ShowsNothingNew
  <1> QED
    BY <1>1, <1>2, <1>3, <1>4, <1>5, RuledOut DEF Next

\* Every run of the Journal is one Dictation allows, step by step: what the
\* user sees and saves is what a screen without engine, events, coroutines and
\* service would show (the safety part of KeepsPromise).
THEOREM JournalIsDictation ==
    ASSUME "micFault" \notin Env
    PROVE  OneScreen /\ Spec => D!Spec
  <1>1. Init => D!Init
    BY DictationInit
  <1>2. (IInv /\ OneScreenInv) /\ (IInv /\ OneScreenInv)' /\ [Next]_vars => [D!Next]_D!dvars
    BY DictationStep DEF IInv
  <1> QED
    BY <1>1, <1>2, OneScreenInvariance, PTL DEF Spec, D!Spec
=============================================================================
