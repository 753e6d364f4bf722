--------------------------- MODULE WhisperEngine ---------------------------
(***************************************************************************)
(* The models of WhisperSttEngine: initialize(), which every settings      *)
(* emission and every new view model calls, without a lock, on             *)
(* Dispatchers.IO; the native contexts it creates and releases, each with  *)
(* the single-threaded executor of its WhisperContext; and the             *)
(* transcriptions that use whatever context the field holds.               *)
(*                                                                         *)
(* A call of initialize() creates at most one context, which is named      *)
(* after the call.  The steps of a call are cut where it suspends and      *)
(* where another call can see its writes.                                  *)
(***************************************************************************)
EXTENDS Naturals, Sequences, FiniteSets

CONSTANTS
    Calls,      \* the calls of initialize()
    Jobs,       \* the calls of transcribeFile that reach transcribeData
    None,       \* no context, no job
    MaxEdits,   \* bound: edits of the settings
    Overlap,    \* calls may overlap: two view models, or two quick emissions
    Cancel      \* a view model may be cleared while its call runs

ASSUME EngineAssumption ==
    /\ None \notin Calls /\ None \notin Jobs
    /\ MaxEdits \in Nat /\ Overlap \in BOOLEAN /\ Cancel \in BOOLEAN

\* The model files settings name: the default in filesDir, and an imported one.
Default == "default"
Custom  == "custom"
Paths   == {Default, Custom}

\* What a context's executor has to run: a transcription, or the release some
\* call waits for.
Task == [kind : {"transcribe"}, who : Jobs] \cup [kind : {"release"}, who : Calls]

CallStep == {"idle", "readPath", "readTimestamp", "resetPath", "check",
             "releasing", "forget", "create", "publish", "confirm",
             "returned", "failed"}
JobStep == {"idle", "queued", "native", "done"}

VARIABLES
    \* SettingsRepository, and whether the files are there and large enough
    path, timestamp, usable,
    pending,        \* settings emissions not yet answered by a call
    \* WhisperSttEngine's fields
    whisperContext, isInitialized, currentModelPath, currentModelTimestamp,
    \* initialize(): where each call is, and its local variables
    callStep, readPath, readTs,
    \* WhisperContext: the native memory behind ptr, the executor's queue, and
    \* the transcription its thread is in
    ptr, queue, thread,
    \* transcribeFile: where each job is, and the context it read
    jobStep, jobContext

settingsVars == <<path, timestamp, usable, pending>>
fieldVars    == <<whisperContext, isInitialized, currentModelPath,
                  currentModelTimestamp>>
callVars     == <<callStep, readPath, readTs>>
contextVars  == <<ptr, queue, thread>>
jobVars      == <<jobStep, jobContext>>
vars == <<settingsVars, fieldVars, callVars, contextVars, jobVars>>

Init ==
    /\ path \in Paths /\ timestamp = 0
    /\ usable \in [Paths -> BOOLEAN]
    /\ pending = 1
    /\ whisperContext = None /\ isInitialized = FALSE
    /\ currentModelPath = None /\ currentModelTimestamp = 0
    /\ callStep = [c \in Calls |-> "idle"]
    /\ readPath = [c \in Calls |-> Default]
    /\ readTs   = [c \in Calls |-> 0]
    /\ ptr    = [x \in Calls |-> "absent"]
    /\ queue  = [x \in Calls |-> <<>>]
    /\ thread = [x \in Calls |-> None]
    /\ jobStep    = [j \in Jobs |-> "idle"]
    /\ jobContext = [j \in Jobs |-> None]

-----------------------------------------------------------------------------
\* An import or a reset saves a path with a new timestamp, and the watcher of
\* the view model gets an emission by one or both of the flows it combines.  An
\* import has made the file usable.
EditSettings(p) ==
    /\ timestamp < MaxEdits
    /\ path' = p
    /\ timestamp' = timestamp + 1
    /\ usable' = [usable EXCEPT ![p] = @ \/ p = Custom]
    /\ \E n \in 1..2 : pending' = pending + n
    /\ UNCHANGED <<fieldVars, callVars, contextVars, jobVars>>

\* An import writes over the file of the one before and deletes what turns out
\* not to be a model: the settings still name it.
SpoilImport ==
    /\ usable[Custom]
    /\ usable' = [usable EXCEPT ![Custom] = FALSE]
    /\ UNCHANGED <<path, timestamp, pending, fieldVars, callVars, contextVars,
                   jobVars>>

Active(c) == callStep[c] \notin {"idle", "returned", "failed"}

GoTo(c, s) == callStep' = [callStep EXCEPT ![c] = s]

\* catch (e: Throwable)
Failed(c) ==
    /\ isInitialized' = FALSE
    /\ currentModelPath' = None /\ currentModelTimestamp' = 0
    /\ GoTo(c, "failed")
    /\ UNCHANGED <<settingsVars, whisperContext, readPath, readTs, contextVars,
                   jobVars>>

Initialize(c) ==
    /\ callStep[c] = "idle" /\ pending > 0
    /\ Overlap \/ \A d \in Calls : ~Active(d)
    /\ pending' = pending - 1
    /\ GoTo(c, "readPath")
    /\ UNCHANGED <<path, timestamp, usable, fieldVars, readPath, readTs,
                   contextVars, jobVars>>

\* settings.whisperModelPath.first(), whisperUpdateTimestamp.first(): two reads.
ReadPath(c) ==
    /\ callStep[c] = "readPath"
    /\ readPath' = [readPath EXCEPT ![c] = path]
    /\ GoTo(c, "readTimestamp")
    /\ UNCHANGED <<settingsVars, fieldVars, readTs, contextVars, jobVars>>

ReadTimestamp(c) ==
    /\ callStep[c] = "readTimestamp"
    /\ readTs' = [readTs EXCEPT ![c] = timestamp]
    /\ GoTo(c, IF readPath[c] = Custom /\ ~usable[Custom] THEN "resetPath"
                                                          ELSE "check")
    /\ UNCHANGED <<settingsVars, fieldVars, readPath, contextVars, jobVars>>

\* An unusable custom path is cleared in the settings, which makes a new
\* timestamp and a new emission; the call goes on with the old timestamp.
ResetPath(c) ==
    /\ callStep[c] = "resetPath"
    /\ path' = Default
    /\ timestamp' = timestamp + 1
    /\ \E n \in 1..2 : pending' = pending + n
    /\ readPath' = [readPath EXCEPT ![c] = Default]
    /\ GoTo(c, "check")
    /\ UNCHANGED <<usable, fieldVars, readTs, contextVars, jobVars>>

\* Already initialised with this model, and it has not been updated since.
UpToDate_PathOnly(c) == isInitialized /\ currentModelPath = readPath[c]
UpToDate(c) == /\ isInitialized
               /\ currentModelPath = readPath[c]
               /\ currentModelTimestamp = readTs[c]

AlreadyInitialized(c) ==
    /\ callStep[c] = "check" /\ UpToDate(c)
    /\ GoTo(c, "returned")
    /\ UNCHANGED <<settingsVars, fieldVars, readPath, readTs, contextVars, jobVars>>

\* The file is gone or empty, or the default cannot be copied from the assets:
\* the old context stays.
ModelMissing(c) ==
    /\ callStep[c] = "check" /\ ~UpToDate(c)
    /\ ~usable[readPath[c]]
    /\ Failed(c)

\* whisperContext?.release(): queued behind what the executor already has.
ReleaseOld_NotReleased(c) ==
    /\ callStep[c] = "check" /\ ~UpToDate(c)
    /\ whisperContext # None
    /\ GoTo(c, "forget")
    /\ UNCHANGED <<settingsVars, fieldVars, readPath, readTs, contextVars, jobVars>>
ReleaseOld_NotQueued(c) ==
    /\ callStep[c] = "check" /\ ~UpToDate(c)
    /\ whisperContext # None
    /\ GoTo(c, "releasing")
    /\ UNCHANGED <<settingsVars, fieldVars, readPath, readTs, contextVars, jobVars>>
ReleaseOld(c) ==
    /\ callStep[c] = "check" /\ ~UpToDate(c)
    /\ whisperContext # None
    /\ queue' = [queue EXCEPT ![whisperContext] =
                   Append(@, [kind |-> "release", who |-> c])]
    /\ GoTo(c, "releasing")
    /\ UNCHANGED <<settingsVars, fieldVars, readPath, readTs, ptr, thread, jobVars>>

NothingToRelease(c) ==
    /\ callStep[c] = "check" /\ ~UpToDate(c)
    /\ whisperContext = None
    /\ GoTo(c, "create")
    /\ UNCHANGED <<settingsVars, fieldVars, readPath, readTs, contextVars, jobVars>>

\* whisperContext = null, once release() has returned.
ForgetOld(c) ==
    /\ callStep[c] = "forget"
    /\ whisperContext' = None
    /\ GoTo(c, "create")
    /\ UNCHANGED <<settingsVars, isInitialized, currentModelPath,
                   currentModelTimestamp, readPath, readTs, contextVars, jobVars>>

\* The file is too small, which ModelFiles deletes where it is the default one,
\* or createContextFromFile throws: either way the file is of no use.
CreateFails_StaysInitialized(c) ==
    /\ callStep[c] = "create" /\ ~usable[readPath[c]]
    /\ GoTo(c, "failed")
    /\ UNCHANGED <<settingsVars, fieldVars, readPath, readTs, contextVars, jobVars>>
CreateFails(c) ==
    /\ callStep[c] = "create" /\ ~usable[readPath[c]]
    /\ Failed(c)

CreateContext(c) ==
    /\ callStep[c] = "create" /\ usable[readPath[c]]
    /\ ptr' = [ptr EXCEPT ![c] = "live"]
    /\ GoTo(c, "publish")
    /\ UNCHANGED <<settingsVars, fieldVars, readPath, readTs, queue, thread, jobVars>>

PublishContext(c) ==
    /\ callStep[c] = "publish"
    /\ whisperContext' = c
    /\ GoTo(c, "confirm")
    /\ UNCHANGED <<settingsVars, isInitialized, currentModelPath,
                   currentModelTimestamp, readPath, readTs, contextVars, jobVars>>

ConfirmContext(c) ==
    /\ callStep[c] = "confirm"
    /\ currentModelPath' = readPath[c]
    /\ currentModelTimestamp' = readTs[c]
    /\ isInitialized' = TRUE
    /\ GoTo(c, "returned")
    /\ UNCHANGED <<settingsVars, whisperContext, readPath, readTs, contextVars,
                   jobVars>>

\* The view model that called was cleared: the next suspension point throws a
\* CancellationException.  After release() the field keeps the freed context.
CallCancelled(c) ==
    /\ Cancel
    /\ callStep[c] \in {"readPath", "readTimestamp", "resetPath", "forget"}
    /\ Failed(c)

-----------------------------------------------------------------------------
\* The executor of context x: its one thread takes the next task.

FreeContext_OnCallersThread(x) ==
    /\ queue[x] # <<>> /\ Head(queue[x]).kind = "release"
    /\ queue' = [queue EXCEPT ![x] = Tail(@)]
    /\ ptr' = [ptr EXCEPT ![x] = IF @ = "live" THEN "freed" ELSE @]
    /\ GoTo(Head(queue[x]).who, "forget")
    /\ UNCHANGED <<settingsVars, fieldVars, readPath, readTs, thread, jobVars>>
FreeContext(x) ==
    /\ thread[x] = None /\ queue[x] # <<>> /\ Head(queue[x]).kind = "release"
    /\ queue' = [queue EXCEPT ![x] = Tail(@)]
    /\ ptr' = [ptr EXCEPT ![x] = IF @ = "live" THEN "freed" ELSE @]
    /\ GoTo(Head(queue[x]).who, "forget")
    /\ UNCHANGED <<settingsVars, fieldVars, readPath, readTs, thread, jobVars>>

\* ptr == 0: the transcription returns a blank text.
TranscribeFreed_NoResult(x) ==
    /\ thread[x] = None /\ queue[x] # <<>> /\ Head(queue[x]).kind = "transcribe"
    /\ ptr[x] # "live"
    /\ queue' = [queue EXCEPT ![x] = Tail(@)]
    /\ UNCHANGED <<settingsVars, fieldVars, callVars, ptr, thread, jobVars>>
TranscribeFreed(x) ==
    /\ thread[x] = None /\ queue[x] # <<>> /\ Head(queue[x]).kind = "transcribe"
    /\ ptr[x] # "live"
    /\ queue' = [queue EXCEPT ![x] = Tail(@)]
    /\ jobStep' = [jobStep EXCEPT ![Head(queue[x]).who] = "done"]
    /\ UNCHANGED <<settingsVars, fieldVars, callVars, ptr, thread, jobContext>>

FullTranscribe(x) ==
    /\ thread[x] = None /\ queue[x] # <<>> /\ Head(queue[x]).kind = "transcribe"
    /\ ptr[x] = "live"
    /\ queue' = [queue EXCEPT ![x] = Tail(@)]
    /\ thread' = [thread EXCEPT ![x] = Head(queue[x]).who]
    /\ jobStep' = [jobStep EXCEPT ![Head(queue[x]).who] = "native"]
    /\ UNCHANGED <<settingsVars, fieldVars, callVars, ptr, jobContext>>

\* The native call returns, and with it transcribeData.
TranscribeReturns(x) ==
    /\ thread[x] # None
    /\ thread' = [thread EXCEPT ![x] = None]
    /\ jobStep' = [jobStep EXCEPT ![thread[x]] = "done"]
    /\ UNCHANGED <<settingsVars, fieldVars, callVars, ptr, queue, jobContext>>

\* finalize() of a context nothing refers to any more.
Finalize_WhileUsed(x) ==
    /\ ptr[x] = "live" /\ whisperContext # x
    /\ callStep[x] \notin {"publish", "confirm"}
    /\ ptr' = [ptr EXCEPT ![x] = "freed"]
    /\ UNCHANGED <<settingsVars, fieldVars, callVars, queue, thread, jobVars>>
Finalize(x) ==
    /\ ptr[x] = "live" /\ whisperContext # x
    /\ callStep[x] \notin {"publish", "confirm"}
    /\ thread[x] = None /\ queue[x] = <<>>
    /\ ptr' = [ptr EXCEPT ![x] = "freed"]
    /\ UNCHANGED <<settingsVars, fieldVars, callVars, queue, thread, jobVars>>

-----------------------------------------------------------------------------
\* whisperContext?.transcribeData(floatData)

NoContext(j) ==
    /\ jobStep[j] = "idle" /\ whisperContext = None
    /\ jobStep' = [jobStep EXCEPT ![j] = "done"]
    /\ UNCHANGED <<settingsVars, fieldVars, callVars, contextVars, jobContext>>

TranscribeData(j) ==
    /\ jobStep[j] = "idle" /\ whisperContext # None
    /\ jobContext' = [jobContext EXCEPT ![j] = whisperContext]
    /\ queue' = [queue EXCEPT ![whisperContext] =
                   Append(@, [kind |-> "transcribe", who |-> j])]
    /\ jobStep' = [jobStep EXCEPT ![j] = "queued"]
    /\ UNCHANGED <<settingsVars, fieldVars, callVars, ptr, thread>>

-----------------------------------------------------------------------------
Call(c) == \/ Initialize(c) \/ ReadPath(c) \/ ReadTimestamp(c) \/ ResetPath(c)
           \/ AlreadyInitialized(c) \/ ModelMissing(c)
           \/ ReleaseOld(c) \/ NothingToRelease(c) \/ ForgetOld(c)
           \/ CreateFails(c) \/ CreateContext(c)
           \/ PublishContext(c) \/ ConfirmContext(c)
           \/ CallCancelled(c)

Executor(x) == \/ FreeContext(x) \/ TranscribeFreed(x) \/ FullTranscribe(x)
               \/ TranscribeReturns(x)

Job(j) == NoContext(j) \/ TranscribeData(j)

Next == \/ SpoilImport \/ \E p \in Paths : EditSettings(p)
        \/ \E c \in Calls : Call(c) \/ Executor(c) \/ Finalize(c)
        \/ \E j \in Jobs : Job(j)

Spec == Init /\ [][Next]_vars

\* Dispatchers.IO and the executors run what is ready, and the native call
\* returns.  Nothing is assumed of the settings, nor of the finalizer.
Fairness == /\ \A c \in Calls : WF_vars(Call(c)) /\ WF_vars(Executor(c))
            /\ \A j \in Jobs : WF_vars(Job(j))

LiveSpec == Spec /\ Fairness

-----------------------------------------------------------------------------
\* The variables hold values of their kind.
TypeOK ==
    /\ path \in Paths /\ timestamp \in Nat
    /\ usable \in [Paths -> BOOLEAN]
    /\ pending \in Nat
    /\ whisperContext \in Calls \cup {None}
    /\ isInitialized \in BOOLEAN
    /\ currentModelPath \in Paths \cup {None}
    /\ currentModelTimestamp \in Nat
    /\ callStep \in [Calls -> CallStep]
    /\ readPath \in [Calls -> Paths]
    /\ readTs \in [Calls -> Nat]
    /\ ptr \in [Calls -> {"absent", "live", "freed"}]
    /\ queue \in [Calls -> Seq(Task)]
    /\ thread \in [Calls -> Jobs \cup {None}]
    /\ jobStep \in [Jobs -> JobStep]
    /\ jobContext \in [Jobs -> Calls \cup {None}]

-----------------------------------------------------------------------------
(* Safety.                                                                 *)

\* No native call is inside a context whose memory was freed, whatever calls
\* of initialize() release meanwhile.
NoUseAfterFree ==
    \A j \in Jobs : jobStep[j] = "native" => ptr[jobContext[j]] = "live"

\* WhisperContext: "Don't access from more than one thread at a time".
OneThreadPerContext ==
    \A j, k \in Jobs :
        /\ jobStep[j] = "native" /\ jobStep[k] = "native"
        /\ jobContext[j] = jobContext[k]
        => j = k

\* No call runs, and none is due.
AtRest == pending = 0 /\ \A c \in Calls : ~Active(c)

\* At rest an initialised engine holds a context it can transcribe with ...
ReadyAtRest ==
    AtRest /\ isInitialized => /\ whisperContext # None
                              /\ ptr[whisperContext] = "live"

\* ... made from the model the settings name now, in its latest version ...
CurrentAtRest ==
    AtRest /\ isInitialized =>
        /\ currentModelPath = path /\ currentModelTimestamp = timestamp
        /\ readPath[whisperContext] = path /\ readTs[whisperContext] = timestamp

\* ... and it is the only one in memory: "If we are already initialized, release
\* the old one".
OldReleasedAtRest ==
    AtRest => \A x \in Calls : ptr[x] = "live" => x = whisperContext

-----------------------------------------------------------------------------
(* Liveness.                                                               *)

\* Every call of initialize() comes back: none waits for ever for an executor.
CallsReturn == \A c \in Calls : Active(c) ~> ~Active(c)

\* Every transcription comes back, the context being released under it or not.
TranscriptionsReturn ==
    \A j \in Jobs : jobStep[j] = "queued" ~> jobStep[j] = "done"

-----------------------------------------------------------------------------
\* WhisperSttEngine keeps whisper.cpp's contract.
Native == INSTANCE NativeContext WITH
    Contexts <- Calls, Threads <- Jobs, Nobody <- None,
    memory <- ptr, inside <- thread

KeepsContract == Native!Spec
=============================================================================
