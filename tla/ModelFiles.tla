----------------------------- MODULE ModelFiles -----------------------------
(***************************************************************************)
(* The model files on disk: ModelManager downloads one file after the      *)
(* other, each into a temporary file that it renames at the end; on the    *)
(* Journal, WhisperSttEngine.initialize copies the packaged Whisper model  *)
(* straight into its place where there is none, and the settings screen    *)
(* imports an LLM straight over the one imported before.  The process may  *)
(* be killed between any two steps; files and settings stay.  The button   *)
(* that starts a download is pressed once at a time.                       *)
(***************************************************************************)
EXTENDS Integers

CONSTANTS
    Bodies,             \* Bodies[m]: lengths of what the server sends for m
    MinSize,            \* WHISPER_MIN_SIZE, LLM_MIN_SIZE
    Megabyte,           \* 1024 * 1024: anything shorter is an error page
    AssetSize,          \* length of the packaged models/whisper/tiny.en.bin
    MinLoadable,        \* 1_000_000: initialize loads nothing shorter
    Inits,              \* calls of initialize that may overlap
    MaxEvents           \* bound: launches, presses, imports and calls together

Models == {"whisper", "llm"}

ASSUME ModelFilesAssumption ==
    /\ Bodies \in [Models -> SUBSET Nat] /\ MinSize \in [Models -> Nat]
    /\ Megabyte \in Nat \ {0} /\ AssetSize \in Nat /\ MinLoadable \in Nat
    /\ AssetSize < MinLoadable
    /\ MinLoadable <= MinSize["whisper"] /\ MinLoadable <= Megabyte
    /\ MaxEvents \in Nat

VARIABLES
    file, temp,         \* [got, of]: how much of a body a file holds, or Absent
    custom,             \* llm_custom.bin: "absent", "part" or "model"
    named,              \* the LLM path in the settings
    base,               \* the settings call the Whisper model a "Base" one
    screen,             \* "none", "setup" or "journal"
    downloadState,
    at,                 \* where downloadModels is: [step, model]
    cancelled,          \* its scope is
    importing,          \* "no", or importLlmModel's "copy" or "save"
    initializing,       \* where each initialize is: "idle", "open", "copy", "delete"
    events              \* how many there were

disk == <<file, temp, custom, named, base>>
working == <<importing, initializing>>
filesVars == <<disk, screen, downloadState, at, cancelled, working, events>>

Absent == [got |-> 0, of |-> -1]
Whole(f) == f.got = f.of
length(f) == f.got
Paths == {"unset", "default", "custom"}

Event == events < MaxEvents /\ events' = events + 1

\* File.delete, which may fail; nobody asks.
Deletes(m) == file' \in {file, [file EXCEPT ![m] = Absent]}

\* An installation may have the Base model an earlier version came with.
FilesInit ==
    /\ base \in BOOLEAN
    /\ file = [m \in Models |-> IF m = "whisper" /\ base
                                THEN [got |-> MinSize[m] + 1, of |-> MinSize[m] + 1]
                                ELSE Absent]
    /\ temp = [m \in Models |-> Absent]
    /\ custom = "absent" /\ named = "unset"
    /\ screen = "none" /\ downloadState = "Idle"
    /\ at = [step |-> "idle", model |-> "whisper"]
    /\ cancelled = FALSE /\ importing = "no"
    /\ initializing = [i \in Inits |-> "idle"]
    /\ events = 0
-----------------------------------------------------------------------------
(* The activity.                                                           *)

AreModelsDownloaded ==
    \A m \in Models : file[m] # Absent /\ length(file[m]) > MinSize[m]

Launch ==
    /\ screen = "none" /\ Event
    /\ screen' = IF AreModelsDownloaded THEN "journal" ELSE "setup"
    /\ UNCHANGED <<disk, downloadState, at, cancelled, working>>

Skip ==
    /\ screen = "setup" /\ downloadState \in {"Idle", "Error"}
    /\ screen' = "journal"
    /\ UNCHANGED <<disk, downloadState, at, cancelled, working, events>>

OnComplete ==
    /\ screen = "setup" /\ downloadState = "Completed"
    /\ screen' = "journal"
    /\ UNCHANGED <<disk, downloadState, at, cancelled, working, events>>

\* Back on the setup screen: its view model is cleared, its scope cancelled.
Leave ==
    /\ screen = "setup"
    /\ screen' = "none"
    /\ cancelled' = TRUE
    /\ UNCHANGED <<disk, downloadState, at, working, events>>

\* Past the setup screen its view model is cleared too, a transition later.
SetupCleared ==
    /\ screen = "journal" /\ ~cancelled /\ at.step # "idle"
    /\ cancelled' = TRUE
    /\ UNCHANGED <<disk, screen, downloadState, at, working, events>>

\* The process dies: what is in memory is gone.
FilesLost ==
    /\ screen' = "none" /\ downloadState' = "Idle"
    /\ at' = [at EXCEPT !.step = "idle"]
    /\ cancelled' = FALSE /\ importing' = "no"
    /\ initializing' = [i \in Inits |-> "idle"]
    /\ UNCHANGED <<disk, events>>
-----------------------------------------------------------------------------
(* downloadModels.                                                         *)

At(step) == at.step = step
Goto(step) == at' = [at EXCEPT !.step = step]
activity == <<screen, cancelled, working, events>>
choice == <<custom, named, base>>

StartDownload ==
    /\ screen = "setup" /\ downloadState \in {"Idle", "Error"}
    /\ At("idle") /\ Event
    /\ at' = [step |-> "begin", model |-> "whisper"]
    /\ cancelled' = FALSE
    /\ UNCHANGED <<disk, screen, downloadState, working>>

\* A scope cancelled before the dispatcher runs the block runs nothing.
Begin ==
    /\ At("begin")
    /\ IF cancelled THEN Goto("idle") /\ UNCHANGED downloadState
                    ELSE Goto("name") /\ downloadState' = "Downloading"
    /\ UNCHANGED <<disk, activity>>

Fails == Goto("idle") /\ downloadState' = "Error"

\* The old Base model makes room for the Tiny one.
ReadName ==
    /\ At("name")
    /\ \/ cancelled /\ Fails /\ UNCHANGED disk
       \/ /\ ~cancelled
          /\ IF base THEN Deletes("whisper") ELSE UNCHANGED file
          /\ Goto("check")
          /\ UNCHANGED <<temp, choice, downloadState>>
    /\ UNCHANGED activity

Check ==
    /\ At("check")
    /\ Goto(IF file[at.model] = Absent \/ length(file[at.model]) < MinSize[at.model]
            THEN "request" ELSE "save")
    /\ UNCHANGED <<disk, activity, downloadState>>

RequestFails ==
    /\ At("request") /\ Fails
    /\ UNCHANGED <<disk, activity>>

\* The temporary file is opened anew, and what was left in it is gone.
Respond ==
    /\ At("request")
    /\ \E n \in Bodies[at.model] :
          temp' = [temp EXCEPT ![at.model] = [got |-> 0, of |-> n]]
    /\ Goto("write")
    /\ UNCHANGED <<file, choice, activity, downloadState>>

Write ==
    /\ At("write") /\ ~Whole(temp[at.model])
    /\ temp' = [temp EXCEPT ![at.model].got = @ + 1]
    /\ UNCHANGED <<file, choice, activity, at, downloadState>>

\* The connection or the disk fails; "finally" deletes the temporary file.
WriteFails ==
    /\ At("write") /\ Fails
    /\ temp' = [temp EXCEPT ![at.model] = Absent]
    /\ UNCHANGED <<file, choice, activity>>

\* Mutant: the file is moved into place before it is complete.
DeleteTarget_Early ==
    /\ At("write")
    /\ Deletes(at.model)
    /\ Goto("rename")
    /\ UNCHANGED <<temp, choice, activity, downloadState>>

DeleteTarget ==
    /\ At("write") /\ Whole(temp[at.model])
    /\ Deletes(at.model)
    /\ Goto("rename")
    /\ UNCHANGED <<temp, choice, activity, downloadState>>

\* renameTo may fail, which nobody asks; "finally" deletes what is left.
Rename ==
    /\ At("rename")
    /\ file' \in {file, [file EXCEPT ![at.model] = temp[at.model]]}
    /\ temp' = [temp EXCEPT ![at.model] = Absent]
    /\ Goto("verify")
    /\ UNCHANGED <<choice, activity, downloadState>>

\* Mutant: an error page is taken for the model.
Verify_Page ==
    /\ At("verify")
    /\ Goto("save") /\ UNCHANGED <<file, downloadState>>
    /\ UNCHANGED <<temp, choice, activity>>

Verify ==
    /\ At("verify")
    /\ IF length(file[at.model]) < Megabyte
       THEN Fails /\ Deletes(at.model)
       ELSE Goto("save") /\ UNCHANGED <<file, downloadState>>
    /\ UNCHANGED <<temp, choice, activity>>

SavePath ==
    /\ At("save")
    /\ \/ cancelled /\ Fails /\ UNCHANGED disk
       \/ /\ ~cancelled /\ at.model = "whisper"
          /\ base' = FALSE
          /\ at' = [step |-> "check", model |-> "llm"]
          /\ UNCHANGED <<file, temp, custom, named, downloadState>>
       \/ /\ ~cancelled /\ at.model = "llm"
          /\ named' = "default"
          /\ Goto("idle") /\ downloadState' = "Completed"
          /\ UNCHANGED <<file, temp, custom, base>>
    /\ UNCHANGED activity

DownloadModels ==
    \/ Begin \/ ReadName \/ Check \/ RequestFails \/ Respond
    \/ Write \/ WriteFails \/ DeleteTarget \/ Rename \/ Verify \/ SavePath
-----------------------------------------------------------------------------
(* WhisperSttEngine.initialize, run for the view models of the Journal each *)
(* time the settings change.  Its engine is the module WhisperEngine.       *)

whisper == file["whisper"]
Goes(i, step) == initializing' = [initializing EXCEPT ![i] = step]
inits == <<temp, custom, named, screen, downloadState, at, cancelled, importing>>

\* It deletes a file too short to be a model, though not an empty one, unless
\* it returns or throws before.
LooksAt(i) ==
    \/ Goes(i, "idle")
    \/ 0 < length(whisper) /\ length(whisper) < MinLoadable /\ Goes(i, "delete")

\* A path the settings name and that is of no use is cleared first.
Initialize(i) ==
    /\ screen = "journal" /\ initializing[i] = "idle" /\ Event
    /\ base' \in {base, FALSE}
    /\ IF whisper = Absent THEN Goes(i, "open") ELSE LooksAt(i)
    /\ UNCHANGED <<file, inits>>

\* The model is truncated by now if another call or a download put it there.
OpenAsset(i) ==
    /\ initializing[i] = "open"
    /\ file' = [file EXCEPT !["whisper"] = [got |-> 0, of |-> AssetSize]]
    /\ Goes(i, "copy")
    /\ UNCHANGED <<base, inits, events>>

\* Two copies write where each of them is, and the longer one counts.
WriteAsset(i) ==
    /\ initializing[i] = "copy" /\ whisper.of = AssetSize /\ ~Whole(whisper)
    /\ \E n \in whisper.got + 1 .. AssetSize : file' = [file EXCEPT !["whisper"].got = n]
    /\ UNCHANGED <<base, initializing, inits, events>>

\* The end of the copy, also where the file was deleted or replaced.
CopyEnds(i) ==
    /\ initializing[i] = "copy" /\ (whisper.of # AssetSize \/ Whole(whisper))
    /\ LooksAt(i)
    /\ UNCHANGED <<file, base, inits, events>>

CopyFails(i) ==
    /\ initializing[i] \in {"open", "copy"} /\ Goes(i, "idle")
    /\ UNCHANGED <<file, base, inits, events>>

DeleteCorrupted(i) ==
    /\ initializing[i] = "delete" /\ Deletes("whisper")
    /\ Goes(i, "idle")
    /\ UNCHANGED <<base, inits, events>>

InitializeWhisper(i) ==
    \/ Initialize(i) \/ OpenAsset(i) \/ WriteAsset(i)
    \/ CopyEnds(i) \/ CopyFails(i) \/ DeleteCorrupted(i)
-----------------------------------------------------------------------------
(* The settings screen.                                                    *)

others == <<file, temp, screen, downloadState, at, cancelled, initializing>>

\* importWhisperModel, into a file of its own, and clearWhisperModel: what they
\* call the model.
NameWhisper ==
    /\ screen = "journal"
    /\ base' \in BOOLEAN
    /\ UNCHANGED <<custom, named, importing, others, events>>

\* The copy truncates the custom file first, whatever uses it.
ImportLlm ==
    /\ screen = "journal" /\ importing = "no" /\ Event
    /\ custom' = "part"
    /\ importing' = "copy"
    /\ UNCHANGED <<named, base, others>>

\* An exception and a short file leave what was copied, a file that is no LLM
\* is deleted.
ImportEnds ==
    /\ importing = "copy"
    /\ \/ custom' = "model" /\ importing' = "save"
       \/ custom' \in {"part", "absent"} /\ importing' = "no"
    /\ UNCHANGED <<named, base, others, events>>

SaveLlm ==
    /\ importing = "save"
    /\ named' = "custom" /\ importing' = "no"
    /\ UNCHANGED <<custom, base, others, events>>

ClearLlmModel ==
    /\ screen = "journal" /\ named # "unset"
    /\ named' = "unset"
    /\ UNCHANGED <<custom, base, importing, others, events>>

FilesNext ==
    \/ Launch \/ Skip \/ OnComplete \/ Leave \/ SetupCleared
    \/ StartDownload \/ DownloadModels
    \/ \E i \in Inits : InitializeWhisper(i)
    \/ NameWhisper \/ ImportLlm \/ ImportEnds \/ SaveLlm \/ ClearLlmModel
-----------------------------------------------------------------------------
\* "Move temp file to actual file only if successful": whenever the process is
\* killed, and whatever writes or deletes beside, a model file long enough to be
\* loaded holds all of what was sent for it.  Part of the packaged model may be
\* left by initialize, which copies in place and loads nothing as short.
TargetsWhole ==
    \A m \in Models :
        \/ file[m] = Absent \/ Whole(file[m])
        \/ m = "whisper" /\ length(file[m]) < MinLoadable

\* Up to the Journal, downloads are said to be done only when the next launch
\* will agree.
CompletedIsAccepted ==
    screen # "journal" /\ downloadState = "Completed" => AreModelsDownloaded
=============================================================================
