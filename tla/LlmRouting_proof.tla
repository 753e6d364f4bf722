-------------------------- MODULE LlmRouting_proof --------------------------
(***************************************************************************)
(* Proofs about the model files and the choice of an engine: a model file  *)
(* is whole, absent or too short to be loaded, setup is done only with     *)
(* models the next launch accepts, the cache of engines is fresh, and the  *)
(* model that answers is one the settings named, as long as calls take     *)
(* turns in MediaPipeEngine.                                               *)
(***************************************************************************)
EXTENDS LlmRouting, TLAPS

Files == [got : Nat, of : Int]
Steps == {"idle", "begin", "name", "check", "request", "write", "rename", "verify", "save"}

\* What the temporary file is when it is moved into place.
FileInv ==
    /\ file \in [Models -> Files] /\ temp \in [Models -> Files]
    /\ at \in [step : Steps, model : Models]
    /\ at.step = "rename" => Whole(temp[at.model])
    /\ TargetsWhole

\* The time with which an engine is remembered is no later than the time when
\* it was found.
Aged(e, since) == e # Nothing => e.foundAt \in Int /\ since <= e.foundAt

CallSteps == {"idle", "checking", "looking", "checked", "resolved"} \cup InEngine
Choice == [engine : {"none", "mediaPipe", "anthropic"}, foundAt : Int]
CallRecord ==
    [step : CallSteps, now : Int, again : BOOLEAN, choice : Choice, path : Paths]

CacheInv ==
    /\ clock \in Int /\ lastCheck \in Int
    /\ cached \in Choice
    /\ call \in [Calls -> CallRecord]
    /\ named \in Paths /\ inference \in Paths \cup {"none"}
    /\ Aged(cached, lastCheck)
    /\ \A c \in Calls :
          /\ call[c].step \in {"checking", "looking"} => call[c].now <= clock
          /\ call[c].step = "checked" => call[c].now <= call[c].choice.foundAt
\* The model in memory is the one currentModelPath names, and there is none
\* while a call builds one: calls take turns.
EngineInv ==
    /\ seen \in [Calls -> SUBSET Paths]
    /\ inference # "none" => inference = currentModelPath
    /\ \A c \in Calls :
          /\ call[c].step \in InEngine \ {"building"} => call[c].path \in seen[c]
          /\ call[c].step \in {"building", "gpu", "cpu"} => inference = "none"
          /\ \A d \in Calls \ {c} :
                call[c].step \in InEngine => call[d].step \notin InEngine
-----------------------------------------------------------------------------
(* The files.                                                              *)

LEMMA AbsentIsFile == Absent \in Files
  BY DEF Files, Absent

LEMMA ModelNames == "whisper" \in Models /\ "llm" \in Models
  BY DEF Models

LEMMA FilesStart == FilesInit => FileInv
<1> SUFFICES ASSUME FilesInit PROVE FileInv
  OBVIOUS
<1> DEFINE old(m) == [got |-> MinSize[m] + 1, of |-> MinSize[m] + 1]
<1>1. ASSUME NEW m \in Models PROVE old(m) \in Files /\ Whole(old(m))
  <2>1. MinSize[m] \in Nat
    BY ModelFilesAssumption DEF ModelFilesAssumption
  <2> QED  BY <2>1 DEF Files, Whole
<1>2. file = [m \in Models |-> IF m = "whisper" /\ base THEN old(m) ELSE Absent]
  BY DEF FilesInit
<1>3. /\ temp = [m \in Models |-> Absent]
      /\ at = [step |-> "idle", model |-> "whisper"]
  BY DEF FilesInit
<1> HIDE DEF old
<1> QED  BY <1>1, <1>2, <1>3, AbsentIsFile, ModelNames DEF FileInv, TargetsWhole, Steps

LEMMA FilesKept ==
  ASSUME FileInv, UNCHANGED <<file, temp, at>>
  PROVE  FileInv'
  BY DEF FileInv, TargetsWhole, Whole, length

\* Steps of the download that move nothing into place.
LEMMA Moved ==
  ASSUME FileInv, NEW s \in Steps, s # "rename", at' = [at EXCEPT !.step = s],
         UNCHANGED <<file, temp>>
  PROVE  FileInv'
<1>1. at' \in [step : Steps, model : Models] /\ at'.step # "rename"
  BY DEF FileInv
<1>2. TargetsWhole'
  BY DEF FileInv, TargetsWhole, Whole, length
<1> QED  BY <1>1, <1>2 DEF FileInv

LEMMA TempStep ==
  ASSUME FileInv, NEW s \in Steps, s # "rename", at' = [at EXCEPT !.step = s],
         UNCHANGED file,
         NEW f \in Files, temp' = [temp EXCEPT ![at.model] = f]
  PROVE  FileInv'
<1>1. at' \in [step : Steps, model : Models] /\ at'.step # "rename"
  BY DEF FileInv
<1>2. TargetsWhole'
  BY DEF FileInv, TargetsWhole, Whole, length
<1>3. temp' \in [Models -> Files]
  BY DEF FileInv
<1> QED  BY <1>1, <1>2, <1>3 DEF FileInv

LEMMA PutFile ==
  ASSUME FileInv, NEW m \in Models, NEW f \in Files,
         f = Absent \/ Whole(f) \/ (m = "whisper" /\ length(f) < MinLoadable),
         file' = [file EXCEPT ![m] = f]
  PROVE  file' \in [Models -> Files] /\ TargetsWhole'
  BY DEF FileInv, TargetsWhole, Whole, length

LEMMA DeletesFile ==
  ASSUME FileInv, NEW m \in Models, Deletes(m)
  PROVE  file' \in [Models -> Files] /\ TargetsWhole'
<1>1. CASE file' = file
  BY <1>1 DEF FileInv, TargetsWhole, Whole, length
<1>2. CASE file' = [file EXCEPT ![m] = Absent]
  BY <1>2, PutFile, AbsentIsFile
<1> QED  BY <1>1, <1>2 DEF Deletes

\* The file of the Whisper model is written where no download is.
LEMMA FileWritten ==
  ASSUME FileInv, file' \in [Models -> Files], TargetsWhole', UNCHANGED <<temp, at>>
  PROVE  FileInv'
  BY DEF FileInv, Whole

LEMMA FileStep ==
  ASSUME FileInv, NEW s \in Steps, s = "rename" => Whole(temp[at.model]) /\ temp' = temp,
         at' = [at EXCEPT !.step = s],
         temp' \in [Models -> Files],
         file' \in [Models -> Files], TargetsWhole'
  PROVE  FileInv'
<1>1. at' \in [step : Steps, model : Models] /\ at'.step = s /\ at'.model = at.model
  BY DEF FileInv
<1>2. at'.step = "rename" => Whole(temp'[at'.model])
  BY <1>1
<1> QED  BY <1>1, <1>2 DEF FileInv, Whole

LEMMA FilesStep ==
  ASSUME FileInv, FilesNext
  PROVE  FileInv'
<1>0. /\ at.model \in Models /\ at.step \in Steps
      /\ file \in [Models -> Files] /\ temp \in [Models -> Files] /\ TargetsWhole
  BY DEF FileInv
<1>1. CASE Launch \/ Skip \/ OnComplete \/ Leave \/ SetupCleared
  <2>1. UNCHANGED <<file, temp, at>>
    BY <1>1 DEF Launch, Skip, OnComplete, Leave, SetupCleared, disk
  <2> QED  BY <2>1, FilesKept
<1>2. CASE StartDownload
  <2>1. UNCHANGED <<file, temp>> /\ at' = [step |-> "begin", model |-> "whisper"]
    BY <1>2 DEF StartDownload, disk
  <2>2. at' \in [step : Steps, model : Models]
    BY <2>1, ModelNames DEF Steps
  <2>3. at'.step # "rename"
    BY <2>1
  <2>4. file' \in [Models -> Files] /\ temp' \in [Models -> Files]
    BY <2>1, <1>0
  <2>5. TargetsWhole'
    BY <2>1, <1>0 DEF TargetsWhole, Whole, length
  <2> QED  BY <2>2, <2>3, <2>4, <2>5 DEF FileInv
<1>3. CASE Begin \/ Check \/ RequestFails
  <2>1. /\ UNCHANGED <<file, temp>>
        /\ \E s \in {"idle", "name", "request", "save"} : at' = [at EXCEPT !.step = s]
    BY <1>3 DEF Begin, Check, RequestFails, disk, Goto, Fails
  <2> QED  BY <2>1, Moved DEF Steps
<1>4. CASE ReadName
  <2>1. CASE UNCHANGED disk /\ at' = [at EXCEPT !.step = "idle"]
    BY <2>1, Moved DEF disk, Steps
  <2>2. CASE /\ IF base THEN Deletes("whisper") ELSE UNCHANGED file
             /\ at' = [at EXCEPT !.step = "check"] /\ UNCHANGED temp
    <3>1. CASE base
      <4>1. file' \in [Models -> Files] /\ TargetsWhole'
        BY <2>2, <3>1, DeletesFile, ModelNames
      <4> QED  BY <4>1, <2>2, <1>0, FileStep DEF Steps
    <3>2. CASE ~base
      BY <3>2, <2>2, Moved DEF Steps
    <3> QED  BY <3>1, <3>2
  <2> QED  BY <1>4, <2>1, <2>2 DEF ReadName, Goto, Fails
<1>5. CASE Respond
  <2>1. PICK n \in Bodies[at.model] :
           temp' = [temp EXCEPT ![at.model] = [got |-> 0, of |-> n]]
    BY <1>5 DEF Respond
  <2>2. n \in Nat
    BY <1>0, ModelFilesAssumption DEF ModelFilesAssumption
  <2>3. [got |-> 0, of |-> n] \in Files
    BY <2>2 DEF Files
  <2>4. at' = [at EXCEPT !.step = "write"] /\ UNCHANGED file
    BY <1>5 DEF Respond, Goto
  <2> QED  BY <2>1, <2>3, <2>4, TempStep DEF Steps
<1>6. CASE Write
  <2>1. temp[at.model] \in Files
    BY <1>0
  <2>2. [temp[at.model] EXCEPT !.got = @ + 1] \in Files
    BY <2>1 DEF Files
  <2>3. temp' = [temp EXCEPT ![at.model] = [temp[at.model] EXCEPT !.got = @ + 1]]
    BY <1>6 DEF Write
  <2>4. at' = [at EXCEPT !.step = "write"] /\ UNCHANGED file
    BY <1>6, <1>0 DEF Write, At, FileInv
  <2> QED  BY <2>2, <2>3, <2>4, TempStep DEF Steps
<1>7. CASE WriteFails
  BY <1>7, TempStep, AbsentIsFile DEF WriteFails, Fails, Goto, Steps
<1>8. CASE DeleteTarget
  <2>1. file' \in [Models -> Files] /\ TargetsWhole'
    BY <1>8, <1>0, DeletesFile DEF DeleteTarget
  <2> QED  BY <1>8, <2>1, <1>0, FileStep DEF DeleteTarget, Goto, Steps
<1>9. CASE Rename
  <2>1. temp[at.model] \in Files /\ Whole(temp[at.model])
    BY <1>9, <1>0 DEF Rename, At, FileInv
  <2>2. CASE file' = file
    BY <1>9, <2>2, TempStep, AbsentIsFile DEF Rename, Goto, Steps
  <2>3. CASE file' = [file EXCEPT ![at.model] = temp[at.model]]
    <3>1. file' \in [Models -> Files] /\ TargetsWhole'
      BY <2>1, <2>3, <1>0, PutFile
    <3>2. temp' \in [Models -> Files]
      BY <1>9, <1>0, AbsentIsFile DEF Rename
    <3>3. at' = [at EXCEPT !.step = "verify"]
      BY <1>9 DEF Rename, Goto
    <3> QED  BY <3>1, <3>2, <3>3, FileStep DEF Steps
  <2> QED  BY <1>9, <2>2, <2>3 DEF Rename
<1>10. CASE Verify
  <2>1. CASE UNCHANGED <<file, temp>> /\ at' = [at EXCEPT !.step = "save"]
    BY <2>1, Moved DEF Steps
  <2>2. CASE /\ Deletes(at.model)
             /\ at' = [at EXCEPT !.step = "idle"] /\ UNCHANGED temp
    <3>1. file' \in [Models -> Files] /\ TargetsWhole'
      BY <2>2, <1>0, DeletesFile
    <3> QED  BY <3>1, <2>2, <1>0, FileStep DEF Steps
  <2> QED  BY <1>10, <2>1, <2>2 DEF Verify, Goto, Fails
<1>11. CASE SavePath
  <2>1. UNCHANGED <<file, temp>>
    BY <1>11 DEF SavePath, disk
  <2>2. \/ at' = [at EXCEPT !.step = "idle"]
        \/ at' = [step |-> "check", model |-> "llm"]
    BY <1>11 DEF SavePath, Fails, Goto
  <2>3. CASE at' = [at EXCEPT !.step = "idle"]
    BY <2>1, <2>3, Moved DEF Steps
  <2>4. CASE at' = [step |-> "check", model |-> "llm"]
    <3>1. at' \in [step : Steps, model : Models] /\ at'.step # "rename"
      BY <2>4, ModelNames DEF Steps
    <3>2. TargetsWhole'
      BY <2>1, <1>0 DEF TargetsWhole, Whole, length
    <3> QED  BY <3>1, <3>2, <2>1, <1>0 DEF FileInv
  <2> QED  BY <2>2, <2>3, <2>4
<1>12. CASE NameWhisper \/ ImportLlm \/ ImportEnds \/ SaveLlm \/ ClearLlmModel
  <2>1. UNCHANGED <<file, temp, at>>
    BY <1>12 DEF NameWhisper, ImportLlm, ImportEnds, SaveLlm, ClearLlmModel, others
  <2> QED  BY <2>1, FilesKept
<1>13. ASSUME NEW i \in Inits, InitializeWhisper(i) PROVE FileInv'
  <2>1. CASE Initialize(i) \/ CopyEnds(i) \/ CopyFails(i)
    <3>1. UNCHANGED <<file, temp, at>>
      BY <2>1 DEF Initialize, CopyEnds, CopyFails, inits
    <3> QED  BY <3>1, FilesKept
  <2>2. CASE OpenAsset(i)
    <3> DEFINE f == [got |-> 0, of |-> AssetSize]
    <3>1. f \in Files /\ length(f) < MinLoadable
      BY ModelFilesAssumption DEF ModelFilesAssumption, Files, length
    <3>2. file' = [file EXCEPT !["whisper"] = f] /\ UNCHANGED <<temp, at>>
      BY <2>2 DEF OpenAsset, inits
    <3> HIDE DEF f
    <3>3. file' \in [Models -> Files] /\ TargetsWhole'
      BY <3>1, <3>2, PutFile, ModelNames
    <3> QED  BY <3>2, <3>3, FileWritten
  <2>3. CASE WriteAsset(i)
    <3>0. whisper \in Files
      BY <1>0, ModelNames DEF whisper
    <3>1. PICK n \in whisper.got + 1 .. AssetSize : file' = [file EXCEPT !["whisper"].got = n]
      BY <2>3 DEF WriteAsset
    <3>2. n \in Nat /\ n < MinLoadable
      BY <3>0, <3>1, ModelFilesAssumption DEF ModelFilesAssumption, Files
    <3> DEFINE f == [whisper EXCEPT !.got = n]
    <3>3. f \in Files /\ length(f) < MinLoadable
      BY <3>0, <3>2 DEF Files, length
    <3>4. file' = [file EXCEPT !["whisper"] = f] /\ UNCHANGED <<temp, at>>
      BY <2>3, <3>1 DEF WriteAsset, inits, whisper
    <3> HIDE DEF f
    <3>5. file' \in [Models -> Files] /\ TargetsWhole'
      BY <3>3, <3>4, PutFile, ModelNames
    <3> QED  BY <3>4, <3>5, FileWritten
  <2>4. CASE DeleteCorrupted(i)
    BY <2>4, DeletesFile, FileWritten, ModelNames DEF DeleteCorrupted, inits
  <2> QED  BY <1>13, <2>1, <2>2, <2>3, <2>4 DEF InitializeWhisper
<1> QED
  BY <1>1, <1>2, <1>3, <1>4, <1>5, <1>6, <1>7, <1>8, <1>9, <1>10, <1>11, <1>12, <1>13
  DEF FilesNext, DownloadModels

LEMMA FilesInductive == ASSUME FileInv, [Next]_vars PROVE FileInv'
<1>1. CASE FilesNext
  BY <1>1, FilesStep
<1>2. CASE Kill
  <2>1. at' = [at EXCEPT !.step = "idle"] /\ UNCHANGED <<file, temp>>
    BY <1>2 DEF Kill, FilesLost, disk
  <2> QED  BY <2>1, Moved DEF Steps
<1>3. CASE \E c \in Calls : Caller(c)
  <2>1. UNCHANGED <<file, temp, at>>
    BY <1>3 DEF Caller, Resolve, AvailablePath, Available, StoreEngine, AnthropicAnswers,
       ReadModelPath, Open, Build, CreateOnGpu, CreateOnCpu, Generate, filesVars, disk
  <2> QED  BY <2>1, FilesKept
<1>4. CASE Tick \/ UNCHANGED vars
  <2>1. UNCHANGED <<file, temp, at>>
    BY <1>4 DEF Tick, vars, filesVars, disk
  <2> QED  BY <2>1, FilesKept
<1> QED  BY <1>1, <1>2, <1>3, <1>4 DEF Next

\* Whatever fails, whenever the process is killed, and however downloads cross
\* initialize and its copies of the packaged model: a model file long enough to
\* be loaded is all that was sent for it.  It rests on the asset being shorter
\* than what initialize loads, and would not hold of a longer one.
THEOREM LoadableIsWhole == Spec => []TargetsWhole
<1>1. Init => FileInv
  BY FilesStart DEF Init
<1>2. FileInv /\ [Next]_vars => FileInv'
  BY FilesInductive
<1>3. FileInv => TargetsWhole
  BY DEF FileInv
<1> QED  BY <1>1, <1>2, <1>3, PTL DEF Spec
-----------------------------------------------------------------------------
(* What the setup screen says.                                             *)

\* What a server sends is a model longer than the least length of one, or an
\* error page shorter than that and than a megabyte.
Served == \A m \in Models : \A n \in Bodies[m] :
             n > MinSize[m] \/ (n < MinSize[m] /\ n < Megabyte)

Accepted(m) == file[m] # Absent /\ length(file[m]) > MinSize[m]

\* No file has a length the two checks of a model would tell apart.
OfSize(m, f) ==
    f # Absent => \/ length(f) > MinSize[m]
                  \/ length(f) < MinSize[m] /\ length(f) < Megabyte
Sized ==
    \A m \in Models :
       /\ OfSize(m, file[m])
       /\ temp[m] # Absent => temp[m].of \in Bodies[m] \cup {-1}

\* The model being saved is one the next launch accepts, and so is the Whisper
\* model while the LLM is downloaded.
Going ==
    /\ at.step \in {"begin", "name"} => at.model = "whisper"
    /\ at.step = "save" => Accepted(at.model)
    /\ at.step # "idle" /\ at.model = "llm" => Accepted("whisper")
    /\ downloadState = "Completed" => at.step = "idle" /\ AreModelsDownloaded

\* On the Journal initialize may take away what a download left running needs.
SetupInv ==
    /\ Sized
    /\ \A i \in Inits : initializing[i] # "idle" => screen = "journal"
    /\ screen # "journal" => Going

LEMMA SizesAreNumbers ==
  ASSUME FileInv, NEW m \in Models
  PROVE  /\ MinSize[m] \in Nat /\ Megabyte \in Nat \ {0} /\ Bodies[m] \subseteq Nat
         /\ file[m] \in Files /\ temp[m] \in Files
  BY ModelFilesAssumption DEF FileInv, ModelFilesAssumption

LEMMA SetupStart == FilesInit => SetupInv
<1> SUFFICES ASSUME FilesInit PROVE SetupInv
  OBVIOUS
<1>1. /\ at = [step |-> "idle", model |-> "whisper"] /\ downloadState = "Idle"
      /\ temp = [m \in Models |-> Absent]
      /\ initializing = [i \in Inits |-> "idle"]
      /\ \A m \in Models : file[m] # Absent => length(file[m]) = MinSize[m] + 1
  BY DEF FilesInit, length
<1>2. \A m \in Models : MinSize[m] \in Nat
  BY ModelFilesAssumption DEF ModelFilesAssumption
<1>3. Sized
  BY <1>1, <1>2 DEF Sized, OfSize
<1>4. Going
  BY <1>1 DEF Going
<1> QED  BY <1>1, <1>3, <1>4 DEF SetupInv

LEMMA SizedKept ==
  ASSUME Sized,
         \A m \in Models : file'[m] = file[m] \/ OfSize(m, file'[m]),
         \A m \in Models : temp'[m] = temp[m] \/ temp'[m] = Absent
                             \/ temp'[m].of \in Bodies[m]
  PROVE  Sized'
  BY DEF Sized, OfSize

LEMMA SizedDeletes ==
  ASSUME FileInv, Sized, NEW m \in Models, Deletes(m) \/ UNCHANGED file,
         \A n \in Models : temp'[n] = temp[n] \/ temp'[n] = Absent
  PROVE  Sized'
<1>1. \A n \in Models : file'[n] = file[n] \/ file'[n] = Absent
  BY DEF Deletes, FileInv
<1> QED  BY <1>1, SizedKept DEF OfSize

\* Whatever runs, where it runs: downloads put what the server sends in place,
\* initialize a copy of the asset.
LEMMA SizedStep ==
  ASSUME Served, FileInv, Sized, FilesNext
  PROVE  Sized'
<1>0. at.model \in Models /\ file \in [Models -> Files] /\ temp \in [Models -> Files]
  BY DEF FileInv
<1>1. CASE UNCHANGED <<file, temp>>
  BY <1>1, SizedKept
<1>2. CASE ReadName \/ WriteFails \/ DeleteTarget \/ Verify
  <2>1. \E m \in Models : Deletes(m) \/ UNCHANGED file
    BY <1>0, <1>2, ModelNames DEF ReadName, WriteFails, DeleteTarget, Verify, disk
  <2>2. \A n \in Models : temp'[n] = temp[n] \/ temp'[n] = Absent
    BY <1>0, <1>2 DEF ReadName, WriteFails, DeleteTarget, Verify, disk
  <2> QED  BY <2>1, <2>2, SizedDeletes
<1>3. CASE Respond
  <2>1. /\ UNCHANGED file
        /\ \E n \in Bodies[at.model] :
              temp' = [temp EXCEPT ![at.model] = [got |-> 0, of |-> n]]
    BY <1>3 DEF Respond
  <2>2. \A m \in Models : temp'[m] = temp[m] \/ temp'[m].of \in Bodies[m]
    BY <1>0, <2>1
  <2> QED  BY <2>1, <2>2, SizedKept
<1>4. CASE Write
  <2>1. /\ UNCHANGED file
        /\ temp' = [temp EXCEPT ![at.model] = [temp[at.model] EXCEPT !.got = @ + 1]]
    BY <1>4 DEF Write
  <2>2. temp[at.model] \in Files /\ ~Whole(temp[at.model])
    BY <1>0, <1>4 DEF Write
  <2>3. temp'[at.model].of = temp[at.model].of
    BY <1>0, <2>1, <2>2 DEF Files
  <2>4. temp[at.model] # Absent => temp[at.model].of \in Bodies[at.model] \cup {-1}
    BY <1>0 DEF Sized
  <2>5. temp'[at.model].of \in Bodies[at.model] \cup {-1}
    BY <2>3, <2>4 DEF Absent
  <2>6. \A m \in Models \ {at.model} : temp'[m] = temp[m]
    BY <1>0, <2>1
  <2> QED  BY <1>0, <2>1, <2>5, <2>6 DEF Sized, OfSize
<1>5. CASE Rename
  <2>1. /\ file' \in {file, [file EXCEPT ![at.model] = temp[at.model]]}
        /\ temp' = [temp EXCEPT ![at.model] = Absent]
        /\ Whole(temp[at.model])
    BY <1>5 DEF Rename, At, FileInv
  <2>2. OfSize(at.model, temp[at.model])
    <3>1. temp[at.model] \in Files /\ length(temp[at.model]) = temp[at.model].of
      BY <1>0, <2>1 DEF Whole, length
    <3>2. temp[at.model].of \in Nat
      BY <3>1 DEF Files, length
    <3>3. temp[at.model] # Absent => temp[at.model].of \in Bodies[at.model]
      BY <1>0, <3>2 DEF Sized
    <3>4. temp[at.model] # Absent =>
             \/ temp[at.model].of > MinSize[at.model]
             \/ temp[at.model].of < MinSize[at.model] /\ temp[at.model].of < Megabyte
      BY <1>0, <3>3 DEF Served
    <3> QED  BY <3>1, <3>4 DEF OfSize
  <2>3. \A m \in Models : file'[m] = file[m] \/ OfSize(m, file'[m])
    BY <1>0, <2>1, <2>2
  <2>4. \A m \in Models : temp'[m] = temp[m] \/ temp'[m] = Absent
    BY <1>0, <2>1
  <2> QED  BY <2>3, <2>4, SizedKept
<1>6. ASSUME NEW i \in Inits, InitializeWhisper(i) PROVE Sized'
  <2>0. UNCHANGED temp
    BY <1>6 DEF InitializeWhisper, Initialize, OpenAsset, WriteAsset, CopyEnds, CopyFails,
       DeleteCorrupted, inits
  <2>1. CASE Initialize(i) \/ CopyEnds(i) \/ CopyFails(i)
    <3>1. UNCHANGED file
      BY <2>1 DEF Initialize, CopyEnds, CopyFails
    <3> QED  BY <2>0, <3>1, SizedKept
  <2>2. CASE DeleteCorrupted(i)
    BY <2>0, <2>2, SizedDeletes, ModelNames DEF DeleteCorrupted
  <2>3. ASSUME NEW n \in Nat, n <= AssetSize, NEW f \in Files, length(f) = n,
               file' = [file EXCEPT !["whisper"] = f]
        PROVE  Sized'
    <3>1. n < MinSize["whisper"] /\ n < Megabyte
      BY <2>3, ModelFilesAssumption, ModelNames DEF ModelFilesAssumption
    <3>2. OfSize("whisper", f)
      BY <2>3, <3>1 DEF OfSize
    <3>3. \A m \in Models : file'[m] = file[m] \/ OfSize(m, file'[m])
      BY <1>0, <2>3, <3>2
    <3> QED  BY <2>0, <3>3, SizedKept
  <2>4. CASE OpenAsset(i)
    <3> DEFINE f == [got |-> 0, of |-> AssetSize]
    <3>1. f \in Files /\ length(f) = 0 /\ 0 <= AssetSize /\ 0 \in Nat
      BY ModelFilesAssumption DEF ModelFilesAssumption, Files, length
    <3>2. file' = [file EXCEPT !["whisper"] = f]
      BY <2>4 DEF OpenAsset
    <3> HIDE DEF f
    <3> QED  BY <2>3, <3>1, <3>2
  <2>5. CASE WriteAsset(i)
    <3>1. PICK n \in whisper.got + 1 .. AssetSize : file' = [file EXCEPT !["whisper"].got = n]
      BY <2>5 DEF WriteAsset
    <3>2. whisper \in Files
      BY <1>0, ModelNames DEF whisper
    <3>3. n \in Nat /\ n <= AssetSize
      BY <3>1, <3>2, ModelFilesAssumption DEF ModelFilesAssumption, Files
    <3> DEFINE f == [whisper EXCEPT !.got = n]
    <3>4. f \in Files /\ length(f) = n
      BY <3>2, <3>3 DEF Files, length
    <3>5. file' = [file EXCEPT !["whisper"] = f]
      BY <3>1 DEF whisper
    <3> HIDE DEF f
    <3> QED  BY <2>3, <3>3, <3>4, <3>5
  <2> QED  BY <1>6, <2>1, <2>2, <2>4, <2>5 DEF InitializeWhisper
<1>7. UNCHANGED <<file, temp>> \/ ~(Launch \/ Skip \/ OnComplete \/ Leave \/ SetupCleared
         \/ StartDownload \/ Begin \/ Check \/ RequestFails \/ SavePath
         \/ NameWhisper \/ ImportLlm \/ ImportEnds \/ SaveLlm \/ ClearLlmModel)
  BY DEF Launch, Skip, OnComplete, Leave, SetupCleared, StartDownload, Begin, Check,
     RequestFails, SavePath, NameWhisper, ImportLlm, ImportEnds, SaveLlm, ClearLlmModel,
     disk, others
<1> QED
  BY <1>1, <1>2, <1>3, <1>4, <1>5, <1>6, <1>7 DEF FilesNext, DownloadModels

LEMMA GoingKept ==
  ASSUME Going, UNCHANGED <<file, at, downloadState>>
  PROVE  Going'
  BY DEF Going, Accepted, AreModelsDownloaded

\* The download ends where it is, in error or because the process dies.
LEMMA GoingEnds ==
  ASSUME FileInv, at' = [at EXCEPT !.step = "idle"], downloadState' # "Completed"
  PROVE  Going'
  BY DEF FileInv, Going

\* A step of a download that changes at most the file it is about.
LEMMA GoesOn ==
  ASSUME FileInv, Going, at.step # "idle", UNCHANGED downloadState,
         \A m \in Models \ {at.model} : file'[m] = file[m],
         NEW s \in Steps \ {"begin", "name"}, at' = [at EXCEPT !.step = s],
         s = "save" => Accepted(at.model) /\ UNCHANGED file
  PROVE  Going'
<1>1. /\ at'.step = s /\ at'.model = at.model /\ downloadState' # "Completed"
  BY DEF FileInv, Going
<1>2. at.model = "llm" => Accepted("whisper")'
  BY ModelNames DEF Going, Accepted
<1>3. s = "save" => Accepted(at.model)'
  BY DEF Accepted
<1> QED
  BY <1>1, <1>2, <1>3 DEF Going, Accepted

LEMMA GoingStep ==
  ASSUME FileInv, Sized, Going, screen # "journal", FilesNext,
         \A i \in Inits : initializing[i] = "idle"
  PROVE  Going'
<1>0. /\ at \in [step : Steps, model : Models] /\ at.model \in Models
      /\ file \in [Models -> Files] /\ temp \in [Models -> Files]
  BY DEF FileInv
<1>1. CASE Launch \/ Skip \/ OnComplete \/ Leave \/ SetupCleared
           \/ NameWhisper \/ ImportLlm \/ ImportEnds \/ SaveLlm \/ ClearLlmModel
  <2>1. UNCHANGED <<file, at, downloadState>>
    BY <1>1 DEF Launch, Skip, OnComplete, Leave, SetupCleared, NameWhisper, ImportLlm,
       ImportEnds, SaveLlm, ClearLlmModel, others, disk
  <2> QED  BY <2>1, GoingKept
<1>2. CASE StartDownload
  <2>1. /\ UNCHANGED downloadState /\ downloadState # "Completed"
        /\ at' = [step |-> "begin", model |-> "whisper"]
    BY <1>2 DEF StartDownload
  <2> QED  BY <2>1 DEF Going
<1>3. CASE Begin
  <2>1. /\ at.step = "begin" /\ at.model = "whisper" /\ downloadState' # "Completed"
        /\ \E s \in {"idle", "name"} : at' = [at EXCEPT !.step = s]
    BY <1>3 DEF Begin, Goto, At, Going
  <2> QED  BY <1>0, <2>1 DEF Going
<1>4. CASE ReadName
  <2>1. at.step = "name" /\ at.model = "whisper"
    BY <1>4 DEF ReadName, At, Going
  <2>2. CASE Fails
    BY <2>2, GoingEnds DEF Fails, Goto
  <2>3. CASE /\ Deletes("whisper") \/ UNCHANGED file
             /\ Goto("check") /\ UNCHANGED downloadState
    <3>1. \A m \in Models \ {at.model} : file'[m] = file[m]
      BY <1>0, <2>1, <2>3 DEF Deletes
    <3> QED  BY <2>1, <2>3, <3>1, GoesOn DEF Goto, Steps
  <2> QED  BY <1>4, <2>2, <2>3 DEF ReadName
<1>5. CASE Check
  <2>1. at.step = "check" /\ UNCHANGED <<file, downloadState>>
    BY <1>5 DEF Check, At, disk
  <2>2. CASE at' = [at EXCEPT !.step = "request"]
    BY <2>1, <2>2, GoesOn DEF Steps
  <2>3. CASE file[at.model] # Absent /\ ~(length(file[at.model]) < MinSize[at.model])
             /\ at' = [at EXCEPT !.step = "save"]
    <3>1. Accepted(at.model)
      BY <1>0, <2>3 DEF Sized, OfSize, Accepted
    <3> QED  BY <2>1, <2>3, <3>1, GoesOn DEF Steps
  <2> QED  BY <1>5, <2>2, <2>3 DEF Check, Goto
<1>6. CASE RequestFails \/ WriteFails
  BY <1>6, GoingEnds DEF RequestFails, WriteFails, Fails, Goto
<1>7. CASE Respond \/ Write \/ DeleteTarget \/ Rename
  <2>1. /\ at.step # "idle" /\ UNCHANGED downloadState
        /\ \E s \in {"write", "rename", "verify"} : at' = [at EXCEPT !.step = s]
    BY <1>0, <1>7 DEF Respond, Write, DeleteTarget, Rename, At, Goto
  <2>2. \A m \in Models \ {at.model} : file'[m] = file[m]
    BY <1>0, <1>7 DEF Respond, Write, DeleteTarget, Rename, Deletes
  <2> QED  BY <2>1, <2>2, GoesOn DEF Steps
<1>8. CASE Verify
  <2>1. CASE Fails
    BY <2>1, GoingEnds DEF Fails, Goto
  <2>2. CASE /\ ~(length(file[at.model]) < Megabyte) /\ Goto("save")
             /\ UNCHANGED <<file, downloadState>>
    <3>1. file[at.model] # Absent
      BY <1>0, <2>2, SizesAreNumbers DEF Absent, length
    <3>2. ~(length(file[at.model]) < MinSize[at.model] /\ length(file[at.model]) < Megabyte)
      BY <2>2
    <3>3. Accepted(at.model)
      BY <1>0, <3>1, <3>2 DEF Sized, OfSize, Accepted
    <3>4. at.step # "idle"
      BY <1>8 DEF Verify, At
    <3> QED  BY <2>2, <3>3, <3>4, GoesOn DEF Goto, Steps
  <2> QED  BY <1>8, <2>1, <2>2 DEF Verify
<1>9. CASE SavePath
  <2>1. at.step = "save" /\ UNCHANGED file /\ Accepted(at.model)
    BY <1>9 DEF SavePath, At, disk, Going
  <2>2. CASE Fails
    BY <2>2, GoingEnds DEF Fails, Goto
  <2>3. CASE /\ at.model = "whisper" /\ at' = [step |-> "check", model |-> "llm"]
             /\ UNCHANGED downloadState
    <3>1. downloadState # "Completed" /\ Accepted("whisper")'
      BY <2>1, <2>3 DEF Going, Accepted
    <3> QED  BY <2>3, <3>1 DEF Going
  <2>4. CASE at.model = "llm" /\ Goto("idle") /\ downloadState' = "Completed"
    <3>1. AreModelsDownloaded
      BY <2>1, <2>4 DEF Going, Accepted, AreModelsDownloaded, Models
    <3>2. at'.step = "idle" /\ AreModelsDownloaded'
      BY <1>0, <2>1, <2>4, <3>1 DEF Goto, AreModelsDownloaded
    <3> QED  BY <3>2 DEF Going
  <2> QED  BY <1>9, <2>2, <2>3, <2>4 DEF SavePath
<1>10. ~ \E i \in Inits : InitializeWhisper(i)
  BY DEF InitializeWhisper, Initialize, OpenAsset, WriteAsset, CopyEnds, CopyFails,
     DeleteCorrupted
<1> QED
  BY <1>1, <1>2, <1>3, <1>4, <1>5, <1>6, <1>7, <1>8, <1>9, <1>10
  DEF FilesNext, DownloadModels

LEMMA InitsRunOnJournal ==
  ASSUME FilesNext, \A i \in Inits : initializing[i] # "idle" => screen = "journal"
  PROVE  /\ screen = "journal" => screen' = "journal"
         /\ \A i \in Inits : initializing'[i] # "idle" => screen' = "journal"
<1>1. CASE \E i \in Inits : InitializeWhisper(i)
  <2>1. PICK i \in Inits : InitializeWhisper(i)
    BY <1>1
  <2>2. UNCHANGED screen
    BY <2>1 DEF InitializeWhisper, Initialize, OpenAsset, WriteAsset, CopyEnds, CopyFails,
       DeleteCorrupted, inits
  <2>3. screen = "journal"
    BY <2>1 DEF InitializeWhisper, Initialize, OpenAsset, WriteAsset, CopyEnds, CopyFails,
       DeleteCorrupted
  <2> QED  BY <2>2, <2>3
<1>2. CASE Launch \/ Skip \/ OnComplete \/ Leave
  <2>1. UNCHANGED initializing /\ screen # "journal"
    BY <1>2 DEF Launch, Skip, OnComplete, Leave, working
  <2> QED  BY <2>1
<1>3. CASE UNCHANGED <<screen, initializing>>
  BY <1>3
<1>4. UNCHANGED <<screen, initializing>> \/ ~(SetupCleared \/ StartDownload \/ DownloadModels
         \/ NameWhisper \/ ImportLlm \/ ImportEnds \/ SaveLlm \/ ClearLlmModel)
  BY DEF SetupCleared, StartDownload, DownloadModels, Begin, ReadName, Check, RequestFails,
     Respond, Write, WriteFails, DeleteTarget, Rename, Verify, SavePath, NameWhisper,
     ImportLlm, ImportEnds, SaveLlm, ClearLlmModel, activity, working, others
<1> QED  BY <1>1, <1>2, <1>3, <1>4 DEF FilesNext

LEMMA SetupStep ==
  ASSUME Served, FileInv, SetupInv, FilesNext
  PROVE  SetupInv'
<1>1. Sized'
  BY SizedStep DEF SetupInv
<1>2. /\ screen = "journal" => screen' = "journal"
      /\ \A i \in Inits : initializing'[i] # "idle" => screen' = "journal"
  BY InitsRunOnJournal DEF SetupInv
<1>3. screen' # "journal" => Going'
  BY <1>2, GoingStep DEF SetupInv
<1> QED  BY <1>1, <1>2, <1>3 DEF SetupInv

\* The setup screen says it is done only of models the next launch accepts,
\* whatever failed before, and whatever copies of the packaged model earlier
\* processes left, if what the server sends is Served.
THEOREM DoneIsAccepted ==
  ASSUME Served
  PROVE  Spec => []CompletedIsAccepted
<1>1. Init => FileInv /\ SetupInv
  BY FilesStart, SetupStart DEF Init
<1>2. FileInv /\ SetupInv /\ [Next]_vars => FileInv' /\ SetupInv'
  <2> SUFFICES ASSUME FileInv, SetupInv, [Next]_vars PROVE SetupInv'
    BY FilesInductive
  <2>1. CASE FilesNext
    BY <2>1, SetupStep
  <2>2. CASE Kill
    <3>1. /\ at' = [at EXCEPT !.step = "idle"] /\ UNCHANGED <<file, temp>>
          /\ downloadState' # "Completed"
      BY <2>2 DEF Kill, FilesLost, disk
    <3>2. initializing' = [i \in Inits |-> "idle"]
      BY <2>2 DEF Kill, FilesLost
    <3>3. \A i \in Inits : initializing'[i] = "idle"
      BY <3>2
    <3> QED  BY <3>1, <3>3, SizedKept, GoingEnds DEF SetupInv
  <2>3. CASE (\E c \in Calls : Caller(c)) \/ Tick \/ UNCHANGED vars
    <3>1. \/ UNCHANGED filesVars
          \/ UNCHANGED <<disk, screen, downloadState, at, cancelled, working>>
      BY <2>3 DEF Caller, Resolve, AvailablePath, Available, StoreEngine, AnthropicAnswers,
         ReadModelPath, Open, Build, CreateOnGpu, CreateOnCpu, Generate, Tick, vars
    <3>2. UNCHANGED <<file, temp, at, downloadState, screen, initializing>>
      BY <3>1 DEF filesVars, disk, working
    <3> QED  BY <3>2, SizedKept, GoingKept DEF SetupInv
  <2> QED  BY <2>1, <2>2, <2>3 DEF Next
<1>3. SetupInv => CompletedIsAccepted
  BY DEF SetupInv, Going, CompletedIsAccepted
<1> QED  BY <1>1, <1>2, <1>3, PTL DEF Spec
-----------------------------------------------------------------------------
(* The cache.                                                              *)

LEMMA IdleIsCall == IdleCall \in CallRecord /\ IdleCall.step = "idle"
  BY DEF IdleCall, CallRecord, CallSteps, Choice, Paths, Nothing

LEMMA CacheStart == Init => CacheInv
<1>1. Nothing \in Choice
  BY DEF Choice, Nothing
<1>2. Init => named = "unset"
  BY DEF Init, FilesInit
<1>3. "unset" \in Paths
  BY DEF Paths
<1> QED  BY <1>1, <1>2, <1>3, IdleIsCall DEF Init, CacheInv, Aged

\* A call moves, and neither the clock nor the router nor the settings do.
LEMMA CallMoves ==
  ASSUME CacheInv, NEW c \in Calls, NEW r \in CallRecord,
         call' = [call EXCEPT ![c] = r],
         UNCHANGED <<clock, cached, lastCheck, named>>,
         inference' \in Paths \cup {"none"},
         r.step \in {"checking", "looking"} => r.now <= clock,
         r.step = "checked" => r.now <= r.choice.foundAt
  PROVE  CacheInv'
  BY DEF CacheInv, Aged

LEMMA CallReturns ==
  ASSUME CacheInv, NEW c \in Calls, Returns(c), UNCHANGED <<clock, cached, lastCheck, named>>,
         inference' \in Paths \cup {"none"}
  PROVE  CacheInv'
  BY IdleIsCall, CallMoves DEF Returns

\* The same for a call past the check, whatever happens in the engine.
LEMMA CallInEngine ==
  ASSUME CacheInv, NEW c \in Calls, NEW s \in CallSteps, NEW p \in Paths, NEW again \in BOOLEAN,
         s \notin {"checking", "looking", "checked"},
         call' = [call EXCEPT ![c] = [call[c] EXCEPT !.step = s, !.path = p, !.again = again]],
         UNCHANGED <<clock, cached, lastCheck, named>>,
         inference' \in Paths \cup {"none"}
  PROVE  CacheInv'
<1> DEFINE r == [call[c] EXCEPT !.step = s, !.path = p, !.again = again]
<1>1. call[c] \in CallRecord /\ call \in [Calls -> CallRecord]
  BY DEF CacheInv
<1>2. r \in CallRecord /\ r.step = s
  BY <1>1 DEF CallRecord
<1>3. call' = [call EXCEPT ![c] = r]
  OBVIOUS
<1> HIDE DEF r
<1> QED  BY <1>2, <1>3, CallMoves

LEMMA EngineMoves ==
  ASSUME CacheInv, NEW c \in Calls, NEW s \in InEngine, call' = [call EXCEPT ![c].step = s],
         UNCHANGED <<clock, cached, lastCheck, named>>,
         inference' \in Paths \cup {"none"}
  PROVE  CacheInv'
<1> DEFINE r == [call[c] EXCEPT !.step = s]
<1>1. call[c] \in CallRecord /\ call \in [Calls -> CallRecord]
  BY DEF CacheInv
<1>2. s \in CallSteps /\ s \notin {"checking", "looking", "checked"}
  BY DEF CallSteps, InEngine
<1>3. r \in CallRecord /\ r.step = s
  BY <1>1, <1>2 DEF CallRecord
<1>4. call' = [call EXCEPT ![c] = r]
  BY <1>1
<1> HIDE DEF r
<1> QED  BY <1>2, <1>3, <1>4, CallMoves

LEMMA NamedIsPath == ASSUME named \in Paths, FilesNext PROVE named' \in Paths
<1>1. ASSUME NEW i \in Inits, InitializeWhisper(i) PROVE UNCHANGED named
  BY <1>1 DEF InitializeWhisper, Initialize, OpenAsset, WriteAsset, CopyEnds, CopyFails,
     DeleteCorrupted, inits
<1>2. UNCHANGED named \/ named' \in {"default", "custom", "unset"}
  BY <1>1 DEF FilesNext, DownloadModels, Launch, Skip, OnComplete, Leave, SetupCleared,
     StartDownload, Begin, ReadName, Check, RequestFails, Respond, Write, WriteFails,
     DeleteTarget, Rename, Verify, SavePath, NameWhisper, ImportLlm, ImportEnds, SaveLlm,
     ClearLlmModel, disk, choice, others
<1> QED  BY <1>2 DEF Paths

LEMMA CacheStep ==
  ASSUME CacheInv, Next
  PROVE  CacheInv'
<1>1. CASE FilesNext /\ UNCHANGED <<clock, router, engine, call>>
  BY <1>1, NamedIsPath DEF CacheInv, router, engine, Aged
<1>2. CASE Tick
  <2>1. named' = named /\ inference' = inference
    BY <1>2 DEF Tick, filesVars, disk, engine
  <2>2. \A c \in Calls : call[c].now \in Int
    BY DEF CacheInv, CallRecord
  <2> QED  BY <1>2, <2>1, <2>2 DEF Tick, CacheInv, router, Aged
<1>3. CASE Kill
  <2>1. Nothing \in Choice
    BY DEF Choice, Nothing
  <2> QED  BY <1>3, <2>1, IdleIsCall DEF Kill, FilesLost, disk, CacheInv, Aged
<1>4. ASSUME NEW c \in Calls, Caller(c) PROVE CacheInv'
  <2>0. /\ call[c] \in CallRecord /\ call \in [Calls -> CallRecord] /\ clock \in Int
        /\ named \in Paths /\ inference \in Paths \cup {"none"} /\ cached \in Choice
    BY DEF CacheInv
  <2>1. CASE Resolve(c)
    <3> DEFINE hit == [IdleCall EXCEPT !.step = "resolved", !.choice = cached]
               miss == [IdleCall EXCEPT !.step = "checking", !.now = clock]
    <3>1. hit \in CallRecord /\ hit.step = "resolved"
      BY <2>0, IdleIsCall DEF CallRecord, CallSteps
    <3>2. miss \in CallRecord /\ miss.step = "checking" /\ miss.now = clock
      BY <2>0, IdleIsCall DEF CallRecord, CallSteps
    <3>3. /\ call' = [call EXCEPT ![c] = hit] \/ call' = [call EXCEPT ![c] = miss]
          /\ UNCHANGED <<clock, cached, lastCheck, named, inference>>
      BY <2>1 DEF Resolve, filesVars, disk, router, engine
    <3> HIDE DEF hit, miss
    <3> QED  BY <2>0, <3>1, <3>2, <3>3, CallMoves
  <2>2. CASE AvailablePath(c)
    <3> DEFINE r == [call[c] EXCEPT !.step = "looking", !.path = named]
    <3>1. r \in CallRecord /\ r.step = "looking" /\ r.now = call[c].now
      BY <2>0 DEF CallRecord, CallSteps
    <3>2. call[c].now <= clock
      BY <2>2 DEF AvailablePath, In, CacheInv
    <3>3. /\ call' = [call EXCEPT ![c] = r]
          /\ UNCHANGED <<clock, cached, lastCheck, named, inference>>
      BY <2>2 DEF AvailablePath, filesVars, disk, router, engine
    <3> HIDE DEF r
    <3> QED  BY <2>0, <3>1, <3>2, <3>3, CallMoves
  <2>3. CASE Available(c)
    <3>0. UNCHANGED <<clock, cached, lastCheck, named, inference>>
      BY <2>3 DEF Available, filesVars, disk, router, engine
    <3>1. call[c].now <= clock
      BY <2>3 DEF Available, In, CacheInv
    <3>2. CASE Returns(c)
      BY <2>0, <3>0, <3>2, CallReturns
    <3>3. ASSUME NEW e \in {"mediaPipe", "anthropic"},
                 call' = [call EXCEPT ![c] = [call[c] EXCEPT !.step = "checked",
                             !.path = "unset", !.choice = [engine |-> e, foundAt |-> clock]]]
          PROVE  CacheInv'
      <4> DEFINE r == [call[c] EXCEPT !.step = "checked", !.path = "unset",
                                      !.choice = [engine |-> e, foundAt |-> clock]]
      <4>1. r \in CallRecord /\ r.step = "checked" /\ r.now = call[c].now
            /\ r.choice.foundAt = clock
        BY <2>0 DEF CallRecord, CallSteps, Choice, Paths
      <4>2. call' = [call EXCEPT ![c] = r]
        BY <3>3
      <4> HIDE DEF r
      <4> QED  BY <2>0, <3>0, <3>1, <4>1, <4>2, CallMoves
    <3>4. Returns(c) \/ \E e \in {"mediaPipe", "anthropic"} :
             call' = [call EXCEPT ![c] = [call[c] EXCEPT !.step = "checked",
                         !.path = "unset", !.choice = [engine |-> e, foundAt |-> clock]]]
      BY <2>3 DEF Available
    <3> QED  BY <3>2, <3>3, <3>4
  <2>4. CASE StoreEngine(c)
    <3> DEFINE r == [call[c] EXCEPT !.step = "resolved", !.now = 0]
    <3>1. r \in CallRecord /\ r.step = "resolved"
      <4>1. "resolved" \in CallSteps /\ 0 \in Int
        BY DEF CallSteps
      <4> QED  BY <2>0, <4>1 DEF CallRecord
    <3>2. /\ call[c].now \in Int /\ call[c].choice \in Choice
          /\ call[c].choice.foundAt \in Int /\ call[c].now <= call[c].choice.foundAt
      BY <2>0, <2>4 DEF StoreEngine, In, CacheInv, CallRecord, Choice
    <3>3. /\ call' = [call EXCEPT ![c] = r] /\ cached' = call[c].choice
          /\ lastCheck' = call[c].now
          /\ UNCHANGED <<clock, named, inference>>
      BY <2>4 DEF StoreEngine, filesVars, disk, engine
    <3> HIDE DEF r
    <3> QED  BY <2>0, <3>1, <3>2, <3>3 DEF CacheInv, Aged
  <2>5. CASE AnthropicAnswers(c)
    BY <2>0, <2>5, CallReturns DEF AnthropicAnswers, filesVars, disk, router, engine
  <2>6. ASSUME PassFails(c), UNCHANGED <<clock, cached, lastCheck, named>>,
               inference' \in Paths \cup {"none"}
        PROVE  CacheInv'
    <3>1. CASE Returns(c)
      BY <2>6, <3>1, CallReturns
    <3>2. CASE ~Returns(c)
      <4>1. call' = [call EXCEPT ![c] = [call[c] EXCEPT !.step = "resolved",
                                             !.path = "unset", !.again = TRUE]]
        BY <2>6, <3>2 DEF PassFails
      <4>2. "resolved" \in CallSteps /\ "unset" \in Paths
        BY DEF CallSteps, Paths
      <4> QED  BY <2>6, <4>1, <4>2, CallInEngine
    <3> QED  BY <3>1, <3>2
  <2>7. ASSUME NEW s \in InEngine, NEW p \in Paths,
               call' = [call EXCEPT ![c] = [call[c] EXCEPT !.step = s, !.path = p]],
               UNCHANGED <<clock, cached, lastCheck, named>>,
               inference' \in Paths \cup {"none"}
        PROVE  CacheInv'
    <3>1. call[c].again \in BOOLEAN
      BY <2>0 DEF CallRecord
    <3>2. [call[c] EXCEPT !.step = s, !.path = p]
             = [call[c] EXCEPT !.step = s, !.path = p, !.again = call[c].again]
      BY <2>0 DEF CallRecord
    <3>3. s \in CallSteps /\ s \notin {"checking", "looking", "checked"}
      BY DEF CallSteps, InEngine
    <3> QED  BY <2>7, <3>1, <3>2, <3>3, CallInEngine
  <2>8. CASE Generate(c)
    BY <2>0, <2>6, <2>8 DEF Generate, filesVars, disk, router, engine
  <2>9. UNCHANGED <<clock, cached, lastCheck, named>> \/ ~(ReadModelPath(c) \/ Open(c)
           \/ Build(c) \/ CreateOnGpu(c) \/ CreateOnCpu(c))
    BY DEF ReadModelPath, Open, Build, CreateOnGpu, CreateOnCpu, filesVars, disk, router
  <2>10. call[c].path \in Paths
    BY <2>0 DEF CallRecord
  <2>11. CASE ReadModelPath(c) \/ Build(c)
    <3>1. \E s \in InEngine :
             call' = [call EXCEPT ![c] = [call[c] EXCEPT !.step = s, !.path = named]]
      BY <2>11 DEF ReadModelPath, Build, InEngine
    <3>2. UNCHANGED inference
      BY <2>11 DEF ReadModelPath, Build, engine
    <3> QED  BY <2>0, <2>7, <2>9, <2>11, <3>1, <3>2
  <2>12. CASE Open(c)
    <3>1. CASE inference # "none" /\ currentModelPath = call[c].path
      <4>1. /\ call' = [call EXCEPT ![c] = [call[c] EXCEPT !.step = "generating",
                                                !.path = inference]]
            /\ UNCHANGED inference
        BY <2>12, <3>1 DEF Open
      <4> QED  BY <2>0, <2>7, <2>9, <2>12, <3>1, <4>1 DEF InEngine
    <3>2. CASE ~(inference # "none" /\ currentModelPath = call[c].path)
      <4>1. /\ call' = [call EXCEPT ![c] = [call[c] EXCEPT !.step = "building",
                                                !.path = "unset"]]
            /\ inference' = "none"
        BY <2>12, <3>2 DEF Open
      <4> QED  BY <2>7, <2>9, <2>12, <4>1 DEF InEngine, Paths
    <3> QED  BY <3>1, <3>2
  <2>13. CASE CreateOnGpu(c)
    <3>1. /\ inference' \in {inference, call[c].path}
          /\ \E s \in InEngine : call' = [call EXCEPT ![c].step = s]
      BY <2>13 DEF CreateOnGpu, Moves, InEngine
    <3> QED  BY <2>0, <2>9, <2>10, <2>13, <3>1, EngineMoves
  <2>14. CASE CreateOnCpu(c)
    <3>1. /\ inference' \in {inference, call[c].path}
          /\ (\E s \in InEngine : call' = [call EXCEPT ![c].step = s]) \/ PassFails(c)
      BY <2>14 DEF CreateOnCpu, Moves, InEngine
    <3> QED  BY <2>0, <2>6, <2>9, <2>10, <2>14, <3>1, EngineMoves
  <2> QED  BY <1>4, <2>1, <2>2, <2>3, <2>4, <2>5, <2>8, <2>11, <2>12, <2>13, <2>14 DEF Caller
<1> QED  BY <1>1, <1>2, <1>3, <1>4 DEF Next

LEMMA OneCallMoves ==
  ASSUME NEW c \in Calls, NEW d \in Calls, Caller(d), c # d, call \in [Calls -> CallRecord]
  PROVE  call'[c] = call[c]
<1> DEFINE Changes == \E r : call' = [call EXCEPT ![d] = r]
<1>1. CASE Resolve(d) \/ AvailablePath(d) \/ StoreEngine(d) \/ ReadModelPath(d) \/ Build(d)
  <2>1. Changes
    BY <1>1 DEF Resolve, AvailablePath, StoreEngine, ReadModelPath, Build
  <2> QED  BY <2>1
<1>2. CASE Available(d) \/ AnthropicAnswers(d)
  <2>1. Changes
    BY <1>2 DEF Available, AnthropicAnswers, Returns
  <2> QED  BY <2>1
<1>3. CASE Open(d) \/ CreateOnGpu(d) \/ CreateOnCpu(d) \/ Generate(d)
  <2>1. Changes
    BY <1>3 DEF Open, CreateOnGpu, CreateOnCpu, Generate, PassFails, Returns, Moves
  <2> QED  BY <2>1
<1> QED  BY <1>1, <1>2, <1>3 DEF Caller

\* An engine taken from the cache was found available less than the time to
\* live ago, however calls and checks cross.
THEOREM CacheServesFresh == Spec => CacheIsFresh
<1> DEFINE Fresh == \A c \in Calls : In(c, "idle") /\ call'[c].step = "resolved" =>
                       clock - call'[c].choice.foundAt < Ttl
<1>1. Init => CacheInv
  BY CacheStart
<1>2. CacheInv /\ [Next]_vars => CacheInv'
  <2>1. CacheInv /\ UNCHANGED vars => CacheInv'
    BY DEF CacheInv, vars, filesVars, disk, router, engine, Aged
  <2> QED  BY <2>1, CacheStep
<1>3. CacheInv /\ [Next]_vars => [Fresh]_vars
  <2> SUFFICES ASSUME CacheInv, Next, NEW c \in Calls,
                      call[c].step = "idle", call'[c].step = "resolved"
               PROVE  clock - call'[c].choice.foundAt < Ttl
    BY DEF In
  <2>0. call \in [Calls -> CallRecord]
    BY DEF CacheInv
  <2>1. \E d \in Calls : Caller(d)
    <3>1. ~(UNCHANGED call) /\ ~Kill
      BY IdleIsCall DEF Kill
    <3> QED  BY <3>1 DEF Next, Tick
  <2>2. Caller(c)
    BY <2>0, <2>1, OneCallMoves
  <2>3. Resolve(c)
    BY <2>2 DEF Caller, AvailablePath, Available, StoreEngine, AnthropicAnswers, ReadModelPath,
       Open, Build, CreateOnGpu, CreateOnCpu, Generate, In
  <2>4. CASE cached # Nothing /\ clock - lastCheck < Ttl
    <3>1. call' = [call EXCEPT ![c] = [IdleCall EXCEPT !.step = "resolved", !.choice = cached]]
      BY <2>3, <2>4 DEF Resolve
    <3>2. call'[c].choice = cached
      BY <2>0, <3>1 DEF IdleCall
    <3>3. cached.foundAt \in Int /\ lastCheck <= cached.foundAt
      BY <2>4 DEF CacheInv, Aged
    <3>4. clock \in Int /\ lastCheck \in Int /\ Ttl \in Int
      BY LlmRoutingAssumption DEF CacheInv, LlmRoutingAssumption
    <3> QED  BY <2>4, <3>2, <3>3, <3>4
  <2>5. CASE ~(cached # Nothing /\ clock - lastCheck < Ttl)
    <3>1. call' = [call EXCEPT ![c] = [IdleCall EXCEPT !.step = "checking", !.now = clock]]
      BY <2>3, <2>5 DEF Resolve
    <3>2. call'[c].step = "checking"
      BY <2>0, <3>1 DEF IdleCall
    <3> QED  BY <3>2
  <2> QED  BY <2>4, <2>5
<1> QED  BY <1>1, <1>2, <1>3, PTL DEF Spec, CacheIsFresh
-----------------------------------------------------------------------------
(* The model in memory.                                                    *)

LEMMA SeenGrows ==
  ASSUME CacheInv, CacheInv', EngineInv,
         seen' = [c \in Calls |-> IF call'[c].step \in InEngine
                                  THEN seen[c] \cup {named'} ELSE {}]
  PROVE  /\ seen' \in [Calls -> SUBSET Paths]
         /\ \A c \in Calls : call'[c].step \in InEngine =>
               seen[c] \subseteq seen'[c] /\ named' \in seen'[c]
<1>1. named' \in Paths
  BY DEF CacheInv
<1> QED  BY <1>1 DEF EngineInv

\* A step outside the engine, or out of it.
LEMMA OutOfEngine ==
  ASSUME CacheInv, CacheInv', EngineInv, NEW c \in Calls,
         seen' = [d \in Calls |-> IF call'[d].step \in InEngine
                                  THEN seen[d] \cup {named'} ELSE {}],
         \A d \in Calls \ {c} : call'[d] = call[d],
         call'[c].step \notin InEngine,
         inference' = inference,
         currentModelPath' = currentModelPath \/ inference = "none"
  PROVE  EngineInv'
<1>1. /\ seen' \in [Calls -> SUBSET Paths]
      /\ \A d \in Calls : call'[d].step \in InEngine =>
            seen[d] \subseteq seen'[d] /\ named' \in seen'[d]
  BY SeenGrows
<1>2. \A d \in Calls : call'[d].step \in InEngine => d # c /\ call'[d] = call[d]
  OBVIOUS
<1>3. inference' # "none" => inference' = currentModelPath'
  BY DEF EngineInv
<1>4. {"building", "gpu", "cpu"} \subseteq InEngine
  BY DEF InEngine
<1>5. ASSUME NEW d \in Calls
      PROVE  /\ call'[d].step \in InEngine \ {"building"} => call'[d].path \in seen'[d]
             /\ call'[d].step \in {"building", "gpu", "cpu"} => inference' = "none"
  BY <1>1, <1>2, <1>4 DEF EngineInv
<1>6. ASSUME NEW d \in Calls, NEW e \in Calls \ {d}, call'[d].step \in InEngine
      PROVE  call'[e].step \notin InEngine
  BY <1>2, <1>6 DEF EngineInv
<1> QED  BY <1>1, <1>3, <1>5, <1>6 DEF EngineInv

\* A step of the one call in the engine.
LEMMA AloneInEngine ==
  ASSUME CacheInv, CacheInv', EngineInv, NEW c \in Calls,
         seen' = [d \in Calls |-> IF call'[d].step \in InEngine
                                  THEN seen[d] \cup {named'} ELSE {}],
         \A d \in Calls \ {c} : call'[d] = call[d] /\ call[d].step \notin InEngine,
         call'[c].step \in InEngine,
         call'[c].step = "building" \/ call'[c].path \in seen[c] \cup {named'},
         inference' # "none" => inference' = currentModelPath',
         call'[c].step \in {"building", "gpu", "cpu"} => inference' = "none"
  PROVE  EngineInv'
<1>1. /\ seen' \in [Calls -> SUBSET Paths]
      /\ \A d \in Calls : call'[d].step \in InEngine =>
            seen[d] \subseteq seen'[d] /\ named' \in seen'[d]
  BY SeenGrows
<1>2. \A d \in Calls \ {c} : call'[d].step \notin InEngine
  OBVIOUS
<1>3. {"building", "gpu", "cpu"} \subseteq InEngine
  BY DEF InEngine
<1>4. call'[c].step # "building" => call'[c].path \in seen'[c]
  BY <1>1
<1>5. \A d \in Calls :
         /\ call'[d].step \in InEngine \ {"building"} => call'[d].path \in seen'[d]
         /\ call'[d].step \in {"building", "gpu", "cpu"} => inference' = "none"
         /\ \A e \in Calls \ {d} : call'[d].step \in InEngine => call'[e].step \notin InEngine
  BY <1>2, <1>3, <1>4
<1> QED  BY <1>1, <1>5 DEF EngineInv

LEMMA EngineStep ==
  ASSUME ~Overlap, CacheInv, CacheInv', EngineInv, Next
  PROVE  EngineInv'
<1>0. /\ seen' = [d \in Calls |-> IF call'[d].step \in InEngine
                                 THEN seen[d] \cup {named'} ELSE {}]
      /\ call \in [Calls -> CallRecord]
  BY DEF Next, CacheInv
<1>1. CASE UNCHANGED <<engine, call>>
  <2>1. /\ seen' \in [Calls -> SUBSET Paths]
        /\ \A c \in Calls : call'[c].step \in InEngine =>
              seen[c] \subseteq seen'[c] /\ named' \in seen'[c]
    BY <1>0, SeenGrows
  <2> QED  BY <1>1, <2>1 DEF EngineInv, engine
<1>2. CASE Kill
  <2>1. /\ seen' \in [Calls -> SUBSET Paths]
    BY <1>0, SeenGrows
  <2>2. \A c \in Calls : call'[c].step = "idle"
    BY <1>2, IdleIsCall DEF Kill
  <2>3. inference' = "none"
    BY <1>2 DEF Kill
  <2> QED  BY <2>1, <2>2, <2>3 DEF EngineInv, InEngine
<1>3. ASSUME NEW c \in Calls, Caller(c) PROVE EngineInv'
  <2>0. \A d \in Calls \ {c} : call'[d] = call[d]
    BY <1>0, <1>3, OneCallMoves
  <2>1. call[c].step \in InEngine => \A d \in Calls \ {c} : call[d].step \notin InEngine
    BY DEF EngineInv
  <2>2. CASE Resolve(c) \/ AvailablePath(c) \/ StoreEngine(c)
    <3>1. call'[c].step \in {"resolved", "checking", "looking"}
      <4>1. CASE Resolve(c)
        BY <1>0, <4>1 DEF Resolve, IdleCall, CallRecord
      <4>2. CASE AvailablePath(c)
        BY <1>0, <4>2 DEF AvailablePath, CallRecord
      <4>3. CASE StoreEngine(c)
        BY <1>0, <4>3 DEF StoreEngine, CallRecord
      <4> QED  BY <2>2, <4>1, <4>2, <4>3
    <3>2. UNCHANGED <<inference, currentModelPath>>
      BY <2>2 DEF Resolve, AvailablePath, StoreEngine, engine
    <3> QED  BY <1>0, <2>0, <3>1, <3>2, OutOfEngine DEF InEngine
  <2>3. CASE Available(c) \/ AnthropicAnswers(c) \/ Generate(c)
    <3>1. call'[c].step \in {"idle", "checked", "resolved"}
      BY <1>0, <2>3 DEF Available, AnthropicAnswers, Generate, PassFails, Returns, IdleCall, CallRecord
    <3>2. UNCHANGED <<inference, currentModelPath>>
      BY <2>3 DEF Available, AnthropicAnswers, Generate, engine
    <3> QED  BY <1>0, <2>0, <3>1, <3>2, OutOfEngine DEF InEngine
  <2>4. CASE ReadModelPath(c)
    <3>1. call'[c].step = "opening" /\ call'[c].path = named' /\ UNCHANGED engine
      BY <1>0, <2>4 DEF ReadModelPath, filesVars, disk, CallRecord
    <3>2. \A d \in Calls \ {c} : call[d].step \notin InEngine
      BY <2>4 DEF ReadModelPath
    <3> QED  BY <1>0, <2>0, <3>1, <3>2, AloneInEngine DEF InEngine, engine, EngineInv
  <2>5. CASE Open(c)
    <3>0. call[c].step = "opening"
      BY <2>5 DEF Open, In
    <3>1. \A d \in Calls \ {c} : call[d].step \notin InEngine
      BY <2>1, <3>0 DEF InEngine
    <3>2. call[c].path \in seen[c]
      BY <3>0 DEF EngineInv, InEngine
    <3>3. CASE inference # "none" /\ currentModelPath = call[c].path
      <4>1. call'[c].step = "generating" /\ call'[c].path = call[c].path
            /\ UNCHANGED <<inference, currentModelPath>>
        BY <1>0, <2>5, <3>3 DEF Open, EngineInv, CallRecord
      <4> QED  BY <1>0, <2>0, <3>1, <3>2, <4>1, AloneInEngine DEF InEngine, EngineInv
    <3>4. CASE ~(inference # "none" /\ currentModelPath = call[c].path)
      <4>1. call'[c].step = "building" /\ inference' = "none"
        BY <1>0, <2>5, <3>4 DEF Open, CallRecord
      <4> QED  BY <1>0, <2>0, <3>1, <4>1, AloneInEngine DEF InEngine
    <3> QED  BY <3>3, <3>4
  <2>6. CASE Build(c)
    <3>0. call[c].step = "building"
      BY <2>6 DEF Build, In
    <3>1. \A d \in Calls \ {c} : call[d].step \notin InEngine
      BY <2>1, <3>0 DEF InEngine
    <3>2. /\ call'[c].step \in {"cpu", "gpu"} /\ call'[c].path = named'
          /\ inference' = "none"
      BY <1>0, <2>6, <3>0 DEF Build, filesVars, disk, engine, EngineInv, CallRecord
    <3> QED  BY <1>0, <2>0, <3>1, <3>2, AloneInEngine DEF InEngine
  <2>7. CASE CreateOnGpu(c) \/ CreateOnCpu(c)
    <3>0. call[c].step \in {"gpu", "cpu"}
      BY <2>7 DEF CreateOnGpu, CreateOnCpu, In
    <3>1. \A d \in Calls \ {c} : call[d].step \notin InEngine
      BY <2>1, <3>0 DEF InEngine
    <3>2. call[c].path \in seen[c] /\ inference = "none"
      BY <3>0 DEF EngineInv, InEngine
    <3>3. CASE Moves(c, "generating") /\ inference' = call[c].path
      <4>1. /\ call'[c].step = "generating" /\ call'[c].path = call[c].path
            /\ currentModelPath' = call[c].path
        BY <1>0, <2>7, <3>3 DEF Moves, CreateOnGpu, CreateOnCpu, CallRecord
      <4> QED  BY <1>0, <2>0, <3>1, <3>2, <3>3, <4>1, AloneInEngine DEF InEngine
    <3>4. CASE Moves(c, "cpu") /\ inference' = inference
      <4>1. call'[c].step = "cpu" /\ call'[c].path = call[c].path
        BY <1>0, <3>4 DEF Moves, CallRecord
      <4> QED  BY <1>0, <2>0, <3>1, <3>2, <3>4, <4>1, AloneInEngine DEF InEngine
    <3>5. CASE PassFails(c) /\ inference' = inference
      <4>1. call'[c].step \in {"idle", "resolved"}
        BY <1>0, <3>5 DEF PassFails, Returns, IdleCall, CallRecord
      <4> QED  BY <1>0, <2>0, <3>2, <3>5, <4>1, OutOfEngine DEF InEngine
    <3> QED  BY <2>7, <3>3, <3>4, <3>5 DEF CreateOnGpu, CreateOnCpu
  <2> QED  BY <1>3, <2>2, <2>3, <2>4, <2>5, <2>6, <2>7 DEF Caller
<1> QED  BY <1>1, <1>2, <1>3 DEF Next, Tick

\* As long as calls take turns in MediaPipeEngine, no answer comes from a model
\* the settings did not name during the call.
THEOREM NamedAnswers ==
  ASSUME ~Overlap
  PROVE  Spec => []NamedModelAnswers
<1>1. Init => CacheInv /\ EngineInv
  <2>1. Init => EngineInv
    BY IdleIsCall DEF Init, EngineInv, InEngine
  <2> QED  BY <2>1, CacheStart
<1>2. CacheInv /\ EngineInv /\ [Next]_vars => CacheInv' /\ EngineInv'
  <2>1. CacheInv /\ EngineInv /\ UNCHANGED vars => CacheInv' /\ EngineInv'
    BY DEF CacheInv, EngineInv, vars, filesVars, disk, router, engine, Aged
  <2> QED  BY <2>1, CacheStep, EngineStep
<1>3. EngineInv => NamedModelAnswers
  BY DEF EngineInv, NamedModelAnswers, In, InEngine
<1> QED  BY <1>1, <1>2, <1>3, PTL DEF Spec
=============================================================================
