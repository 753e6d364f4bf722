# VoiceJournal: TLA+ models, checks and proofs

VoiceJournal is an Android app (Kotlin, coroutines, Compose, Hilt, Room) that records voice
notes, transcribes them on the device with whisper.cpp and has a language model summarise them.
The repository holds the app and a copy of whisper.cpp with ggml. The modules here model the
parts in which order matters: in the app, the recording screens, the speech engine they share,
the model files and the choice of a language model; in whisper.cpp and ggml, the decoding loop
with its KV cache, the thread pool and the graph allocator. TLC checks them on small instances;
TLAPS proves the main safety properties for all values of the constants.

Paths of the app are relative to `src/app/src/main/java/com/`; `VJ` is `carmind/voicejournal`.
Paths of the C and C++ code are relative to `src/whisper-cpp/`.

## 1. Inventory

| Component | State | Operations | Talks to |
|---|---|---|---|
| Recording screens: `VJ/features/recording/RecordingViewModel.kt`, buttons in `VJ/features/journal/JournalScreen.kt` and `VJ/features/communication/CommunicationScreen.kt` | status, final transcript, transcript buffer, current audio file, duration job | start, stop, manual entry, edit, analyse, discard, clear | calls the engine, the LLM router, the repository, the service; collects the engine's events and the settings |
| Speech engine, recording path: `VJ/core/stt/WhisperSttEngine.kt` 122-309 | `audioRecord`, a coroutine per recording, WAV files, a `SharedFlow` of events | `startListening`, `stopListening`, the read loop, `transcribeFile` | microphone, files, every live view model |
| Speech engine, models: same file 42-120 | `whisperContext`, `isInitialized`, current path and timestamp; `whisper_model.bin` | `initialize()`, which also copies the packaged model and deletes a short file | settings, files, `WhisperContext` |
| `whispercpp/whisper/WhisperContext.kt`, `src/app/src/main/cpp/jni.c` | `ptr`, one single-threaded executor per context | create, transcribe, release, finalize | whisper.cpp |
| Decoding: `src/whisper.cpp`, `whisper_full_with_state` and `whisper_kv_cache_*` | window, prompt history, hypotheses, cells of the cache | encode a window, sample, update, rank, write segments | ggml graphs |
| Thread pool: `ggml/src/ggml-cpu/ggml-cpu.c` | graph number, barrier counters, chunk counter, flags, condition variable | compute a graph, pause, resume, free | its workers |
| Graph allocator: `ggml/src/ggml-alloc.c` | free blocks per chunk, counters per tensor, the plan, the buffer | plan, check the plan, place tensors | the graphs that are computed |
| Foreground service: `VJ/core/stt/service/TranscriptionService.kt` | in the foreground or not | `start`, `stop` | view models |
| Settings: `VJ/core/settings/SettingsRepository.kt`, `VJ/features/settings/` | model paths, names, timestamp; imported files; a status line | save, import, reset | flows the view models combine |
| Model downloads: `VJ/core/setup/ModelManager.kt`, `VJ/features/setup/`, `VJ/MainActivity.kt` | files, temporary files, download state | download, check, skip | settings |
| LLM: `VJ/core/llm/` | cached engine and when it was checked; inference and its path | resolve, analyse, complete | settings, model files, repository |
| Journal store, memory, summaries: `VJ/core/journal/`, `VJ/core/summary/`, `VJ/features/summaries/` | entries, profile, summaries | save, delete, update the profile, summarise | LLM |
| Journal list, sync, insights, coach: the other `VJ/features/` | filters, answers of the LLM | filter, sync, ask | LLM, store |
| Wake word, theme, injection, application class | none | none | |

Interaction. All view-model methods and event collectors run on the main thread, one at a time,
but they suspend: whatever is read after a suspension may have changed. Each recording has a
coroutine on `Dispatchers.IO`, which outlives Stop, Discard and the next Start. `initialize()`
runs on IO threads without a lock, once per settings emission and once per new view model. Every
`WhisperContext` runs its work on one thread of its own. The engine is a singleton, its events
go to *every* live view model, and the Journal's view model stays alive beneath the
Communication screen. Inside a transcription, whisper.cpp builds one ggml graph after another;
each is placed in memory by the graph allocator and computed by a thread pool.

What is hard here: the interleavings of those coroutines; fields (`currentAudioFile`,
`audioRecord`, `whisperContext`) read after a suspension; late outcomes of discarded recordings;
failures that emit no event; native memory freed while it is used; a kill in the middle of a
download or a copy; a cached choice that has expired; threads that are still in an old barrier or graph;
memory that tensors share; cache cells that hypotheses share; a window that does not move. The
list, line by line, is `hazards` in `PROJECT.json`. The app has no tests.

What makes each component correct:
- screens: the text shown and saved is that of the recording just made; saved audio stays; the
  microphone is open exactly while a screen shows it; every wait ends;
- engine and service: one outcome per recording; the service covers a transcription and ends;
- models: no use after free, one thread per context, the current model in memory and only that;
- decoding: a hypothesis attends to its own tokens, a usable one is written, windows move on;
- thread pool: work is done once, after what it needs; nobody sleeps through a graph;
- graph allocator: no tensor is written over while it is still read;
- model files: one that is long enough to be loaded is complete, whenever the process dies;
- LLM: the model that answers is the one the settings name, an expired choice is not used;
- store: no update of the profile is lost, no summary older than the one it replaces;
- other screens: an answer shown answers the question shown.

## 2. Modules

| Module | Models |
|---|---|
| `Recording` | screens, recording path of the engine, events, service, entries |
| `Dictation` | what a recording screen promises, with no engine, event or service in it |
| `MCRecording` | `Recording` with the refinement mapping to `Dictation` |
| `WhisperEngine` | `initialize()`, the contexts' executors, the transcriptions that use them |
| `NativeContext` | the contract of a whisper.cpp context |
| `MCWhisperEngine` | `WhisperEngine` with the symmetry of its calls and of its jobs |
| `KvCache` | the operations of `whisper_kv_cache`, as operators |
| `Decoding`, `MCDecoding` | `whisper_full_with_state`; its requests for TLC |
| `Barrier` | `ggml_barrier` and what it asks of its callers |
| `Threadpool` | the thread pool around that barrier |
| `GraphCompute`, `MCThreadpool` | what a caller sees of the pool; the mapping to it, and graphs for TLC |
| `DynAllocator` | `ggml_dyn_tallocr` and what it asks of its callers |
| `GraphAllocator`, `MCGraphAllocator` | `ggml_gallocr` above it, and the run of the planned graph; all small graphs |
| `ModelFiles` | the model files: the download, the packaged model that `initialize()` copies, the imports |
| `LlmRouting`, `MCLlmRouting` | router and on-device engine over those files; the server for TLC |
| `*_proof` | theorems and proofs |

Composition. `Threadpool` extends `Barrier` and its steps are steps of it (`KeepsBarrier`);
`GraphAllocator` extends `DynAllocator` likewise (`KeepsAllocator`); `Decoding` uses `KvCache`;
`LlmRouting` extends `ModelFiles`, whose steps interleave with the calls. `WhisperEngine`
implements `NativeContext`, `MCRecording` implements `Dictation`, `MCThreadpool` implements
`GraphCompute`. A contract such as `Barrier` is a specification of its own: its variables, the
actions of the code in it, and as guards of the callers' actions what the code relies on.

### Recording

A *session* is one call of `startRecording` that passes its guard; it names the audio file (the
name is a fresh timestamp), the `AudioRecord` and the coroutine of that call. A *text* is the
set of sessions whose microphone it was spoken into, plus `Typed`: enough to say whose words an
entry holds, and nothing about words. Per view model the module keeps the fields of
`RecordingViewModel`, a queue of events its collector has yet to handle, and three counts for
the watcher of the settings: emissions to collect, calls of `initialize()` that run, and results
not yet seen on the main thread. `step`, `heard`, `file` and `owner` belong to the coroutine of
a session. An action is a method, a handler, or the stretch of a coroutine between two points
where other threads can see or change what it uses; its name is the source's name where there is
one.

Details that matter and are kept: Stop leaves the coroutine to finish by itself; the read loop
reads the *field* `audioRecord`; `updateWavHeader` opens the file "rw" and so recreates a
deleted one; `startManualEntry` keeps `currentAudioFile`; the analysis reads it only after the
LLM answered; `tryEmit` on the main thread resumes a waiting collector at once, before
`startRecording` returns; an `AudioRecord` that fails to record stays in its field; a cleared
view model's scope is cancelled before `onCleared`, whose `release()` never runs; its running
`initialize()` ends in `catch (Throwable)` and resets `isInitialized`; the two flows the watcher
combines may give one or two emissions for an edit.

`Env` selects what the environment may do (typing, an impatient Discard, faults of the
microphone, the disk, the initialisation, Whisper, the LLM), so that a run says under which
circumstances its properties hold. The theorems hold for every `Env`.

### WhisperEngine

A call of `initialize()` creates at most one context, so contexts are named after calls. A call
is cut at its suspension points and at each write another call can see. `queue[x]` is what the
executor of context `x` has to do, `thread[x]` the transcription its thread is in. `release()`
and `transcribeData` switch to the executor's scope, which has a job of its own: cancelling the
caller does not take the task from the queue, the caller only learns of it when the task is
done. `usable` says which model files are there and large enough. A custom file that is not
usable is reset in the settings by `initialize()` itself.

### Decoding and KvCache

One step is one piece of the loop between two decodings: the head of a window, the prompt,
sampling, the update of the decoders with the decoding of their next tokens, the ranking, the
output. Numbers are dropped: a probability decides only which of the tokens the filters leave is
sampled, which hypothesis ranks first, and whether the temperature rises, so each of these is a
choice. Beam search keeps its order: candidates are sorted by probability, equal hypotheses get
equal probabilities and lie together, and each decoder takes the next one in turn. A cell of the
cache records, instead of keys and values, the tokens before it: what a decoder attends to can
then be compared with its own hypothesis. Frames, tokens and context are scaled down together;
the constants are named after the numbers of the code they stand for.

### Barrier, Threadpool, GraphCompute

An action is one atomic access, one critical section, or a stretch that touches nothing shared.
The number of active threads and the number of the graph are the two halves of `n_graph`, and
written in one step, as in the code. `done` is a history variable: the bag of the pieces of work
done, a share of a node, a conversion or a chunk, each per thread or per chunk. Accesses are
taken to be sequentially consistent, which the code's fences are there to ensure. The pool is
built without OpenMP, as in the app's build. The app itself lets ggml create a pool per
graph, which is the case of one graph followed by `Free`.

### DynAllocator, GraphAllocator

`DynAllocator` has the free blocks of each chunk as the code keeps them; `owned` is the history
of who has what. `GraphAllocator` steps through a graph as `ggml_gallocr_alloc_graph_impl` does
(leafs, then counting, then each node: its sources, itself, the release of its sources), keeps
the plan, decides with `needs_realloc` whether it serves the next graph, and then runs the
graph: a node that is written removes from `holds` every tensor whose place it overlaps. Equal
unpadded sizes stand for equal layouts.

### ModelFiles, LlmRouting

A file is how much it holds of which body, so that an error page, a partial file and a model are
told apart. Each suspension and each file operation is a step, and `Kill` may come between any
two; a deletion or a renaming may fail, and nobody asks. `whisper_model.bin` has two writers. The
download renames a complete temporary file. `initialize()` of the speech engine, on the Journal,
copies the packaged model in place if no file is there, byte by byte and possibly twice at once,
and deletes a file shorter than `MinLoadable` (1,000,000) unless it is empty; what else it does
is in `WhisperEngine`. Its early returns are choices (`LooksAt`), as they depend on fields of the
engine. `SetupCleared` is the end of the setup screen's scope, which comes a transition after the
Journal is up. `Event` is the one budget of launches, presses, imports and calls: a bound of the
check, not of the code.

`LlmRouting` lets callers run the steps of `resolve`, `isAvailable`, `analyzeEntry` and
`buildInference` beside them. `Overlap` says whether two calls may be inside `MediaPipeEngine`
at once: nothing in the code prevents it. `foundAt` and `seen` are history variables.

## 3. Runs

Deadlock is checked in `MCThreadpool_graphs`, `MCGraphAllocator_plans` and
`DynAllocator_regions`, where the only end is the declared one. The other runs do not check it:
a screen may end in ERROR with no button to press, decoding ends, and every run has bounds.

| Run | Question | Instance |
|---|---|---|
| `MCRecording_journal` | Does the Journal alone keep microphone and entries consistent, and implement `Dictation`? | 3 recordings, 3 analyses; typing, failing initialisation, transcription and LLM |
| `Recording_voice` | Is saved audio kept, the transcription covered by the service, no outcome late? | 3 recordings, 3 analyses; all faults; no typing, no impatient Discard |
| `Recording_screens` | Do two screens that share the engine give each recording at most one outcome, and does PROCESSING end? | 2 recordings, 1 visit; impatient Discard, failing microphone and transcription |
| `Recording_settings` | Does the service end, with the engine re-initialised meanwhile? | 2 recordings, 1 analysis, 1 edit; impatient Discard, failing microphone, initialisation and transcription; a user who ends every recording |
| `MCWhisperEngine_contract` | Is whisper.cpp's contract implemented, is freed memory ever used, does everyone get an answer? | 2 overlapping, cancellable calls, 2 transcriptions, 1 edit |
| `MCWhisperEngine_serial` | With calls one at a time, is the model in memory the current one, and the only one? | 4 calls, cancellable, 1 transcription, 2 edits |
| `MCThreadpool_graphs` | Is each piece of work done once and in order, does each graph return and the pool end? | 3 threads, 2 graphs out of 3 shapes; abort, pause, spurious wakeups |
| `MCGraphAllocator_plans` | Does sharing memory destroy what is still read, is a kept plan safe? | every graph of 4 tensors of some shapes, 2 calls, 2 batch sizes, 2 chunks |
| `DynAllocator_regions` | Does the allocator hand out memory once and lose none? | 5 tensors, 2 sizes, 2 chunks, every order of calls |
| `MCDecoding_windows` | Does each decoder attend to its own tokens, is the cache large enough, do windows move on? | 5 requests, 2 decoders, 2 words, windows of 4 frames, a context of 14 tokens |
| `MCLlmRouting_models` | Is a file that can be loaded whole, is setup honest, is the model that answers the named one? | 5 events: launches, downloads, imports, initialisations, LLM calls; kills, 2 callers, 1 initialisation at a time, 1 tick |

One run ends in a violation, which contradicts a comment in the code:

| Run | What the code does |
|---|---|
| `Recording_saved_audio` | record, save, start a manual entry, discard it: the audio of the *saved* entry is deleted |

Where the properties stop holding. The restriction of a run to some of `Env`, one screen or no
edit is part of its answer. With one screen and a single addition to voice-only use:

| Addition | Properties the code then breaks |
|---|---|
| typing | `SavedAudioSurvives` |
| impatient Discard | `MicOnlyWhileRecording`, `ServiceWhileProcessing`, `SavedAudioSurvives`, `EntryIsItsRecording`, `OutcomesAreCurrent`: the discarded coroutine's outcome comes late |
| failing microphone | `MicOnlyWhileRecording` |
| failing disk | `ServiceStops` and `ProcessingEnds`: the coroutine ends without an event |
| a settings edit | as impatient Discard: the READY of the second initialisation overwrites RECORDING |
| the Communication screen | all of these, with `ServiceStops` (leaving after Stop leaves the service); the Journal beneath shows the outcome of a recording made there |

`ServiceStops` says that a service that is up is stopped later if the microphone is closed again
and again. It needs the condition even for a recording that was stopped: after a settings edit
the READY of the second initialisation can overwrite PROCESSING, the next recording then starts
before the loop of the first has looked at `audioRecord`, and that loop reads the new microphone
for as long as it is open. The service the first recording started stays up meanwhile.

`OneOutcomePerRecording` holds under all these additions, and is proved. On the engine's side
`ReadyAtRest`, `CurrentAtRest` and `OldReleasedAtRest` need calls that do not overlap, which
nothing in the code ensures: two that do overlap both create a context, one of them without a
reference. Cancelled calls do no harm. `NoUseAfterFree` needs nothing, and is proved. `NamedModelAnswers` needs calls that
take turns in `MediaPipeEngine`: with `Overlap` one uses the inference another closed.
`ContentsIntact`, `WritesInPlace` and `InsideBuffer` need one topology. The header promises "automatic reallocation if the topology
changes when using a single buffer" (`ggml/include/ggml-alloc.h` 70), but `needs_realloc`
compares the numbers of nodes and leafs and the sizes at each position, not who reads whom: with
`Retopology` a graph of the same length and sizes runs on the old plan and finds a source
overwritten, or a leaf without the place it needs (only `assert` looks, lines 984 and 985).

Facts of the code that no property states:
- A kill during `initialize()`'s copy of the packaged model leaves a part of it in
  `whisper_model.bin`. That a part is never loaded, and deleted at the next `initialize()`, is due
  to the length of the packaged file alone: with 586,836 bytes even all of it is shorter than
  the 1,000,000 that are loaded. So every copy ends in an error, too, and with a packaged model
  long enough a part would be loaded (`AssetSize < MinLoadable` is a hypothesis of the theorem).
- If the kill leaves the copy empty, `initialize()` refuses the file each time but neither deletes
  nor replaces it. Only a download does.
- A kill after the download of the LLM and before `saveLlmModelPath` leaves the settings without
  a path, although the next launch skips setup; without a path the engine looks for
  `llm/model.bin`, which nothing writes. "Reset to default LLM model" leads to the same path.
- A download skips a file of exactly the minimal size, which the launch then refuses.
- A failed import truncates or deletes `llm_custom.bin` while the settings may still name it; an
  import over a loaded model of the same path does not reload it; `useCpuOnly` is never reset.
- `best_decoder_id` may be one of an earlier temperature when every decoder of the last one
  failed: `BestUsable` says when, and says no more. The check that a timestamp does not go back
  is unreachable, since the filters exclude such a token.
- In `ggml-alloc.c` the branch for a parent that is a view is not reached, since a view is
  never the allocator's own. An output that is a view does not protect the tensor below it
  from being freed; the graphs checked flag no view as an output.

Bounds. Recording: a late outcome needs two recordings and a third to be mistaken twice; an
entry that links to the wrong audio needs two recordings and one analysis; two screens are all
there are. Engine: a call of `initialize()` interferes with one other, and a third meets what
the two left behind; the initial settings are arbitrary. Thread pool: three threads are the
least with a last arrival, a spinning thread and one still leaving; two graphs are the least in
which a worker meets the wrong one; the shapes are a fused pair with an empty node, a product
with too few chunks and one with many. Graph allocator: three nodes and an input are the least
in which a reused tensor has a second reader after the reuse; sizes 1 to 3 with an alignment of
2 give padding, equal padded sizes and left-over blocks; `MaxChunkSize` makes a second chunk.
Dynamic allocator: three adjacent regions and their neighbours make every case of merging.
Decoding: two decoders exchange their sequences, five tokens per window reach the end of the
text context (`TextCtx` 14), and audio of 4 or 6 frames gives several windows, short last ones
included. LLM: two callers, one clock tick and a time to live of 1 make the check cross the
expiry. Model files: five events are the least for a launch, a download, an initialisation on
the Journal, and a launch and a download after a kill; a packaged model of two writes has a part
and an empty file. `MaxFreeBlocks` (256 in the code, which aborts beyond) is 3 in
`DynAllocator_regions` and 5 in `MCGraphAllocator_plans`, more than the instances can reach: the
runs do not end there. The theorems hold for any bound.

Fairness. `Recording!Fairness` says that collectors, coroutines and analyses that can run do
run, which the dispatchers guarantee, and that the microphone read, the native transcription and
the LLM call return. The faults of the microphone and the disk (`ReadFails`, `WriteFails`) are
steps of a coroutine but not of its fair part (`Runs`): they may happen, and need not. The read
loop may go on reading while the microphone is open; closing it needs a user action, which no
fairness obliges. `ServiceStops` names it as its condition.

`WhisperEngine!Fairness` says the same of the calls and the executors; nothing is assumed of the finalizer. `Threadpool!Fairness` says that a
thread that can run does run, and that the main thread finishes the call it is in; that there is
another graph, a pause or a free is nobody's obligation, nor is a spurious wakeup.
`Decoding`, `DynAllocator`, `GraphAllocator` and `LlmRouting` are sequential or driven by their
callers and have no liveness property; that decoding ends follows from `WindowsMoveOn`, the
finite list of temperatures and the bound on tokens.

## 4. Theorems

| Theorem | Statement | For |
|---|---|---|
| `Recording_proof!TypeCorrect` | `Spec => []TypeOK` | all bounds, all `Env` |
| `Recording_proof!OneOutcome` | `Spec => []OneOutcomePerRecording` | the same |
| `Recording_proof!ServiceStaysUp` | `OneScreen /\ Spec => []ServiceWhileProcessing` | any number of recordings and analyses, all faults |
| `Recording_proof!NoLateOutcome` | `OneScreen /\ Spec => []OutcomesAreCurrent` | the same |
| `Recording_proof!EntriesLinkRight` | `OneScreen /\ Spec => []EntryIsItsRecording` | the same |
| `Recording_proof!MicClosedAtRest` | `OneScreen /\ Spec => []MicOnlyWhileRecording` | the same, `"micFault" \notin Env` |
| `Recording_proof!SavedAudioStays` | `OneScreen /\ Spec => []SavedAudioSurvives` | the same, `"manual" \notin Env` |
| `Recording_proof!JournalIsDictation` | `OneScreen /\ Spec => D!Spec` | the same, `"micFault" \notin Env` |
| `WhisperEngine_proof!TypeCorrect` | `Spec => []TypeOK` | any `Calls`, `Jobs`, `MaxEdits` |
| `WhisperEngine_proof!NeverUsedAfterFree` | `Spec => []NoUseAfterFree` | the same |
| `WhisperEngine_proof!OneThread` | `Spec => []OneThreadPerContext` | the same |
| `WhisperEngine_proof!ContractKept` | `Spec => KeepsContract` | the same |
| `WhisperEngine_proof!ReadyWhenSerial` | `Spec => []ReadyAtRest` | the same, `~Overlap` |
| `WhisperEngine_proof!CurrentWhenSerial` | `Spec => []CurrentAtRest` | the same, `~Overlap` |
| `WhisperEngine_proof!OldReleasedWhenSerial` | `Spec => []OldReleasedAtRest` | the same, `~Overlap` |
| `Barrier_proof!NobodyPasses` | `BarrierSpec => []NobodyPassesEarly` | any `MaxThreads` |
| `Threadpool_proof!PoolKeepsBarrier` | `Spec => KeepsBarrier` | any threads and graphs |
| `Threadpool_proof!PoolPassesTogether` | `Spec => []NobodyPassesEarly` | the same |
| `Threadpool_proof!PiecesOnce` | `Spec => []EachPieceOnce` | the same |
| `Threadpool_proof!SourcesAreReady` | `Spec => []SourcesReady` | the same |
| `Threadpool_proof!GraphsEndWhole` | `Spec => []NothingHalfDone` | the same |
| `Threadpool_proof!OnlyActiveCompute` | a thread in a graph is one the kickoff chose | the same |
| `Threadpool_proof!PoolComputesGraphs` | `Spec => GC!Init /\ [][GC!Next]_(GC!gcVars)` | the same |
| `DynAllocator_proof!NobodyShares` | `DynSpec => []NoOverlap` | any tensors, sizes, alignment, chunks |
| `DynAllocator_proof!NothingIsLost` | `DynSpec => []Accounted` | the same |
| `DynAllocator_proof!NeighboursAreJoined` | `DynSpec => []Coalesced` | the same |
| `GraphAllocator_proof!PlansKeepAllocator` | `Spec => KeepsAllocator` | any well-formed graphs |
| `GraphAllocator_proof!PlannedApart` | `Spec => []NoOverlap` | the same |
| `GraphAllocator_proof!PlanGivesBack` | `Spec => []NothingLeaks` | the same, `InputsAreLeafs` |
| `GraphAllocator_proof!NothingOverwritten` | `Spec => []ContentsIntact` | the same, `LeafsAreRead`, `~Retopology` |
| `GraphAllocator_proof!OnlyInPlace` | `Spec => []WritesInPlace` | the same |
| `GraphAllocator_proof!FitsBuffer` | `Spec => []InsideBuffer` | the same |
| `Decoding_proof!TextStaysInContext` | `Spec => []TextFits` | any model and requests |
| `Decoding_proof!WritesTheUsable` | `Spec => []BestUsable` | the same |
| `Decoding_proof!MovesOn` | `Spec => WindowsMoveOn` | the same |
| `Decoding_proof!FindsASlot` | `Spec => []SlotsFound` | the same, any number of decoders |
| `Decoding_proof!SeesItsOwnContext` | `Spec => []OwnContextOnce` | the same |
| `LlmRouting_proof!LoadableIsWhole` | `Spec => []TargetsWhole` | any bodies, sizes and bounds, overlapping initialisations |
| `LlmRouting_proof!DoneIsAccepted` | `Spec => []CompletedIsAccepted` | the same, bodies that are `Served` |
| `LlmRouting_proof!CacheServesFresh` | `Spec => CacheIsFresh` | any time to live, overlapping calls too |
| `LlmRouting_proof!NamedAnswers` | `Spec => []NamedModelAnswers` | `~Overlap`, any number of callers |

Assumptions: the named ASSUMEs on the constants. Bounds are natural numbers, `Env` is made of
known kinds, `None` is no call and no job, there is a thread, sizes are positive and fit the
endless last chunk, graphs are well-formed (sources come before their nodes, leafs compute
nothing, a view refers to a tensor that is none), the packaged model is shorter than what
`initialize()` loads and that no longer than `WHISPER_MIN_SIZE` or a megabyte, the text context is
even and longer than 9, and a carried prompt fits its room. TLC evaluates them in the runs.
The last excludes a request that asks for a context of one token and carries a prompt.

Hypotheses of single theorems. Without the first three the properties are false, as section 3
says. `~Retopology` lets the size of the batch change from one graph to the next, and nothing
else. `OneScreen` is no visit to the Communication screen, no edit of the settings and no
impatient Discard. `~Overlap` lets calls take turns. `Served` is that every body a server sends
for a model is longer than the minimal length, or is an error page shorter than that and than a
megabyte: the code tells the two apart by length alone. `InputsAreLeafs` and `LeafsAreRead` are
about graphs: `ggml_set_input` is only called on new tensors (`src/whisper.cpp` 1999, 2023, 2500
to 2510, 4627), and `ggml_build_forward_expand` collects a graph from its results back, so that a leaf
is in it because a node reads it. An input that is computed would be allocated while the readers
of its sources are still being counted; a leaf that nobody reads is not compared by
`needs_realloc`. TLC evaluates both for the graphs it checks (`SmallGraphsAssumption`).

`Recording`. `TypeOK` is not inductive: cancelling the duration job subtracts one from the count
of tickers, and nothing in `TypeOK` says it was counted. `OneOutcomePerRecording` is not
inductive either: an event of a session could already be queued when the session starts. The
invariant adds `TickerInv` (a duration job that runs is counted) and `UnusedInv` (a session
beyond `started` is unused, hence not "done", hence without a queued event). An outcome is
emitted together with the move of its session to "done", from which no step leads away, and the
sessions of queued events are "done": so the new event is no duplicate.

With one screen the invariant is `OneScreenInv`: the status says what runs beside it. In
RECORDING and PROCESSING (`Taking`) only the coroutine of the current recording can be under way,
it has heard only its own microphone, `audioRecord` is its own, and once it is through the
outcome in the inbox is its outcome; while it is processed the service is up. In the second half
of PROCESSING (`Waiting`) one analysis runs, of the text shown and for the current file.
Otherwise no coroutine runs and no event waits. `JournalIsDictation` maps every step of that
system to a step of `Dictation` or to none: coroutine, events and service disappear.

`WhisperEngine`. The invariant relates three places that know of a transcription: the queue of a
context, its thread, and the job's own step and context. Each job is in at most one of them, and
a thread that is in a transcription is inside a live context. Only the executor's own thread
frees, and only when it is in no transcription; the finalizer needs an empty queue and an idle
thread. From the invariant follow both safety properties, and that each step is a step of
`NativeContext` or leaves `ptr` and `thread` alone.

If calls do not overlap, `SerialInv` says more: the only context in memory is the one in the field
or one about to be published, and a release is queued only for the former; an initialised engine
that no call is replacing holds a live context made from the model its fields name; with no
emission due, what the running call has read is what the settings say now.

`Barrier`. What `n_barrier` counts changes with the phase: it is the number of waiting threads
until the last one arrives, that plus one until it is reset, zero until the release. A thread
waits only if it spins *and* has read the present `n_barrier_passed`; one that spins with an
older number may leave at any time and is counted nowhere. `InsideInv` and `CountInv` say this;
the step that needs them is `Arrive`, where a count of `n_threads - 1` makes the set of waiting
threads, by its cardinality, all the others.

`Threadpool`. The barriers cut the computation of a graph into segments. All active threads are
in one segment or have arrived at the barrier that ends it, and what has been done follows from
the segment and each thread's place in it. A segment "walk" goes over empty nodes to one node
and does each thread's share of it, or of a product's conversion; a segment "product" does the
chunks: one is not done exactly if the counter has not reached it or a thread is about to do it,
and no two threads are about to do the same. Each thread begins with its own number without
asking, which is safe because the counter starts at the number of threads: it is set before the
barrier that opens the segment. The barrier's invariant (`BInv`) says that when the last thread
arrives all are there, so that a segment ends whole, and `NothingHalfDone`, after an abort too, is
what the last one leaves. `PoolComputesGraphs` counts the nodes that are whole: one more when the
last share or the last chunk is done. The next node that computes anything is found with the
well-foundedness of the strict subsets of a finite set.

`DynAllocator`. `NoOverlap` needs that free blocks are apart from each other and from all owned
regions, and sorted, and that regions lie in existing chunks. The lemmas follow the code: taking
from a block, each case of merging, inserting, giving back a whole region or its tail. None of
them needs to know which block is the best. `Accounted` is about cardinalities; what is inductive
is `TileInv`, about places: blocks are sorted with a gap between any two, and blocks and regions
together are all bytes of the chunk below a cap, which is no lower than its high-water mark. Each
helper then says which places it adds or takes. `GraphAllocator` then needs only that its position
in the graph is a valid one (`InPlan`): each of its steps is a step of `DynAllocator` or leaves
`chunks` and `owned` alone, and `NoOverlap` is inherited. `RoomInv` adds that a chunk's high-water
mark is above every region that ever was in it.

`GraphAllocator`. First the counters: at each place of the plan, `n_children` and `n_views` of a
tensor are the cardinalities of its reads and views that are counted and not yet released
(`CountInv`). On this rests what holds while the plan is made (`PlanInv`): a tensor that had its
turn has an address, large enough and below the mark; one that gave its memory back has no open
read or view and is no output, and one that has its memory is still wanted, which is
`NothingLeaks`; and two tensors have separate places, unless the later one is a node and nobody
after it needs the earlier one. A node that itself reads the earlier one must then be an in-place
operation of the same size in the same place. The step that needs all of it is taking over a
parent: a counter of one means that this node is its only reader left (`LastReader`), also
through views. The finished plan is good for the graph in hand, and one that is kept stays good
because `needs_realloc` compared the size of every tensor that has a place (`UseInv`); while the
graph runs, `holds` then contains every tensor that is still needed (`HoldInv`).

`Decoding`. `WindowsMoveOn` needs that the chosen decoder's `seek_delta` is positive and a
window is begun only with audio left; `TextFits` bounds the prompt by half the context and four
tokens, and the tokens by the rest. `BestUsable` needs that after the last iteration each
decoder that did not fail has a result: a completed one because `Completed` gives it one, a live
one because `Repeats` fails those without; and that cutting it to its result does not make it
empty.

Why a batch always finds its cells (`SlotsFound`): cells can be scattered, because beam search
frees some in the middle and a search starts at `head`, wherever that is. What is inductive is not
how many cells are in use but where: none from `Used` on, which is the length of the prompt and a
cell per decoder and iteration (`CellInv`). The search takes the first place from `head` on,
`head` is at most `Used`, and `Used` is such a place; so a batch ends no later than `Used` plus
its length, which the next iteration allows for. Copies, exchanges and removals use no new cell.
`Room` is the arithmetic: half a context and four tokens of prompt, and `n` tokens in each of the
iterations that are left, fit into what is allocated. For one decoder they fill a context exactly;
the `n + 2` contexts of more decoders are an overallocation "to workaround KV cache fragmentation
issues" (`src/whisper.cpp` 7134), and `(n + 1) / 2` would do.

What a decoder attends to (`OwnContextOnce`): `ContextInv` says that the cells of a live decoder
hold each position up to the last one once, with the decoder's own tokens. The prompt's cells are
shared when decoding begins. In `TakeOver` a decoder's sequence is removed while another may
still need it; that is right because every source was set aside first, under a number no decoder
has, and the second loop reads only those (`MovedOf` for a round, `MovesOf` for several, `TakenOf`
for both loops). A new batch has one token of each live decoder, in a cell that was free. A
decoder that has stopped may keep cells that nothing reads: of these only the place is claimed.

The loops over decoders are folds, and what holds after any number of rounds calls for induction,
which the provers cannot apply to an operator. It is done by hand: the equation that defines a
fold has a solution (`FoldExists`), so that its `CHOOSE` returns one, and what the rounds preserve
holds after all of them, since a least round without it would contradict the one before (`UpTo`).
TLC checked the three parts of `KvInv` as invariants on the instance of `MCDecoding_windows` before
they were proved.

`LlmRouting`. `TargetsWhole` needs that only a whole temporary file reaches the rename (`FileInv`),
and that a copy of the packaged model stays below `MinLoadable`, however many calls write to it;
a language model has one writer. `CompletedIsAccepted` is about the setup
screen: past it, `initialize()` may be deleting the file it found too short a moment ago. It needs
that, up to the Journal, no initialisation runs, no file has a length the two checks of a model
would tell apart (`Sized`), and the model being saved, and the Whisper model while the language
model is loaded, are already accepted ones (`Going`).
`CacheIsFresh` needs that the time stored with an engine is no later than the time its check
found it, also for checks that cross. `NamedModelAnswers` needs that the inference in memory is
the one of `currentModelPath`, that there is none while one is built, and that one call at a
time is in the engine.

Model-checked only: every liveness property, and so the fairness part of `KeepsPromise` and
`ComputesGraphs`, since liveness and ENABLED are out of the prover's reach.

## 5. Not modelled

- Texts, prompts, JSON, layout, logging, permissions, Partial events and the capacity (64) of
  the event buffer, which the Final and Error events alone do not fill.
- A crash inside `Recording`. Three paths lead to one: `stop()` on an uninitialised
  `AudioRecord`, an output stream opened outside the `try`, `stopService` racing
  `startForegroundService`.
- `resetToReady`, `setManualTranscript`, `LlmRouter.invalidate`, and benchmarks and factories of
  `WhisperContext`, which nothing calls.
- Journal store, memory and summaries, list and sync, insights and coach. Room serialises single
  statements; above it, the profile and the summaries are read, rewritten by the LLM and saved
  without a lock or a version (`RecordingViewModel.kt` 225, `SummaryEngine.kt` 17), and an
  answer is shown whatever was asked meanwhile (`InsightsViewModel.kt` 115,
  `CommunicationViewModel.kt` 209). The outcome is that the later one wins; a model would state
  that and no more.
- In `ModelFiles`, the contents of a file that two copies write (their lengths only), and a
  failing deletion of a temporary file. Nor is the Journal left without a kill while
  `initialize()` copies: a new launch could then finish a download whose file that call deletes,
  which `CompletedIsAccepted` excludes.
- There also, two downloads at once (they would share a temporary file; the button shows
  only while none runs, and the view model that holds the other is gone), journal screens left
  during an LLM call, and devices with too little memory for the on-device model.
- In `Decoding`, failures to encode or decode, abort callbacks, grammar, VAD, DTW, language
  detection, the texts and times of segments, a test path that loads no model tensors, and
  different hypotheses whose probabilities are equal.
- In the thread pool, affinity, priorities and weaker memory orders; in the graph allocator,
  several buffers, and leafs that no node reads, whose size the code does not check either.
- All other kernels, backends, examples and bindings of whisper.cpp and ggml: numerical code,
  code generated per data type, and programs the app does not build. They are nearly all of the
  repository's lines.

## 6. Plan

Done: the recording path, the engine's models, model files and LLM, decoding, thread pool, graph
allocator, each with the proofs of section 4. Every invariant of the runs and
every action property is a theorem. Worth doing next, in this order:

1. `ggml_backend_sched`, once the app uses a second backend: it splits graphs between them and
   gives the graph allocator several buffers.
2. A launch after a kill between the download of the LLM and `saveLlmModelPath` (section 3), once
   the code says what it should do then.

## 7. Running

    tlc -workers 2 -config MCRecording_journal.cfg MCRecording.tla
    tlapm WhisperEngine_proof.tla

Each run takes from seconds to about three minutes. In a module, an operator whose name is that
of an action with a suffix (`StopListening_NotReleased`) is the action with a plausible mistake;
put in the action's place, it breaks the property that `PROJECT.json` pairs it with.
