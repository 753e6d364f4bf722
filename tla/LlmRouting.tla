----------------------------- MODULE LlmRouting -----------------------------
(***************************************************************************)
(* LlmRouter, which picks an engine and remembers it for a while, and      *)
(* MediaPipeEngine, which keeps one model in memory and loads another when *)
(* the settings name one, over the files of ModelFiles.  Calls come from   *)
(* several screens and their background work; Ollama is never available.   *)
(***************************************************************************)
EXTENDS ModelFiles

CONSTANTS
    Calls,              \* callers of analyzeEntry and complete
    Ttl,                \* cacheTtlMs
    HasKey,             \* an Anthropic key was built in
    Overlap,            \* two calls may be in MediaPipeEngine at once
    MaxClock            \* bound

ASSUME LlmRoutingAssumption ==
    /\ Ttl \in Nat /\ HasKey \in BOOLEAN /\ Overlap \in BOOLEAN
    /\ MaxClock \in Nat

VARIABLES
    clock,
    cached, lastCheck,          \* LlmRouter
    inference,                  \* path of the model in memory, or "none"
    currentModelPath, useCpuOnly,
    call,                       \* where each call is and what it holds
    seen                        \* paths named while each call was in the engine

router == <<cached, lastCheck>>
engine == <<inference, currentModelPath, useCpuOnly>>
vars == <<filesVars, clock, router, engine, call, seen>>

\* An engine, and since when it is known to be available.
Nothing == [engine |-> "none", foundAt |-> 0]
IdleCall == [step |-> "idle", now |-> 0, again |-> FALSE, choice |-> Nothing, path |-> "unset"]

Init ==
    /\ FilesInit
    /\ clock = 0 /\ cached = Nothing /\ lastCheck = 0
    /\ inference = "none" /\ currentModelPath = "none" /\ useCpuOnly = FALSE
    /\ call = [c \in Calls |-> IdleCall]
    /\ seen = [c \in Calls |-> {}]

\* What is at a path; nothing ever writes the one without a setting.
Exists(path) == \/ path = "default" /\ file["llm"] # Absent
                \/ path = "custom" /\ custom # "absent"
Loadable(path) == \/ path = "default" /\ file["llm"] # Absent
                  \/ path = "custom" /\ custom = "model"

In(c, step) == call[c].step = step
Moves(c, step) == call' = [call EXCEPT ![c].step = step]
Returns(c) == call' = [call EXCEPT ![c] = IdleCall]
-----------------------------------------------------------------------------
(* LlmRouter.                                                              *)

\* resolve, up to its first suspension.
Resolve(c) ==
    /\ screen = "journal" /\ In(c, "idle") /\ Event
    /\ call' = [call EXCEPT ![c] =
          IF cached # Nothing /\ clock - lastCheck < Ttl
          THEN [IdleCall EXCEPT !.step = "resolved", !.choice = cached]
          ELSE [IdleCall EXCEPT !.step = "checking", !.now = clock]]
    /\ UNCHANGED <<disk, screen, downloadState, at, cancelled, working, clock, router, engine>>

\* MediaPipeEngine.isAvailable reads the settings ...
AvailablePath(c) ==
    /\ In(c, "checking")
    /\ call' = [call EXCEPT ![c].step = "looking", ![c].path = named]
    /\ UNCHANGED <<filesVars, clock, router, engine>>

\* ... and looks for the file; the others are asked in turn.
Available(c) ==
    /\ In(c, "looking")
    /\ LET e == CASE Exists(call[c].path)             -> "mediaPipe"
                  [] ~Exists(call[c].path) /\ HasKey  -> "anthropic"
                  [] OTHER                            -> "none" IN
       IF e = "none" THEN Returns(c)
       ELSE call' = [call EXCEPT ![c].step = "checked", ![c].path = "unset",
                                 ![c].choice = [engine |-> e, foundAt |-> clock]]
    /\ UNCHANGED <<filesVars, clock, router, engine>>

\* Mutant: the time of the check is taken when its answer arrives.
StoreEngine_Now(c) ==
    /\ In(c, "checked")
    /\ cached' = call[c].choice
    /\ lastCheck' = clock
    /\ call' = [call EXCEPT ![c].step = "resolved", ![c].now = 0]
    /\ UNCHANGED <<filesVars, clock, engine>>

\* resolve's end, on the main thread: nothing comes between the two fields.
StoreEngine(c) ==
    /\ In(c, "checked")
    /\ cached' = call[c].choice
    /\ lastCheck' = call[c].now
    /\ call' = [call EXCEPT ![c].step = "resolved", ![c].now = 0]
    /\ UNCHANGED <<filesVars, clock, engine>>

\* The online engine is a stub that answers at once.
AnthropicAnswers(c) ==
    /\ In(c, "resolved") /\ call[c].choice.engine = "anthropic"
    /\ Returns(c)
    /\ UNCHANGED <<filesVars, clock, router, engine>>
-----------------------------------------------------------------------------
(* MediaPipeEngine.analyzeEntry and complete.                              *)

InEngine == {"opening", "building", "gpu", "cpu", "generating"}

ReadModelPath(c) ==
    /\ In(c, "resolved") /\ call[c].choice.engine = "mediaPipe"
    /\ Overlap \/ \A d \in Calls : call[d].step \notin InEngine
    /\ call' = [call EXCEPT ![c].step = "opening", ![c].path = named]
    /\ UNCHANGED <<filesVars, clock, router, engine>>

\* Mutant: a model once loaded is kept.
Open_Loaded(c) ==
    /\ In(c, "opening")
    /\ IF inference # "none"
       THEN call' = [call EXCEPT ![c].step = "generating", ![c].path = inference]
            /\ UNCHANGED inference
       ELSE /\ call' = [call EXCEPT ![c].step = "building", ![c].path = "unset"]
            /\ inference' = "none"
    /\ UNCHANGED <<filesVars, clock, router, currentModelPath, useCpuOnly>>

\* A model of another path is closed; the one in memory is taken as it is.
Open(c) ==
    /\ In(c, "opening")
    /\ IF inference # "none" /\ currentModelPath = call[c].path
       THEN call' = [call EXCEPT ![c].step = "generating", ![c].path = inference]
            /\ UNCHANGED inference
       ELSE /\ call' = [call EXCEPT ![c].step = "building", ![c].path = "unset"]
            /\ inference' = "none"
    /\ UNCHANGED <<filesVars, clock, router, currentModelPath, useCpuOnly>>

\* buildInference reads the settings again.
Build(c) ==
    /\ In(c, "building")
    /\ call' = [call EXCEPT ![c].step = IF useCpuOnly THEN "cpu" ELSE "gpu",
                            ![c].path = named]
    /\ UNCHANGED <<filesVars, clock, router, engine>>

CreateOnGpu(c) ==
    /\ In(c, "gpu")
    /\ currentModelPath' = call[c].path
    /\ \/ /\ Loadable(call[c].path)
          /\ inference' = call[c].path
          /\ Moves(c, "generating")
          /\ UNCHANGED useCpuOnly
       \/ /\ useCpuOnly' = TRUE
          /\ Moves(c, "cpu")
          /\ UNCHANGED inference
    /\ UNCHANGED <<filesVars, clock, router>>

\* An exception ends the call, or the first pass of analyzeEntry, which makes
\* a second one without the context.
PassFails(c) ==
    \/ Returns(c)
    \/ /\ ~call[c].again
       /\ call' = [call EXCEPT ![c].step = "resolved", ![c].again = TRUE, ![c].path = "unset"]

CreateOnCpu(c) ==
    /\ In(c, "cpu")
    /\ currentModelPath' = call[c].path
    /\ \/ /\ Loadable(call[c].path)
          /\ inference' = call[c].path
          /\ Moves(c, "generating")
       \/ PassFails(c) /\ UNCHANGED inference
    /\ UNCHANGED <<filesVars, clock, router, useCpuOnly>>

\* The answer, or an exception in the engine or while it is parsed.
Generate(c) ==
    /\ In(c, "generating")
    /\ PassFails(c)
    /\ UNCHANGED <<filesVars, clock, router, engine>>
-----------------------------------------------------------------------------
Caller(c) ==
    \/ Resolve(c) \/ AvailablePath(c) \/ Available(c) \/ StoreEngine(c)
    \/ AnthropicAnswers(c)
    \/ ReadModelPath(c) \/ Open(c) \/ Build(c) \/ CreateOnGpu(c) \/ CreateOnCpu(c)
    \/ Generate(c)

Tick ==
    /\ clock < MaxClock
    /\ clock' = clock + 1
    /\ UNCHANGED <<filesVars, router, engine, call>>

Kill ==
    /\ FilesLost
    /\ cached' = Nothing /\ lastCheck' = 0
    /\ inference' = "none" /\ currentModelPath' = "none" /\ useCpuOnly' = FALSE
    /\ call' = [c \in Calls |-> IdleCall]
    /\ UNCHANGED <<clock>>

Next ==
    /\ \/ FilesNext /\ UNCHANGED <<clock, router, engine, call>>
       \/ \E c \in Calls : Caller(c)
       \/ Tick \/ Kill
    /\ seen' = [c \in Calls |-> IF call'[c].step \in InEngine
                                THEN seen[c] \cup {named'} ELSE {}]

Spec == Init /\ [][Next]_vars
-----------------------------------------------------------------------------
\* An engine taken from the cache was found available less than the time to
\* live ago, however long the check that found it took to come back, and
\* whatever other checks it crossed.
CacheIsFresh ==
    [][\A c \in Calls : In(c, "idle") /\ call'[c].step = "resolved" =>
          clock - call'[c].choice.foundAt < Ttl]_vars

\* The model that answers a call is one the settings named during the call: a
\* model chosen before is not used any more, on the GPU or after the fallback.
NamedModelAnswers ==
    \A c \in Calls : In(c, "generating") => call[c].path \in seen[c]
=============================================================================
