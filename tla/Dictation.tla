----------------------------- MODULE Dictation -----------------------------
(***************************************************************************)
(* What a recording screen promises its user, told without engine, events, *)
(* coroutines or service.  The user records, or types, reviews one text,   *)
(* and saves or discards it.  The text under review is that of the take    *)
(* just recorded; a result arrives only while the screen waits for it; the *)
(* entry saved is the text that was reviewed, with the audio of the take.  *)
(***************************************************************************)
EXTENDS Naturals

CONSTANT MaxTakes   \* bound, a natural number: recordings made

Typed  == 0
NoTake == 0

VARIABLES
    phase,     \* what the screen shows
    takes,     \* number of recordings made
    take,      \* the current one, or NoTake
    text,      \* the text under review: takes it was spoken in, and Typed
    entries    \* the journal: what was saved

dvars == <<phase, takes, take, text, entries>>

Idle == {"ready", "saved"}

Init == /\ phase = "starting"
        /\ takes = 0 /\ take = NoTake
        /\ text = {} /\ entries = {}

Prepare == /\ phase = "starting"
           /\ phase' \in {"ready", "error"}
           /\ UNCHANGED <<takes, take, text, entries>>

Record == /\ phase \in Idle /\ takes < MaxTakes
          /\ phase' = "recording"
          /\ takes' = takes + 1 /\ take' = takes + 1
          /\ text' = {}
          /\ UNCHANGED entries

Stop == /\ phase = "recording"
        /\ phase' = "transcribing"
        /\ UNCHANGED <<takes, take, text, entries>>

Transcribed == /\ phase = "transcribing"
               /\ phase' = "review"
               /\ text' = {take}
               /\ UNCHANGED <<takes, take, entries>>

Fail == /\ phase \in {"transcribing", "analyzing"}
        /\ phase' = "error"
        /\ UNCHANGED <<takes, take, text, entries>>

Write == /\ phase \in Idle
         /\ phase' = "review"
         /\ text' = {}
         /\ UNCHANGED <<takes, take, entries>>

Edit == /\ phase = "review"
        /\ text' \in {text \cup {Typed}, {Typed}}
        /\ UNCHANGED <<phase, takes, take, entries>>

TooShort == /\ phase = "review"
            /\ phase' = "ready"
            /\ UNCHANGED <<takes, take, text, entries>>

Confirm == /\ phase = "review" /\ text # {}
           /\ phase' = "analyzing"
           /\ UNCHANGED <<takes, take, text, entries>>

Save == /\ phase = "analyzing"
        /\ phase' = "saved"
        /\ entries' = entries \cup {[text |-> text, audio |-> take]}
        /\ UNCHANGED <<takes, take, text>>

Discard == /\ phase = "review"
           /\ phase' = "ready"
           /\ take' = NoTake /\ text' = {}
           /\ UNCHANGED <<takes, entries>>

Next == \/ Prepare \/ Record \/ Stop \/ Transcribed \/ Fail
        \/ Write \/ Edit \/ TooShort \/ Confirm \/ Save \/ Discard

Spec == Init /\ [][Next]_dvars

\* Each wait ends: for the engine, the transcription, the analysis.
Promise == /\ Spec
           /\ WF_dvars(Prepare)
           /\ WF_dvars(Transcribed \/ Fail \/ Save)
=============================================================================
