SPECIFICATION LiveSpec

CONSTANTS
    MaxSessions = 3
    MaxAnalyses = 3
    MaxVisits = 0
    MaxChanges = 0
    Env = {"manual", "initFault", "noSpeech", "llmFault"}

INVARIANTS
    MicOnlyWhileRecording
    EntryIsItsRecording

PROPERTIES
    KeepsPromise

CHECK_DEADLOCK FALSE
