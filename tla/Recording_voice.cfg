SPECIFICATION Spec

CONSTANTS
    MaxSessions = 3
    MaxAnalyses = 3
    MaxVisits = 0
    MaxChanges = 0
    Env = {"micFault", "diskFault", "initFault", "noSpeech", "llmFault"}

INVARIANTS
    SavedAudioSurvives
    ServiceWhileProcessing
    OutcomesAreCurrent

CHECK_DEADLOCK FALSE
