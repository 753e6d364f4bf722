SPECIFICATION Spec

CONSTANTS
    MaxSessions = 1
    MaxAnalyses = 2
    MaxVisits = 0
    MaxChanges = 0
    Env = {"manual"}

INVARIANTS
    SavedAudioSurvives

CHECK_DEADLOCK FALSE
