SPECIFICATION LiveSpec

CONSTANTS
    MaxSessions = 2
    MaxAnalyses = 0
    MaxVisits = 1
    MaxChanges = 0
    Env = {"impatient", "micFault", "noSpeech"}

INVARIANTS
    OneOutcomePerRecording

PROPERTIES
    ProcessingEnds

CHECK_DEADLOCK FALSE
