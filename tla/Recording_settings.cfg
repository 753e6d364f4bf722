SPECIFICATION LiveSpec

CONSTANTS
    MaxSessions = 2
    MaxAnalyses = 1
    MaxVisits = 0
    MaxChanges = 1
    Env = {"impatient", "micFault", "initFault", "noSpeech"}

PROPERTIES
    ServiceStops

CHECK_DEADLOCK FALSE
