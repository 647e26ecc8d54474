\* Two runs, nothing fails: a signal reaches the second while it starts.
CONSTANTS
    MaxRuns = 2
    MaxEntries = 2
    SaveEvery = 2
    Config <- DefaultConfig
    InitialServices <- NoServices
    Failures = FALSE
    NoFile = NoFile
    Torn = Torn
SPECIFICATION Spec
CHECK_DEADLOCK FALSE
PROPERTIES
    SignalSavesProgress
