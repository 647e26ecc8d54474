\* Two runs, nothing fails: a run is interrupted, the next one is to resume it.
CONSTANTS
    MaxRuns = 2
    MaxEntries = 2
    SaveEvery = 2
    Config <- DefaultConfig
    InitialServices <- NoServices
    Failures = FALSE
    NoFile = NoFile
    Torn = Torn
SPECIFICATION Spec
CHECK_DEADLOCK FALSE
PROPERTIES
    ResumesInterrupted
