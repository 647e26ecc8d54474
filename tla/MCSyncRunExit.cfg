\* One run, nothing fails: a signal reaches a test that succeeded.
CONSTANTS
    MaxRuns = 1
    MaxEntries = 2
    SaveEvery = 2
    Config <- DefaultConfig
    InitialServices <- NoServices
    Failures = FALSE
    NoFile = NoFile
    Torn = Torn
SPECIFICATION Spec
CHECK_DEADLOCK FALSE
INVARIANTS
    SuccessExitsWithZero
