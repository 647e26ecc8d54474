\* Recovery enabled, no server, nothing fails; the enclave found at first has
\* the exporter service ValidateEnclave looks for, so that a run can be resumed.
CONSTANTS
    MaxRuns = 2
    MaxEntries = 2
    SaveEvery = 2
    Config <- OfflineConfig
    InitialServices <- AllServices
    Failures = FALSE
    NoFile = NoFile
    Torn = Torn
SPECIFICATION Spec
CHECK_DEADLOCK FALSE
INVARIANTS
    RestoredIsKept
    BoundedLoss
