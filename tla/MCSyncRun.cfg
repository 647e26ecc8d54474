\* One process, any command line, everything may fail.
CONSTANTS
    MaxRuns = 1
    MaxEntries = 2
    SaveEvery = 2
    Config <- AllConfigs
    InitialServices <- NoServices
    Failures = TRUE
    NoFile = NoFile
    Torn = Torn
SPECIFICATION FairSpec
CHECK_DEADLOCK FALSE
INVARIANTS
    TypeOK
    OutcomesAgree
    FinalFilesMatch
    EndedLeavesNoTemp
PROPERTIES
    RemovalLosesNothing
    Terminates
