\* The exporter: three processes, one after the other; two may leave something.
\* The log streams: two clients, three attempts each.
\* The requests: a chain of two blocks; a client can be behind, level, or have none.
CONSTANTS
    MaxRuns = 3
    NoContainer = NoContainer
    Client = {c1, c2}
    MaxRetries = 3
    MaxBlock = 2
    Nil = Nil
SPECIFICATION PartsSpec
CHECK_DEADLOCK FALSE
INVARIANTS
    PartsTypeOK
    SyncsWithOwnExporter
    VerdictLeavesNothing
    FailedStartLeavesNoContainer
    PanicsOnlyWhenSignalled
    StreamsAreWatched
    ConclusionsAreCurrent
PROPERTIES
    NothingLeft
    SyncedEnds
