\* One run, two requests at a time, three in a unit of time: two keepalives can
\* race to create the test while a third request completes it.  Client clocks
\* are off by one unit.
CONSTANTS
    Run = {r1}
    Handler = {h1, h2}
    Metric = {m1, m2}
    Field = {el}
    MaxHistory = 1
    OrphanAge = 1
    CleanupAge = 2
    MaxAge = 4
    TickPeriod = 2
    Skew = 1
    MaxArrivals = 3
    NoRequest = NoRequest
    NoMetrics = NoMetrics
SPECIFICATION Spec
SYMMETRY Symmetry
INVARIANTS
    TypeOK
    StatusCoherent
    AckedIsStored
    RunningIsFresh
PROPERTIES
    CompletedIsFinal
    NoEarlyRemoval
    OrphanedAfterSilence
    LifecycleSpec
