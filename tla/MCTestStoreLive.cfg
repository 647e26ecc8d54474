\* Two runs with fairness: an abandoned run leaves the store whatever the
\* clients of the other run do.
CONSTANTS
    Run = {r1, r2}
    Handler = {h1}
    Metric = {m1}
    Field = {}
    MaxHistory = 1
    OrphanAge = 1
    CleanupAge = 2
    MaxAge = 4
    TickPeriod = 2
    Skew = 0
    MaxArrivals = 1
    NoRequest = NoRequest
    NoMetrics = NoMetrics
SPECIFICATION FairSpec
PROPERTIES
    AbandonedIsRemoved
