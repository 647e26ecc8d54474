\* In units of five minutes: a client whose clock is fifteen minutes slow.
CONSTANTS
    Run = {r1}
    Handler = {h1}
    Metric = {m1}
    Field = {}
    MaxHistory = 1
    OrphanAge = 2
    CleanupAge = 4
    MaxAge = 8
    TickPeriod = 4
    Skew = 3
    MaxArrivals = 1
    NoRequest = NoRequest
    NoMetrics = NoMetrics
SPECIFICATION Spec
PROPERTIES
    OrphanedOnlyWithoutKeepalive
