\* Two updates and a queue of one; the server tolerates the silence of three
\* keepalives and no more, in the proportions of the code.
CONSTANTS
    QueueSize = 1
    KeepaliveEvery = 1
    OrphanAge = 4
    MaxUpdates = 2
    MaxLate = 1
    Nothing = Nothing
SPECIFICATION FairSpec
INVARIANTS
    TypeOK
    AckedInOrder
PROPERTIES
    KeptAlive
    Relisted
