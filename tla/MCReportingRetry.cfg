\* After an answer 5xx the next attempt has no body and the client refuses it.
CONSTANTS
    QueueSize = 1
    KeepaliveEvery = 1
    OrphanAge = 4
    MaxUpdates = 2
    MaxLate = 1
    Nothing = Nothing
SPECIFICATION Spec
INVARIANTS
    RetryRepeatsRequest
