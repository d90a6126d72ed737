SPECIFICATION Spec
CONSTANTS
    w1 = w1
    w2 = w2
    NumRequests = 1
    Workers = {w1}
    Kinds <- CapturedKinds
    MaxRetries = 2
    MaxIncidents = 0
    Enveloped = FALSE
INVARIANTS SkipsOnlyHandled
CHECK_DEADLOCK FALSE
