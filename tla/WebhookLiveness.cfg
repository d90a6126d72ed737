SPECIFICATION FairSpec
CONSTANTS
    w1 = w1
    w2 = w2
    NumRequests = 2
    Workers = {w1, w2}
    Kinds <- AllKinds
    MaxRetries = 2
    MaxIncidents = 1
    Enveloped = FALSE
INVARIANTS MessagesAccountedFor ParkedAfterRetries OneNoticePerCompletion
PROPERTIES DispatchedRowSettles QueueDrains
CHECK_DEADLOCK FALSE
