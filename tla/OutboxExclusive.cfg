SPECIFICATION Spec
CONSTANTS
    i1 = i1
    i2 = i2
    Instances = {i1, i2}
    Polls = {1, 2}
    InstanceOf <- TwoPolls
    NoOwner = NoOwner
    NumEvents = 2
    BatchSize = 1
    MaxRetries = 2
    MaxIncidents = 2
    LostReplies = FALSE
    TtlCoversBatch = TRUE
    Shutdowns = FALSE
INVARIANTS
    OneInstanceProcesses
    DuplicatesNeedIncidents
PROPERTY
    ImplementsDelivery
