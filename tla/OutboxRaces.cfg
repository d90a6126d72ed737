SPECIFICATION FairSpec
CONSTANTS
    i1 = i1
    i2 = i2
    Instances = {i1, i2}
    Polls = {1, 2}
    InstanceOf <- TwoPolls
    NoOwner = NoOwner
    NumEvents = 1
    BatchSize = 1
    MaxRetries = 2
    MaxIncidents = 2
    LostReplies = TRUE
    TtlCoversBatch = FALSE
    Shutdowns = TRUE
PROPERTY
    EventuallySettled
INVARIANTS
    PublishedWasHanded
    RetryBudget
