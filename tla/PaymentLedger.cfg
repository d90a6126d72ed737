SPECIFICATION Spec
CONSTANTS
    c1 = c1
    c2 = c2
    Calls = {c1, c2}
    Operations = {"intent", "manual", "cancel", "release", "refund", "captured", "failed", "dispute"}
    Amount = 3
    MaxLag = 2
    MaxCommits = 5
    MaxReturned = 6
SYMMETRY CallSymmetry
INVARIANTS
    RowWithinAmount
    SightedRefundsAreExact
    ReleasedStaysPaid
    RefundsAreBooked
CHECK_DEADLOCK FALSE
