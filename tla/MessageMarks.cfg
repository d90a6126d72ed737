SPECIFICATION MarksSpec
CONSTANTS
    c1 = c1
    c2 = c2
    alice = alice
    bob = bob
    Users = {alice, bob}
    Sender = alice
    Calls = {c1, c2}
    MaxLag = 1
    MaxCommits = 4
SYMMETRY CallSymmetry
INVARIANTS
    ReceiptsAreKept
    MarksAreExact
    DeletedStaysEmpty
CHECK_DEADLOCK FALSE
