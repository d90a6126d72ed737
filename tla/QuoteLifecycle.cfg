SPECIFICATION Spec
CONSTANTS
    c1 = c1
    c2 = c2
    Calls = {c1, c2}
    Operations <- MostOperations
    MaxLag = 1
    MaxCommits = 5
SYMMETRY CallSymmetry
INVARIANTS
    DecisionsExplained
    RequestAgreesWithQuote
    RevisionsAnnounced
CHECK_DEADLOCK FALSE
