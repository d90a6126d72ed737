SPECIFICATION Spec
CONSTANTS
    c1 = c1
    c2 = c2
    Calls = {c1, c2}
    MaxLag = 1
    MaxCommits = 4
    MaxTokens = 2
    MaxSecrets = 2
    MaxKeys = 3
SYMMETRY CallSymmetry
INVARIANTS
    ResetTokensWorkOnce
    BlockedStaysBlocked
    FactorIsTheVerifiedOne
    AvatarExists
CHECK_DEADLOCK FALSE
