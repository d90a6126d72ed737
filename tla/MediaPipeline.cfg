SPECIFICATION Spec
CONSTANTS
    m1 = m1
    m2 = m2
    w1 = w1
    w2 = w2
    c1 = c1
    Media = {m1, m2}
    Original = m1
    Queued = {m1}
    Workers = {w1, w2}
    Calls = {c1}
    MaxJobs = 2
    MaxIncidents = 1
    MaxCalls = 2
INVARIANTS
    OverlapsNeedLapses
    
    NoLeak
SYMMETRY WorkerSymmetry
CHECK_DEADLOCK FALSE
