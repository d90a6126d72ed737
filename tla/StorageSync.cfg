SPECIFICATION StorageSpec
CONSTANTS
    b1 = b1
    b2 = b2
    c1 = c1
    c2 = c2
    s1 = s1
    s2 = s2
    None = None
    Torn = Torn
    Unknown = Unknown
    Bodies = {b1, b2}
    Calls = {c1, c2}
    Syncs = {s1, s2}
    MaxDeletes = 1
    MaxFaults = 3
INVARIANTS
    NewestIsKept
    DeletedStaysDeleted
    WholeObjects
PROPERTIES
    PendingCopyIsMoved
CHECK_DEADLOCK FALSE
