SPECIFICATION Spec
CONSTANTS
    e1 = e1
    e2 = e2
    e3 = e3
    NoEntry = NoEntry
    Entries = {e1, e2, e3}
    batchSize = 2
    MaxIncidents = 2
INVARIANTS
    EntriesAccounted
    NoDoubleRows
    BatchesDisjoint
PROPERTIES
    EntriesSettle
CHECK_DEADLOCK FALSE
