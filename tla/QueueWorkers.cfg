SPECIFICATION Spec
CONSTANTS
    j1 = j1
    w1 = w1
    w2 = w2
    d1 = d1
    d2 = d2
    Jobs = {j1}
    Workers = {w1, w2}
    Devices = {d1, d2}
    MAX_RETRIES = 1
    MaxIncidents = 1
INVARIANTS
    MailsExplained
    RowsExplained
    NoJobVanishes
PROPERTIES
    JobsEnd
CHECK_DEADLOCK FALSE
