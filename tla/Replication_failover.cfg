SPECIFICATION Spec
CONSTANTS
    Slave1 = s1
    Slave2 = s2
    Emails = {e1}
    Clients = {c1}
    Batch = rows
    NoEmail = none
    WalKeep = 1
    MaxBatches = 1
    MaxMishaps = 1
INVARIANTS
    SyncLosesNothing
CHECK_DEADLOCK FALSE
