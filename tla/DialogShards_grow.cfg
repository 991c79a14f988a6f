SPECIFICATION FairSpec
CONSTANTS
    u1 = u1
    u2 = u2
    u3 = u3
    Users = {u1, u2, u3}
    Msgs = {m1, m2}
    Readers = {}
    NShards = 3
    OldN = 2
    NewN = 3
    Bucket <- BucketDef
    Batch = 1
    Grace = {"backfill", "cleanup"}
    WrongNs = {4}
    MaxMishaps = 2
INVARIANTS
    TypeOK
    AckedVisible
    BackfillCovers
    CleanPlacement
    StoreInv
PROPERTIES
    MigrationEnds
CHECK_DEADLOCK FALSE
