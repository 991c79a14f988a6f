SPECIFICATION Spec
CONSTANTS
    u1 = u1
    u2 = u2
    u3 = u3
    Users = {u1, u2, u3}
    Msgs = {m1, m2}
    Readers = {r1}
    NShards = 3
    OldN = 3
    NewN = 2
    Bucket <- BucketDef
    Batch = 1
    Grace = {"backfill", "cleanup"}
    WrongNs = {}
    MaxMishaps = 0
SYMMETRY Symmetry
INVARIANTS
    ListComplete
    StoreInv
PROPERTIES
    ImplementsStore
