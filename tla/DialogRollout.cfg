SPECIFICATION FairSpec
CONSTANTS
    up1 = up1
    stays = stays
    back = back
    Apps = {a1, a2}
    Chats = {up1, stays, back}
    Msgs = {m1, m2}
    NShards = 3
    OldN = 2
    NewN = 3
    Bucket <- BucketDef
    None = none
    WrongNs = {4}
    MaxMishaps = 2
INVARIANTS
    RolloutTypeOK
    RolloutInv
    VisibleThrough
    CleanAfterRollout
PROPERTIES
    SeenByAll
CHECK_DEADLOCK FALSE
