SPECIFICATION FairSpec
CONSTANTS
    u1 = u1
    u2 = u2
    s1 = s1
    s2 = s2
    m1 = m1
    m2 = m2
    Users = {u1, u2}
    Sockets = {s1, s2}
    Owner <- OwnerDef
    Msgs = {m1, m2}
    Target <- TargetDef
    Consumer = consumer
    MaxFailures = 2
INVARIANTS
    TypeOK
    BoundIffConnected
    NoLeak
PROPERTIES
    Delivered
    GoneForgotten
CHECK_DEADLOCK FALSE
