SPECIFICATION FairWorkersSpec
CONSTANTS
    a = a
    b = b
    c = c
    ta = ta
    tb = tb
    tc = tc
    w1 = w1
    w2 = w2
    Users = {a, c}
    Readers = {c}
    Posts = {1}
    Author <- AuthorDef
    Cap = 1
    MaxText = 2
    Pages = {}
    Threshold = 1
    Transports = {"stream", "rabbitmq"}
    Workers = {w1, w2}
    Sessions = {ta, tc}
    Owners <- OwnersDef
    Batch = 2
    MaxMishaps <- MishapsDef
INVARIANTS
    WorkersTypeOK
    Complete
    Sound
    Fresh
    WorkedInv
PROPERTIES
    Handled
