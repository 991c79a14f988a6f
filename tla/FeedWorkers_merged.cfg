SPECIFICATION WorkersSpec
CONSTANTS
    a = a
    b = b
    c = c
    ta = ta
    tb = tb
    tc = tc
    w1 = w1
    w2 = w2
    Users = {a, b, c}
    Readers = {a, c}
    Posts = {1, 2}
    Author <- Authors2Def
    Cap = 2
    MaxText = 2
    Pages <- PagesDef
    Threshold = 2
    Transports = {"rabbitmq"}
    Workers = {w1}
    Sessions = {ta, tb, tc}
    Owners <- Owners2Def
    Batch = 1
    MaxMishaps <- MishapsDef
INVARIANTS
    PageOwed
PROPERTIES
    NotifiedCanRead
CONSTRAINT Scenario
