SPECIFICATION Spec
CONSTANTS
    a = a
    b = b
    c = c
    t1 = t1
    t2 = t2
    t3 = t3
    Users = {a, b, c}
    Readers = {c}
    Posts = {1, 2}
    Author <- AuthorDef
    Cap = 2
    MaxText = 1
    Pages <- PagesDef
    Threshold = 2
    Transports = {"sync"}
    Workers = {}
    Sessions = {t1, t2, t3}
    Owners <- OneTab
    MaxMishaps <- NoMishap
SYMMETRY TabSymmetry
INVARIANTS
    FanOutSurvivesRebuild
