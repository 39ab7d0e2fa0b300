\* Two Celery workers and the harvest CLI publishing and updating concurrently.
CONSTANTS
    v1 = v1
    v2 = v2
    x = x
    NoRecord = NoRecord
    Records = {v1, v2}
    Prev <- MCPrev
    Unserializable = {}
    w1 = w1
    w2 = w2
    h = h
    Workers = {w1, w2}
    Harvesters = {h}
    EnableMetax = TRUE
    MetaxReliable = FALSE
    MetaxAnswers = FALSE
    EtsinPrefix = TRUE
    MaxIds = 2
    MaxEnqueue = 2
SPECIFICATION Spec
SYMMETRY MCSymmetry
INVARIANTS TypeOK
PROPERTY MetaxCatalogRefined
CHECK_DEADLOCK FALSE
