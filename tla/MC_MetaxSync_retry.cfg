\* One worker, fair: is a record whose update failed transiently updated again?
\* Once the bounded operator input is used up the system is quiescent, so deadlock is not an error.
CONSTANTS
    v1 = v1
    v2 = v2
    x = x
    w1 = w1
    w2 = w2
    h = h
    NoRecord = NoRecord
    Records = {v1, v2, x}
    Prev <- MCPrev
    Unserializable = {x}
    Workers = {w1}
    Harvesters = {}
    EnableMetax = TRUE
    MetaxReliable = FALSE
    MetaxAnswers = TRUE
    EtsinPrefix = TRUE
    MaxIds = 2
    MaxEnqueue = 2
SPECIFICATION FairSpec
PROPERTY RetriedAfterFailure
CHECK_DEADLOCK FALSE
