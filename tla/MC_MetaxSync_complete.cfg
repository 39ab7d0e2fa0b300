\* One fair Celery worker; Metax answers every call with success; x cannot
\* be serialized.  Does every serializable record that a running
\* publish_to_metax listed reach Metax, across overlapping queued tasks,
\* versions published meanwhile and nested updates?  Once the operator
\* stops queueing and every task has ended the system really stops, so
\* deadlock is not checked.
CONSTANTS
    v1 = v1
    v2 = v2
    x = x
    w1 = w1
    w2 = w2
    h = h
    NoRecord = NoRecord
    Records = {v1, v2, x}
    Prev <- MCPrev
    Unserializable = {x}
    Workers = {w1}
    Harvesters = {}
    EnableMetax = TRUE
    MetaxReliable = TRUE
    MetaxAnswers = TRUE
    EtsinPrefix = TRUE
    MaxIds = 3
    MaxEnqueue = 3
SPECIFICATION FairSpec
PROPERTY ListedRecordsReachMetax
CHECK_DEADLOCK FALSE
