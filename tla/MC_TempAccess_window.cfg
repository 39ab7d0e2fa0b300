\* PyJWT 1.x: is a token refused from its exp second on?
CONSTANTS
    u1 = u1
    u2 = u2
    r1 = r1
    r2 = r2
    b1 = b1
    b2 = b2
    k1 = k1
    k2 = k2
    Anonymous = Anonymous
    Users = {u1, u2}
    Records = {r1, r2}
    Buckets = {b1, b2}
    Keys = {k1, k2}
    RecordBucket <- MCRecordBucket
    BucketObjects <- MCBucketObjects
    Editors <- MCEditors
    Readers <- MCReaders
    Lifetimes = {0, 1}
    PyJWTMajor = 1
    MaxTime = 2
    MaxTokens = 2
SPECIFICATION Spec
INVARIANT ExpiryWindow
