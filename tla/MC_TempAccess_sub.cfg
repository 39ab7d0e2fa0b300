\* PyJWT 2.x enforces the 'require' list of get_object, which names a claim the issuer never sets.
CONSTANTS
    u1 = u1
    u2 = u2
    r1 = r1
    r2 = r2
    b1 = b1
    b2 = b2
    k1 = k1
    k2 = k2
    Anonymous = Anonymous
    Users = {u1, u2}
    Records = {r1, r2}
    Buckets = {b1, b2}
    Keys = {k1, k2}
    RecordBucket <- MCRecordBucket
    BucketObjects <- MCBucketObjects
    Editors <- MCEditors
    Readers <- MCReaders
    Lifetimes = {0, 1}
    PyJWTMajor = 2
    MaxTime = 2
    MaxTokens = 2
SPECIFICATION Spec
INVARIANT LiveTokenHonoured
