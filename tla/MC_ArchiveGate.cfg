\* ArchiveGate: access decision and accounting of whole-bucket downloads.
CONSTANTS
    u1 = u1
    u2 = u2
    u3 = u3
    anon = anon
    b1 = b1
    b2 = b2
    b3 = b3
    o1 = o1
    o2 = o2
    o3 = o3
    o4 = o4
    Anonymous = anon
    Identities = {u1, u2, u3, anon}
    Buckets = {b1, b2, b3}
    Objects = {o1, o2, o3, o4}
    Listing <- MCListing
    ObjReaders <- MCObjReaders
SPECIFICATION Spec
INVARIANTS
    TypeOK
    ArchiveMatchesObjectAccess
