\* MetaxSerializer: every record with up to two alternate identifiers and
\* one description, contributor, creator and related identifier, every
\* publisher kind and every kind of next and previous version, serialized
\* once.  The model stops after the one serialization, so deadlock is not
\* checked.
CONSTANTS
    MaxAlts = 2
    MaxDescs = 1
    MaxAgents = 1
    MaxCreators = 1
    MaxRelated = 1
    MaxFiles = 2
    MaxDisciplines = 2
SPECIFICATION Spec
CHECK_DEADLOCK FALSE
INVARIANTS
    TypeOK
    SerializableIff
    RolesPartitioned
