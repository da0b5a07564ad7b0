SPECIFICATION Spec
CONSTANTS
    Pod = {p1, p2}
    Replicas = 1
    MaxStarts = 4
INVARIANTS
    TypeOK
    ConfigKept
    InsertedOnce
    InsertedAtEnd
CHECK_DEADLOCK FALSE
