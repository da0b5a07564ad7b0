SPECIFICATION Spec
CONSTANTS
    Pod = {p1, p2}
    Replicas = 2
    MaxStarts = 2
INVARIANTS
    ConfigKept
CHECK_DEADLOCK FALSE
