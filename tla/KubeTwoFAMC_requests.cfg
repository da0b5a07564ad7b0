SPECIFICATION Spec
CONSTANTS
    Request = {r1, r2, r3}
    MaxKeys = 2
    MaxWipes = 1
SYMMETRY MC_Symmetry
INVARIANTS
    TypeOK
    TwoFAInv
    NoLockout
PROPERTIES
    RequestsAreAtomic
CHECK_DEADLOCK FALSE
