SPECIFICATION Spec
CONSTANTS
    Page = {p1, p2}
    Form = {f1, f2}
    MaxReplicas = 1
    Cert = {k1}
    NoCert = NoCert
    Extra = {}
    NoExtra = NoExtra
    NoSpec = NoSpec
    Reloads = {r1}
    MaxCreates = 2
    MaxEdits = 2
    MaxStatus = 1
    MaxFaults = 1
INVARIANTS
    TypeOK
    SavedIsShown
PROPERTIES
    EditsAreAtomic
SYMMETRY MC_Symmetry
CHECK_DEADLOCK FALSE
