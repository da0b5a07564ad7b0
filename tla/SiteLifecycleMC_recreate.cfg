SPECIFICATION Spec
CONSTANTS
    Database = {db1}
    User = {u1}
    Config = {c1}
    NoConfig = NoConfig
    Covers <- MC_Covers
    DatabaseName <- MC_OneName
    DatabaseUser <- MC_OneUser
    Refused = {}
    DropDataOnDelete = TRUE
    MaxCreates = 2
    MaxEdits = 0
    MaxFaults = 1
    MaxTampers = 0
    MaxCrashes = 1
    MaxWakeups = 0
INVARIANTS
    TypeOK
    NoOrphanData
    CustodyInv
    SettledIsDone
PROPERTIES
    DropsOnlyDoomedData
    KeepsCustody
    IsTenant
CHECK_DEADLOCK FALSE
