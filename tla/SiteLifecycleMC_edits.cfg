SPECIFICATION Spec
CONSTANTS
    Database = {db1, db2}
    User = {u1}
    Config = {c1, c2}
    NoConfig = NoConfig
    Covers <- MC_Covers
    DatabaseName <- MC_OwnName
    DatabaseUser <- MC_OneUser
    Refused = {}
    DropDataOnDelete = FALSE
    MaxCreates = 1
    MaxEdits = 1
    MaxFaults = 1
    MaxTampers = 1
    MaxCrashes = 0
    MaxWakeups = 1
INVARIANTS
    ReadyAccurate
    SettledIsDone
PROPERTIES
    ConfigMapFirst
    PasswordKept
CHECK_DEADLOCK FALSE
