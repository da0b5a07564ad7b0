SPECIFICATION FairSpec
CONSTANTS
    Database = {db1, db2}
    User = {u1}
    Config = {c1, c2}
    NoConfig = NoConfig
    Covers <- MC_Covers
    DatabaseName <- MC_OwnName
    DatabaseUser <- MC_OneUser
    Refused = {c2}
    DropDataOnDelete = TRUE
    MaxCreates = 1
    MaxEdits = 2
    MaxFaults = 1
    MaxTampers = 0
    MaxCrashes = 0
    MaxWakeups = 0
INVARIANTS
    ReadyAccurate
    SettledIsDone
PROPERTIES
    EventuallySettled
    DeletionCompletes
CHECK_DEADLOCK FALSE
