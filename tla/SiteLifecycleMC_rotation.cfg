SPECIFICATION Spec
CONSTANTS
    Database = {db1}
    User = {u1}
    Config = {c1}
    NoConfig = NoConfig
    Covers <- MC_Covers
    DatabaseName <- MC_OneName
    DatabaseUser <- MC_OneUser
    Refused = {}
    DropDataOnDelete = FALSE
    MaxCreates = 2
    MaxEdits = 0
    MaxFaults = 0
    MaxTampers = 0
    MaxCrashes = 0
    MaxWakeups = 0
PROPERTIES
    LiveCredentialKept
CHECK_DEADLOCK FALSE
