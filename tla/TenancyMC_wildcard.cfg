SPECIFICATION Spec
CONSTANTS
    Site <- MC_WildSites
    Letter <- MC_Letter
    Database <- MC_Database
    User <- MC_User
    Covers <- MC_Covers
    DatabaseName <- MC_DatabaseName
    DatabaseUser <- MC_DatabaseUser
    NameLimit = 4
    UserLimit = 3
    DropDataOnDelete = TRUE
    MaxLives = 2
    MaxPasswords = 3
INVARIANTS
    ScopedToOne
CHECK_DEADLOCK FALSE
