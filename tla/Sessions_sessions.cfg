SPECIFICATION FairSpec
CONSTANTS
    Tab = {t1, t2}
    MaxCalls = 2
    MaxLogins = 2
    MaxChanges = 1
    MaxMoves = 1
INVARIANTS
    TypeOK
PROPERTIES
    OnlyLateAnswersLogOut
    BouncedToLogin
    ListCatchesUp
CHECK_DEADLOCK FALSE
