SPECIFICATION Spec
CONSTANTS
    Config = {c1, c2}
    NoConfig = NoConfig
    Request = {r1, r2}
    MaxRequests = 3
    MaxFaults = 1
    MaxRestarts = 1
INVARIANTS
    TypeOK
    AloneConverges
    AnswerShowsResult
CHECK_DEADLOCK FALSE
