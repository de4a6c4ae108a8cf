SPECIFICATION ProgressSpec
CONSTANTS
    w1 = w1
    w2 = w2
    m = m
    Workers = {w1, w2}
    Master = m
    Checks = {1, 2, 3}
    Failing = {1}
    BatchSize = 2
    Totals <- MCTotals
    LockTimes <- MCLockTimes
    Thresholds <- MCThresholds
    MaxDecays = 40
    Servicers = {s1}
    Tasks = {1, 2}
    Repeated = {1}
    Period = 1
    Horizon = 2
    HttpWorkers = {h1, h2}
    Requests = {r1, r2, r3}
    MaxDepth = 1
    CalmStop = TRUE
    Miners = {m1, m2}
    Solo = TRUE
    Blocks = 1
    EpochLength = 3
    PrepareAfter = 1
    StartHeight = 1
    MaxOthers = 2
    MaxTies = 1
    NoWork = NoWork
INVARIANT ResultExact
PROPERTY WaitReturns
PROPERTY RateSound
PROPERTY TasksRunInTime
PROPERTY ServerServesAndStops
PROPERTY GenerateReturns
CHECK_DEADLOCK FALSE
