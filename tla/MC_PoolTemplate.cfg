SPECIFICATION PoolSpec
CONSTANTS
    pay = pay
    child = child
    rival = rival
    deposit = deposit
    withdraw = withdraw
    open = open
    twice = twice
    Txs <- MCTxs
    Inputs <- MCInputs
    Outputs <- MCOutputs
    Bodies <- EmptyBodies
    Rewards = {2}
    GenesisReward = 4
    GenesisLock = 1
    GenesisInterest = 1
    Subsidy = 2
    CoinbaseMaturity = 2
    LockRate <- MCLockRate
    TotalInterest = 4
    DecayPoints = {2}
    WordSize = 256
    MaxHeight = 6
INVARIANT PackageOrderValid
CHECK_DEADLOCK FALSE
