SPECIFICATION Spec
CONSTANTS
    pay = pay
    child = child
    rival = rival
    deposit = deposit
    withdraw = withdraw
    open = open
    twice = twice
    Txs <- MCTxs
    Inputs <- MCInputs
    Outputs <- MCOutputs
    Bodies <- MCBodies
    Rewards = {1, 2, 3}
    GenesisReward = 4
    GenesisLock = 1
    GenesisInterest = 1
    Subsidy = 2
    CoinbaseMaturity = 1
    LockRate <- MCLockRate
    TotalInterest = 4
    DecayPoints = {2}
    WordSize = 256
    MaxHeight = 5
INVARIANT EveryTipDisconnects
CHECK_DEADLOCK FALSE
