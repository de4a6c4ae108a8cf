SPECIFICATION MoneySpec
CONSTANTS
    pay = pay
    child = child
    rival = rival
    deposit = deposit
    withdraw = withdraw
    open = open
    twice = twice
    Txs <- MCTxs
    Inputs <- MCInputs
    Outputs <- MCOutputs
    Bodies <- MCBodies
    Rewards = {2, 3}
    GenesisReward = 4
    GenesisLock = 1
    GenesisInterest = 1
    Subsidy = 2
    CoinbaseMaturity = 2
    LockRate <- MCLockRate
    TotalInterest = 4
    DecayPoints = {2}
    WordSize = 256
    MaxHeight = 6
    PTxs = {1, 2, 3, 4, 5}
    PSpends <- MCPSpends
    PRivals <- MCPRivals
    PFee <- MCPFee
    AncestorLimit = 4
    DescendantLimit = 3
    FeeDeltas <- MCFeeDeltas
    MaxDelta = 1
    FeeTxs = {1, 2}
    FeeRate <- MCFeeRate
    FeeBuckets = {4, 6}
    MaxConfirms = 2
    Enough = 1
    MaxFeeBlocks = 3
    MaxRestarts = 1
    WTxs = {1, 2, 3, 4, 5}
    WSpends <- MCWSpends
    Owned = {1, 2, 4}
    Importable = {3}
    MaxWBlocks = 2
    CalmReorgs = TRUE
    OwnCoins = {1, 2, 3, 4, 5}
    CoinInfo <- MCCoinInfo
    Payments <- MCPayments
    PayRates = {0, 2}
    FallbackRate = 1
    MinTxRate = 1
    RelayRate = 1
    MaxFee = 6
    DustLimit = 2
    MinChange = 4
    MaxChainLength = 5
    RejectLongChains = FALSE
    SendFree = TRUE
    SpendZeroConfChange = TRUE
    MaxTxSize = 6
    Gain = 1
INVARIANT CoinsExact
INVARIANT SupplyBounded
INVARIANT TipDisconnects
INVARIANT PoolSound
INVARIANT PackagesExact
INVARIANT EstimatorExact
INVARIANT CachedCreditExact
INVARIANT CoinsOfferedUnspent
INVARIANT CreatedTxBalances
CHECK_DEADLOCK FALSE
