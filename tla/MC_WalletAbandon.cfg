SPECIFICATION WalletSpec
CONSTANTS
  WTxs = {1, 2, 3, 4, 5}
  WSpends <- MCWSpends
  Owned = {1, 2, 4}
  Importable = {3}
  MaxWBlocks = 2
  CalmReorgs = TRUE
CHECK_DEADLOCK FALSE
INVARIANT AbandonedWithSpenders
