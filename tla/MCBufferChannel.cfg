SPECIFICATION FairSpec
CONSTANTS
  Items <- MCItems
  NoItem = NoItem
  PoolSize = 3
  MaxDrains = 6
INVARIANTS TypeOK PoolBound NoNullCopy BalanceCountsItems SinglePlace
PROPERTIES ImplementsQueue DrainsAnalysed
CHECK_DEADLOCK FALSE
