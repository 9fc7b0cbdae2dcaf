SPECIFICATION RefSpec
CONSTANTS
  Ids = {o1, o2, o3, o4}
  Prices = {1, 2, 3}
  Quantities = {0, 1, 2}
  MaxUint = 7
  Discipline = {"fresh_ids", "limit_adds", "positive_adds", "passive_adds"}
  NoOrder = NoOrder
SYMMETRY IdSymmetry
INVARIANTS
  TypeOK
  BookUncrossed
  OnlyLiveLimitsRest
  NoTradeThrough
  FokAllOrNothing
  FokRefusedOnlyIfShort
PROPERTIES
  QueuePositionsKept
  ImplementsPriceTimePriority
