SPECIFICATION Spec
CONSTANTS
  Ids = {o1, o2, o3}
  Prices = {1, 2}
  Quantities = {0, 1, 2}
  MaxUint = 2
  Discipline = {"fresh_ids", "limit_adds", "positive_adds", "passive_adds"}
  NoOrder = NoOrder
INVARIANT FokRefusedOnlyIfShort
