SPECIFICATION Spec
CONSTANTS
  Ids = {o1, o2}
  Prices = {1, 2}
  Quantities = {0, 1, 2}
  MaxUint = 7
  Discipline = {"limit_adds", "positive_adds", "passive_adds"}
  NoOrder = NoOrder
INVARIANT LiveOrdersCounted
