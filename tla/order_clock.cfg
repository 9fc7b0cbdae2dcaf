SPECIFICATION ClockSpec
CONSTANTS
  Ids = {o1, o2, o3}
  Prices = {1, 2}
  Quantities = {0, 1, 2}
  MaxUint = 7
  Discipline = {"fresh_ids", "limit_adds"}
  NoOrder = NoOrder
  MaxHeld = 2
SYMMETRY IdSymmetry
INVARIANT OnlyLateOrdersMisplaced
