SPECIFICATION Spec
CONSTANTS
  Requests <- MCRequests
  MaxCalls = 3
  Grid = 1
  Ids = {1, 2, 12}
  Prices = {1, 2}
  Quantities = {1, 2, 112, 113}
  MaxUint = 255
  NoOrder = NoOrder
  Malformed = Malformed
  Damageable = {"TRADE"}
  MaxDamaged = 0
CHECK_DEADLOCK FALSE
INVARIANT NoCorruptedCall
