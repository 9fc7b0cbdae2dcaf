SPECIFICATION Spec
CONSTANTS
  Requests <- OffGridRequests
  MaxCalls = 4
  Grid = 4
  Ids = {1, 2, 12}
  Prices = {4, 8, 9}
  Quantities = {1, 2, 112, 113}
  MaxUint = 255
  NoOrder = NoOrder
  Malformed = Malformed
  Damageable = {"TRADE"}
  MaxDamaged = 0
CHECK_DEADLOCK FALSE
INVARIANT ReplayFollowsRecording
