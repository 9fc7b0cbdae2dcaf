SPECIFICATION FairSpec
CONSTANTS
  Clients = {c1, c2}
  Matcher = matcher
  Owner = owner
  NoThread = NoThread
  Requests <- LateRequests
  MaxCalls = 1
  o1 = o1
  o2 = o2
  Ids = {o1, o2}
  Prices = {1}
  Quantities = {1, 2}
  MaxUint = 7
  NoOrder = NoOrder
  MaxSpurious = 1
  Nothing = Nothing
PROPERTY ReadersReturn
CHECK_DEADLOCK FALSE
