SPECIFICATION RefSpec
CONSTANTS
  Clients = {c1, c2}
  Matcher = matcher
  Owner = owner
  NoThread = NoThread
  Requests <- FewRequests
  MaxCalls = 2
  o1 = o1
  o2 = o2
  Ids = {o1, o2}
  Prices = {1}
  Quantities = {1, 2}
  MaxUint = 7
  NoOrder = NoOrder
  MaxSpurious = 0
  Nothing = Nothing
SYMMETRY ClientSymmetry
INVARIANTS
  TypeOK
  EarlyRequestsAnswered
  ProgramOrder
PROPERTIES
  QuietAfterStop
  ImplementsService
CHECK_DEADLOCK FALSE
