SPECIFICATION FairSpec
CONSTANTS
  Producers = {p1, p2, p3}
  Consumers = {c1, c2}
  Closers = {s1}
  Items = {i1, i2, i3}
  MaxSpurious = 2
  NoThread = NoThread
INVARIANTS
  TypeOK
  NothingLostOrReordered
  NoLostWakeup
PROPERTIES
  DrainedBeforeNothing
  Delivered
  ConsumersEnd
CHECK_DEADLOCK FALSE
