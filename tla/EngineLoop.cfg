SPECIFICATION FairEngineSpec
CONSTANTS
  Producers = {p1, p2}
  Orders = {o1, o2}
  Cap = 4
  NoOrder = NoOrder
  Users = {u1, u2}
  CancelCap = 1
  SyncOrders = {o1}
  BadOrders = {o2}
INVARIANTS
  IntakeSound
PROPERTIES
  BacklogIsProcessed
  CallsReturn
CHECK_DEADLOCK FALSE
