SPECIFICATION Spec
CONSTANTS
  Call = {c1, c2, c3}
  QueueSlots = 1
  PipeSlots = 1
INVARIANTS
  WaiterIsReachable
PROPERTIES
  ImplementsRpcCalls
  DeadHelperFreesAll
CHECK_DEADLOCK FALSE
