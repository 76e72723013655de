SPECIFICATION Spec
CHECK_DEADLOCK FALSE
CONSTANTS
  a1 = a1
  a2 = a2
  us = us
  None = None
  Process <- MCProcess
  Bundle <- MCBundle
  Us = us
  LineCapacity = 1
  BusCapacity = 2
  QueueCapacity = 1
  MaxSenders = 2
  MaxEvents = 3
  MaxStarts = 2
SYMMETRY MCAlike
INVARIANTS
  AcceptedIsCarried
  AxFollowsFront
