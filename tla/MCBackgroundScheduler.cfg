SPECIFICATION FairSpec
CONSTANTS
  a1 = a1
  a2 = a2
  m1 = m1
  a = a
  NoTask = NoTask
  NoKey = NoKey
  Task <- MCTask
  Key <- MCKey
  KeyOf <- MCKeyOf
  Caller = {c1}
  MaxDepsRetries = 2
INVARIANTS
  OnePlace
  NoLostWakeup
  SignalsCurrentRun
  OrphansAreCancelled
PROPERTIES
  IsSerialQueue
