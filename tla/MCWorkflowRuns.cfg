SPECIFICATION RunsFairSpec
CONSTANTS
  a1 = a1
  a2 = a2
  m1 = m1
  a = a
  NoTask = NoTask
  NoKey = NoKey
  Task <- Runs
  Key <- MCKey
  KeyOf <- MCKeyOf
  Caller = {c1}
  MaxDepsRetries = 1
  Starter = {s1, s2}
  MaxTasks = 2
INVARIANTS
  OneRunPerWorkflow
  ClaimsAreOwned
  ToldOnce
  NoticeMatchesHistory
PROPERTY
  EveryRunIsReported
