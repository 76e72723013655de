SPECIFICATION LearnerSpec
CONSTANTS
  long = long
  short = short
  ChatThread <- Threads
  MaxMessages <- MCMaxMessages
  MaxTroubles = 1
INVARIANTS
  NoDoubleQueue
  SkipsAreExplained
