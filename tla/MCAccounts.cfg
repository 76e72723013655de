SPECIFICATION Spec
CONSTANTS
  Process = {p1, p2}
  Connector = {mail, calendar}
  Account = {ann}
  Chat = Chat
  NoOne = NoOne
  MaxTokens = 3
  MaxMishaps = 1
CHECK_DEADLOCK FALSE
SYMMETRY Symmetry
INVARIANTS
  BoundAccountsAreKept
  DisconnectSticks
  StoredTokenWorks
  DiskIsConfig
