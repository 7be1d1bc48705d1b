SPECIFICATION FairSpec
CONSTANTS
  Kinds = {"clock", "counter", "chat"}
  Chats = {c1, c2}
  Peers = {p1, p2}
  MaxCommands = 4
  MaxClocks = 2
  MaxRetries = 2
INVARIANTS
  TypeOK
  IncreasesCounted
  HistoryKept
  OneClock
PROPERTIES
  ClocksEnd
\* The system stops when every command has been handled.
CHECK_DEADLOCK FALSE
