SPECIFICATION FairSpec
CONSTANTS
  MaxConns = 2
  MaxMessages = 3
  Breaks = {"broken", "lost"}
  Options = {FALSE, TRUE}
INVARIANTS
  TypeOK
  HandledInOrder
  StaleLoopsEnding
PROPERTIES
  DeadConnectionsGivenUp
  SendersGoOn
\* The system stops when the process has ended.
CHECK_DEADLOCK FALSE
