SPECIFICATION Spec
CONSTANTS
  MaxConns = 2
  MaxMessages = 0
  Breaks = {"broken"}
  Options = {TRUE}
INVARIANT SurvivesRestart
\* The system stops when the process has ended.
CHECK_DEADLOCK FALSE
