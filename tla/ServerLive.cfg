SPECIFICATION FairSpec
CONSTANTS
  Conns = {c1, c2}
  Attrs = {}
  Kinds = {"register"}
  Faults = {"left", "lost", "timeout"}
  MaxMessages = 1
PROPERTIES
  GoneClientsDropped
  GoroutinesEnd
  WritesEnd
\* The system stops when the process has crashed or every connection is done.
CHECK_DEADLOCK FALSE
