SPECIFICATION Spec
CONSTANTS
  Conns = {c1, c2}
  Attrs = {a}
  Kinds = {"register", "echo", "rename", "ice"}
  Faults = {"left", "timeout"}
  MaxMessages = 2
CONSTRAINT FewMessages
SYMMETRY Symmetry
INVARIANTS
  TypeOK
  NoResurrection
  CrashNeedsFault
  PresenceComplete
PROPERTY RelaysInOrder
\* The system stops when the process has crashed or every connection is done.
CHECK_DEADLOCK FALSE
