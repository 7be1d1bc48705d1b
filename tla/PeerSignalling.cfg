SPECIFICATION FairSpec
CONSTANTS
  MaxConns = 2
  MaxInputs = 3
  MaxPlays = 2
  MaxAtWork = 2
  MaxICERestartAttempts = 1
INVARIANTS
  TypeOK
  OrphansExplained
  AppliedInOrder
  QueueDrained
  OneTrack
PROPERTY FailingEnds
\* The system stops when Serve has ended and the connections are closed.
CHECK_DEADLOCK FALSE
