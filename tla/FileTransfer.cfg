SPECIFICATION FairSpec
CONSTANTS
  t1 = t1
  t2 = t2
  Transfers <- TwoFiles
  Size <- AFileAndAnEmptyOne
  Segment = 2
  Threshold = 2
INVARIANTS
  TypeOK
  FilesArriveWhole
  ProgressHonest
PROPERTIES
  TransfersEnd
\* The system stops when the files have been sent, or the connection is lost.
CHECK_DEADLOCK FALSE
