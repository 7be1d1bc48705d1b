SPECIFICATION FairSpec
CONSTANTS
  t1 = t1
  t2 = t2
  Transfers <- TwoFiles
  Size <- AFileAndAnEmptyOne
  Segment = 2
  Threshold = 2
PROPERTIES
  EmptyFilesEnd
CHECK_DEADLOCK FALSE
