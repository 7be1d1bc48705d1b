SPECIFICATION FairSpec
CONSTANTS
  c1 = c1
  c2 = c2
  Consumers <- TwoConsumers
  NoConsumer = NoConsumer
  Files <- SomeFiles
  Prefill = 1
  BufferSize = 2
  MaxPackets = 2
INVARIANTS
  TypeOK
  UpstreamBound
  OneStream
  PacketsInOrder
PROPERTIES
  QuietAfterUnbind
  CallsReturn
\* The system stops when every track has been unbound.
CHECK_DEADLOCK FALSE
