SPECIFICATION FairSpec
CONSTANTS
  a = a
  b = b
  c = c
  d = d
  Chunks <- MCChunks
  Size <- MCSize
  MaxQueuedBytes = 2
INVARIANTS
  TypeOK
  NoLostWakeup
  NothingAfterCancel
  DrainedIsEmpty
  Bounded
PROPERTIES
  ImplementsChannel
  PushReturns
