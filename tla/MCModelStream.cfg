SPECIFICATION FairSpec
CONSTANTS
  Streams = {s1, s2}
  MaxStreams = 1
  Capacity = 2
  MaxDeltas = 2
INVARIANTS
  SlotsBounded
  OneAnswer
  EndsWithDone
PROPERTIES
  ThreadEnds
