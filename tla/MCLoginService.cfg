SPECIFICATION Spec
CONSTANTS
  Workers = {w1, w2}
  Reactors = {r1}
  MaxRequests = 1
  Addresses = {ip}
  Names = {n1}
  Keys = {ip, n1}
  MaxCount = 2
  Window = 1
  BlockTicks = 2
  NoRecord = NoRecord
  LogCapacity = 2
  NoLine = NoLine
  NoJob = NoJob
SYMMETRY Symmetric
CHECK_DEADLOCK FALSE
INVARIANTS JobsAreAnnounced LinesInOrder
PROPERTIES FreezeIsEarned FreezeSurvivesNewAttempts
