\* Two ordinary clients: hand-off, reuse of objects, full job queue, lost wake-ups.
SPECIFICATION Spec
CONSTANTS
  Conns = {c1, c2}
  Fds = {f1, f2}
  Workers = {w1}
  NoConn = NoConn
  NoFd = NoFd
  MaxRequests = 1
  ReadBufferSize = 1
  ResponseLength = 1
  SendBuffer = 1
  Habits = {}
  Kinds = {"plain"}
  MaxInbox = 1
  MaxStreams = 0
  MaxGeneration = 2
SYMMETRY Symmetry
INVARIANTS
  PoolConserved
  EveryConnectionExpires
  NoLostNotification
