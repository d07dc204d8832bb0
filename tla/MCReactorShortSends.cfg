SPECIFICATION Spec
CONSTANTS
  Conns = {c1}
  Fds = {f1}
  Workers = {w1}
  NoConn = NoConn
  NoFd = NoFd
  MaxRequests = 1
  ReadBufferSize = 2
  ResponseLength = 2
  SendBuffer = 1
  Habits = {}
  Kinds = {"plain"}
  MaxInbox = 1
  MaxStreams = 1
  MaxGeneration = 1
INVARIANT ResponseNotReplaced
