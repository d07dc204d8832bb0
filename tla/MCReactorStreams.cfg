\* One client and its object, whose event stream the sweep may enter while a
\* worker builds its response.
SPECIFICATION FairSpec
CONSTANTS
  Conns = {c1}
  Fds = {f1}
  Workers = {w1, w2}
  NoConn = NoConn
  NoFd = NoFd
  MaxRequests = 2
  ReadBufferSize = 2
  ResponseLength = 2
  SendBuffer = 2
  Habits = {}
  Kinds = {"plain", "stream"}
  MaxInbox = 2
  MaxStreams = 1
  MaxGeneration = 2
INVARIANTS
  OneUserPerConnection
  NoForgottenConnection
  ResponseNotReplaced
PROPERTIES
  RequestKept
  DispatchCompletes
