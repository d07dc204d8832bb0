SPECIFICATION StarvationFreeSpec
CONSTANTS
  Workers = {w1, w2}
  Connections = {c1}
  None = None
  Posts = {p1}
  Users = {u1}
  Faults = {}
CHECK_DEADLOCK FALSE
PROPERTIES
  WaiterServed
