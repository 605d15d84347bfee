SPECIFICATION OpsSpec
CONSTANTS
  o1 = o1
  c1 = c1
  c2 = c2
  Operation = {o1}
  Client = {c1, c2}
  Creator = {c1}
  Request <- MCRequest
  QueueCap = 2
  MaxChunks = 1
INVARIANTS
    EventsAccounted
    EndsHonestly
PROPERTIES
    StreamAnswered
CHECK_DEADLOCK FALSE
