\* Closing the window while a connection is being handed to a worker.
SPECIFICATION Spec
CONSTANTS
  Conns = {c1}
  NumWorkers = 1
  Requests = {"REQ_CHAT"}
  MaxWrites = 0
  Framed = TRUE
INVARIANTS LoopNeverNull
CHECK_DEADLOCK FALSE
