\* The stream: one connection whose reads split and join its messages.
SPECIFICATION Spec
CONSTANTS
  Conns = {c1}
  NumWorkers = 1
  Requests = {"REQ_LOGIN", "REQ_CHAT"}
  MaxWrites = 2
  Framed = FALSE
INVARIANTS LogInv NothingLost
PROPERTIES LogSpec
CHECK_DEADLOCK FALSE
