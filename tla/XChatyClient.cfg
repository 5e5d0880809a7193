\* The chat window of the client with three TcpClients, one after the other,
\* and the file transport on two files.
SPECIFICATION MCSpec
CONSTANTS
  ServerUp = FALSE
  MaxClients = 3
  MaxTexts = 1
  MaxLines = 4
  Names = {"f", "g"}
  PakSize = 2
  MaxSize = 4
INVARIANTS TypeOK OneHeartbeat NoPostAfterClose LogInv NeverStuck PackLoopInv
PROPERTIES HloopFreedOnce LifeSpec LogSpec HeartbeatsEnd GuiReturns
CHECK_DEADLOCK FALSE
