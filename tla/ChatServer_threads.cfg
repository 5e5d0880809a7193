\* Threads: two connections on two workers, one chat line each, whole messages,
\* safety and, under thread fairness, liveness: shutdown, delivery to the window,
\* end of file.
SPECIFICATION FairSpec
CONSTANTS
  Conns = {c1,c2}
  NumWorkers = 2
  Requests = {"REQ_CHAT"}
  MaxWrites = 1
  Framed = TRUE
INVARIANTS TypeOK ConnectionNumExact QueuedOnce
  ShutdownOrder NullLoopOnlyWhenClosing
  OwnerAlive NoCallbackAfterDestroy NothingLost Balanced
PROPERTIES AcceptOntoRunning LogSpec
  ShutdownTerminates PostedIsShown EofIsReported
CHECK_DEADLOCK FALSE
