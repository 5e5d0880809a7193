\* The client object is destroyed as soon as the message was handed to send().
SPECIFICATION FairSpec
CONSTANTS
  Names = {"alice", "bob"}
  MaxUsers = 1
  ServerUp = TRUE
PROPERTIES PostTerminates
CHECK_DEADLOCK FALSE
