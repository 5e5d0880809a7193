\* A login while the server answers.
SPECIFICATION Spec
CONSTANTS
  Names = {"alice", "bob"}
  MaxUsers = 1
  ServerUp = TRUE
INVARIANTS UserInfoSent
CHECK_DEADLOCK FALSE
