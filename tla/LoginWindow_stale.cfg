\* A login while the registration window is open.
SPECIFICATION Spec
CONSTANTS
  Names = {"alice", "bob"}
  MaxUsers = 3
  ServerUp = TRUE
INVARIANTS RegistAsConfirmed
CHECK_DEADLOCK FALSE
