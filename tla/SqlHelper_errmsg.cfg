\* A login whose query fails, then the end of the program.
SPECIFICATION Spec
CONSTANTS
  Workers = {w1, w2}
  MaxLogins = 2
INVARIANTS ErrmsgDeletable
CHECK_DEADLOCK FALSE
