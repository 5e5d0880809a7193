\* Two workers check a login at the same time.
SPECIFICATION Spec
CONSTANTS
  Workers = {w1, w2}
  MaxLogins = 2
INVARIANTS NotClosedWhileRunning
CHECK_DEADLOCK FALSE
