\* Two workers of the server that check logins at any time, one after the other
\* or at once; and an event loop with three threads that post two events each.
SPECIFICATION SharedSpec
CONSTANTS
  Workers = {w1, w2}
  MaxLogins = 3
  Posters = {self, p1, p2}
  Self = self
  MaxPosts = 2
INVARIANTS SerialInv PostInv
PROPERTIES DamageNeedsOverlap HandOver
SYMMETRY SharedSymmetry
CHECK_DEADLOCK FALSE
