SPECIFICATION Spec
CONSTANTS
  c1 = c1
  c2 = c2
  Client = {c1, c2}
  MaxMessages = 3
  MaxIdle = 2
INVARIANTS
  BattlesInSync
CHECK_DEADLOCK FALSE
