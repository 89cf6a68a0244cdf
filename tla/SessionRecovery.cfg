CONSTANTS
  D = 1
  MaxConns = 3
  MaxPackets = 2
  MaxBoth = 4
  MaxLen = 1
SPECIFICATION Spec
INVARIANTS TypeOK NothingMissed NothingRepeated ConnectedIsRegistered SessionHeldOnce
CHECK_DEADLOCK FALSE
