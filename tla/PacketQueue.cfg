CONSTANTS
  Adders = {a1, a2}
  Closers = {c1, c2}
  MaxBatch = 2
  MaxPackets = 3
  MaxResets = 1
SPECIFICATION FairSpec
INVARIANTS TypeOK NoLostWakeup
PROPERTIES RefinesFifo EventuallySent PollerTerminates
CHECK_DEADLOCK FALSE
