CONSTANTS
  MaxDials = 3
  MaxEvents = 2
  ReconnectionAttempts = 1
SPECIFICATION FairSpec
PROPERTIES GoroutinesEnd WantedConnects
CHECK_DEADLOCK FALSE
