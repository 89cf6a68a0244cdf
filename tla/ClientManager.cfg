CONSTANTS
  MaxDials = 2
  MaxEvents = 3
  ReconnectionAttempts = 1
SPECIFICATION Spec
INVARIANTS TypeOK SubscribedIsCurrent OneListener
CHECK_DEADLOCK FALSE
