CONSTANTS
  Retries = 1
  MaxEmits = 2
  MaxEvents = 1
  MaxIds = 3
  MaxActs = 3
SPECIFICATION Spec
INVARIANTS TypeOK RetryQueueKeepsPackets NothingStranded HandlersCalledOnce
CHECK_DEADLOCK FALSE
