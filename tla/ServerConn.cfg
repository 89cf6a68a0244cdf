CONSTANTS
  Nsps = {root, chat}
  Root = root
  Created = {root}
  MaxPkts = 2
  Users = {u1}
  Shutdown = shutdown
  Timer = timer
  Eio = eio
  Background = {shutdown}
  NoSocket = none
  Eager = TRUE
SPECIFICATION Spec
INVARIANTS TypeOK StoreIndex NamespaceListsConnected UnindexedOnlyInWindows SkipOnlyOnShutdown
CHECK_DEADLOCK FALSE
