CONSTANTS
  Nsps = {root}
  Root = root
  Created = {root}
  MaxPkts = 2
  Users = {u1}
  Shutdown = shutdown
  Timer = timer
  Eio = eio
  Background = {timer}
  NoSocket = none
  Eager = FALSE
SPECIFICATION FairSpec
PROPERTIES ClosersReturn ListedAreClosed IdleClientClosed
CHECK_DEADLOCK FALSE
