CONSTANTS
    MaxUp = 2
    MaxDown = 2
    MaxFaults = 1
    Heartbeats = {FALSE}
SPECIFICATION Spec
INVARIANTS TypeOK PacketsInOrder NothingLost TransportsFollow
CHECK_DEADLOCK FALSE
