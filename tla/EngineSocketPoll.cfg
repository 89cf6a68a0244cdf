CONSTANTS
    MaxUp = 0
    MaxDown = 1
    MaxFaults = 0
    Heartbeats = {FALSE}
SPECIFICATION Spec
INVARIANTS PollReturns
CHECK_DEADLOCK FALSE
