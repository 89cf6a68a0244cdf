CONSTANTS
    MaxUp = 0
    MaxDown = 0
    MaxFaults = 1
    Heartbeats = {TRUE}
SPECIFICATION FairSpec
PROPERTIES PeersFollow
CHECK_DEADLOCK FALSE
