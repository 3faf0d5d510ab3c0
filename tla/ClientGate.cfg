SPECIFICATION FairSpec
CONSTANTS
    Clients = {"c1"}
    BootUptime = 2
    TimerAt = 3
    StaleAfter = 3
    MaxUptime = 4
    MaxBoots = 2
    MaxFaults = 1
    MaxStarts = 2
INVARIANTS RacersRecycled NothingLeftStopped
PROPERTIES GateOpens NeverShutAgain
CHECK_DEADLOCK FALSE
