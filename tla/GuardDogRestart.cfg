SPECIFICATION FairSpec
CONSTANTS
    MinUptime = 0
    StartGrace = 1
    Grace = 2
    Cooldown = 2
    AlertEvery = 1
    Window = 2
    MaxDaily = 1
    MaxFails = 1
    ProcFails = 1
    Faults = {"port"}
    MaxCrashes = 1
INVARIANT CapKept
PROPERTIES CooldownKept LockersKeepGrace LockReleased
