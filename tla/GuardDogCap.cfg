SPECIFICATION Spec
CONSTANTS
    MinUptime = 0
    StartGrace = 0
    Grace = 1
    Cooldown = 1
    AlertEvery = 1
    Window = 2
    MaxDaily = 1
    MaxFails = 1
    ProcFails = 1
    Faults = {"port", "oom"}
    MaxCrashes = 0
INVARIANT CapKept
