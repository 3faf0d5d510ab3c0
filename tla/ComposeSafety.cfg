SPECIFICATION Spec
CONSTANTS
    Updates = {"u1"}
    Healers = {"h1"}
    UpdateMax = 1
    MigrateHoldMax = 1
    HoldMax = 0
    Cooldown = 1
    CooldownMax = 2
    HistoryWindow = 1
    MaxFails = 1
    MaxFaults = 1
INVARIANT ComposeExclusive
PROPERTIES SparesUpdates BackoffKept
