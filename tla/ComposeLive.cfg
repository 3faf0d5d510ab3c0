SPECIFICATION FairSpec
CONSTANTS
    Updates = {"u1"}
    Healers = {}
    UpdateMax = 1
    MigrateHoldMax = 0
    HoldMax = 0
    Cooldown = 1
    CooldownMax = 1
    HistoryWindow = 0
    MaxFails = 1
    MaxFaults = 1

PROPERTIES Recovers MarkerGoes
