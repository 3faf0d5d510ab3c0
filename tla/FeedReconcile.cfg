SPECIFICATION FairSpec
CONSTANTS
    Uids = {"a", "b", "x"}
    Layers = {"l1", "l2"}
    LayerOf <- TwoLayers
    Modes = {"strict", "lenient", "layers"}
    MinAbsence = 2
    MassAbsence = 3
    MagFloor = 1
    DelMax = 1
    TombTTL = 2
    TombMaxSends = 1
    TombMaxPerSweep = 1
    MaxChanges = 2
    MaxFaults = 1
INVARIANT GhostsKept
PROPERTIES NoHastyDelete Converges
CHECK_DEADLOCK FALSE
