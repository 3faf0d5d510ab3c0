SPECIFICATION Spec
CONSTANTS
    Jobs = {"j1", "j2"}
    Keys = {"k1", "k2"}
    SameStamp = FALSE
    MaxSaves = 3
    MaxFaults = 2
INVARIANT ReadsCurrent
PROPERTIES CoreKept TornSaveKeepsRest DeletesHonoured
CHECK_DEADLOCK FALSE
