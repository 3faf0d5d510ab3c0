SPECIFICATION DumpSpec
CONSTANTS
    d1 = d1
    d2 = d2
    d3 = d3
    r1 = r1
    Dumps = {d1, d2, d3}
    Restores = {r1}
    Paths = {1, 2}
    PathOf <- TwoPaths
    OldKey = OldKey
    NoFile = NoFile
    CanPersist = TRUE
    MaxKills = 2
CHECK_DEADLOCK FALSE
INVARIANTS DumpTypeOK RestoresOneWholeDump
PROPERTY OwnDumpsVerify
