SPECIFICATION Spec
CONSTANTS
    Calls = {k1, k2}
    k1 = k1
    k2 = k2
    After = 0
    Quiet = 1
    QuietMax = 2
    WaitMax = 1
    Backlog = 0
    MaxKills = 1
    GraceDrains = TRUE
SYMMETRY CallSymmetry
INVARIANTS TypeOK CountExact OutcomeExact RecycleCutsNothing
PROPERTIES DecidesWhenQuiet ImplementsRemoteCall
