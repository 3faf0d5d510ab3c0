SPECIFICATION FairSpec
CONSTANTS
    Calls = {k1}
    k1 = k1
    After = 1
    Quiet = 1
    QuietMax = 2
    WaitMax = 2
    Backlog = 0
    MaxKills = 2
    GraceDrains = FALSE
PROPERTIES CallsSettle 
