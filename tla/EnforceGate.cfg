SPECIFICATION FairSpec
CONSTANTS
    CleanSecs = 2
    TTL = 1
    MaxTime = 4
    StampMayFail = TRUE
    ThreadMayFail = TRUE
INVARIANT TypeOK
PROPERTIES FlipsOnlyWhenClean NeverFlipsItself StickyOnceEnforced CacheRefreshes
