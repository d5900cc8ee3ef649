SPECIFICATION FairSpec

CONSTANTS
    Calls = {c1, c2}
    PoolSize = 1
    Urls = {0, 1, 2}
    UsableUrls = {0, 1}
    MaxStored = 1

INVARIANTS
    TypeOK
    LogMatchesAnswer
    UrlIsFresh
    PageMatchesTotal
PROPERTIES
    LogSpec
    LoopReleased
    DispatchEnds

\* Every query has ended: the model ends.
CHECK_DEADLOCK FALSE
