SPECIFICATION FairSpec
CONSTANTS
    NumFlows = 2
    MaxFlows = 2
    MaxChanges = 2
    MaxLoads = 1
    MaxDrops = 1
    MaxChan = 1
    MaxReqs = 2
    MaxActs = 3
CONSTRAINT FewDoings
INVARIANTS
    TypeOK
    ShowsEveryFlow
    RowsListed
    DetailRefreshes
PROPERTIES
    CatchesUp
CHECK_DEADLOCK FALSE
