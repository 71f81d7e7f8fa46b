\* One planning step per request, one demand per plan.
SPECIFICATION DemandSpec
CONSTANTS
    Requests <- MCPlanRequests
    PoolBytes = {1, 40000000}
    SourceBytes = {1000, 100000000}
    Operations <- MCOperations
    Growths <- MCGrowths
INVARIANTS
    TilesPartitionImage
    TilesFollowSinkOrder
    WorkDealtOnce
    OperationReadsItsTile
\* A plan is made once, and one demand.
CHECK_DEADLOCK FALSE
