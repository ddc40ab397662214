SPECIFICATION ConnectSpec
CONSTANTS
    Pool = {p1, p2}
    Main = main
    N = 2
    MaxInits = 1
    Others = {other}
    Calls = {c1, c2}
    Slots = {1}
INVARIANTS WellTyped RegisterExclusive NoSlotLeak RegisteredHasWorker OneApp QuietAfterPrewarm BarrierFills WorkerUnlessUnsettled
INVARIANT HandlesLive
PROPERTIES PrewarmReturns LeaksOnlyThere ConnectReturns
CHECK_DEADLOCK FALSE
