SPECIFICATION Spec
CONSTANTS
    sched = sched
    once = once
    backfill = backfill
    Runners = {sched, once}
    Kind <- KindOf
    Routes = {1, 2}
    FailurePolicy <- RetryLog
    Decisions <- AllowAll
    Failover <- FirstHasFailover
    DynamicRoutes = {}
    RetryCount = 1
    MaxEvents = 2
    MaxBatch = 2
    SnapshotLimit = 2
    DedupScope = "off"
    RateLimits = TRUE
    Managed = {}
    Faults = {"crash", "exception", "commit"}
INVARIANTS TypeOK EveryRouteAccounted AbsorbedIsReplayable RunsAreExclusive
PROPERTIES KeepsPromise CommitGoesForward
