SPECIFICATION FairSpec
CONSTANTS
    sched = sched
    once = once
    backfill = backfill
    Runners = {sched, once}
    Kind <- KindOf
    Routes = {1, 2}
    FailurePolicy <- RetryLog
    Decisions <- AllowAll
    Failover <- NoFailovers
    DynamicRoutes = {}
    RetryCount = 1
    MaxEvents = 1
    MaxBatch = 2
    SnapshotLimit = 2
    DedupScope = "current_run"
    RateLimits = FALSE
    Managed = {2}
    Faults = {"crash"}
PROPERTIES EventuallyCheckpointed
