SPECIFICATION Spec
CONSTANTS
    sched = sched
    once = once
    backfill = backfill
    Runners = {sched, once}
    Kind <- KindOf
    Routes = {1, 2}
    FailurePolicy <- RetryLog
    Decisions <- QuarantineSecond
    Failover <- NoFailovers
    DynamicRoutes = {}
    RetryCount = 1
    MaxEvents = 1
    MaxBatch = 2
    SnapshotLimit = 2
    DedupScope = "current_run"
    RateLimits = FALSE
    Managed = {}
    Faults = {}
INVARIANTS QuarantinedIsKept
