SPECIFICATION Spec
CONSTANTS
    sched = sched
    once = once
    backfill = backfill
    Runners = {once, backfill}
    Kind <- KindOf
    Routes = {1, 2, 3}
    FailurePolicy <- PauseDisable
    Decisions <- QuarantineThird
    Failover <- NoFailovers
    DynamicRoutes = {91}
    RetryCount = 1
    MaxEvents = 2
    MaxBatch = 2
    SnapshotLimit = 2
    DedupScope = "last_n_hours"
    RateLimits = FALSE
    Managed = {}
    Faults = {"replay_write"}
INVARIANTS SomeRouteDelivered
PROPERTIES CheckpointMovedByOwner AdvanceIsClean 
