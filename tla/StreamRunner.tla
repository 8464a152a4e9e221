---------------------------- MODULE StreamRunner ----------------------------
(***************************************************************************)
(* One stream of the Data Relay runtime and every StreamRunner that can    *)
(* execute it: the scheduler's worker, the run-once request and the        *)
(* backfill worker (app/runners/stream_runner.py and the per-route stages  *)
(* it calls).  A run loads a context, takes the run lock, fetches a batch  *)
(* after the checkpoint, sends the batch to each enabled route under the   *)
(* route's policy decision and failure policy, stages its database writes  *)
(* in memory and commits them in one transaction at the end.               *)
(*                                                                         *)
(* Events are numbered in source order; a checkpoint is the number of the  *)
(* last event it covers and 0 stands for "no checkpoint row".              *)
(***************************************************************************)
EXTENDS Integers, FiniteSets

CONSTANTS
    Runners,        \* the processes/threads that may run this stream
    Kind,           \* [Runners -> {"scheduler", "run_once", "backfill"}]
    Routes,         \* route ids, processed in increasing order
    FailurePolicy,  \* [Routes -> Policies]
    Decisions,      \* [Routes -> SUBSET PolicyDecisions] the rules may reach
    Failover,       \* [Routes -> BOOLEAN] a failover binding exists
    DynamicRoutes,  \* dynamic routes the stream may match
    RetryCount,     \* route.retry_count
    MaxEvents,      \* bound on the number of events the source produces
    MaxBatch,       \* page size of one fetch
    SnapshotLimit,  \* events a replay or quarantine row keeps (500 in the code)
    DedupScope,     \* "off", "current_run" or "last_n_hours"
    RateLimits,     \* whether rate_limit_json is configured
    Managed,        \* routes whose switches the operator uses
    Faults          \* subset of {"crash", "exception", "commit", "replay_write"}

Policies == {"LOG_AND_CONTINUE", "PAUSE_STREAM_ON_FAILURE",
             "DISABLE_ROUTE_ON_FAILURE", "RETRY_AND_BACKOFF"}
Withholding == {"quarantine", "block", "require_review"}
PolicyDecisions == {"allow"} \cup Withholding
Statuses == {"RUNNING", "PAUSED", "RATE_LIMITED_SOURCE",
             "RATE_LIMITED_DESTINATION"}
\* Send errors, told apart by what failover and replay make of them:
\* connect/timeout/5xx, HTTP 429 (or an AI policy block), any other refusal.
Errors == {"unavailable", "throttled", "rejected"}
Events == 1..MaxEvents
NoRunner == "none"
NoRoute == 0

ASSUME RunnersAssumption ==
    /\ NoRunner \notin Runners
    /\ Kind \in [Runners -> {"scheduler", "run_once", "backfill"}]
ASSUME RoutesAssumption ==
    /\ IsFiniteSet(Routes)
    /\ Routes \subseteq Nat \ {0}
    /\ Routes \cap DynamicRoutes = {}
    /\ FailurePolicy \in [Routes -> Policies]
    /\ Decisions \in [Routes -> SUBSET PolicyDecisions]
    /\ Failover \in [Routes -> BOOLEAN]
ASSUME BoundsAssumption ==
    /\ RetryCount \in Nat
    /\ MaxEvents \in Nat
    /\ MaxBatch \in Nat
    /\ SnapshotLimit \in Nat
    /\ DedupScope \in {"off", "current_run", "last_n_hours"}
    /\ RateLimits \in BOOLEAN
    /\ Managed \subseteq Routes

VARIABLES
    \* the outside world
    source,      \* events the source holds: 1..source
    delivered,   \* <<route, event>> accepted by the route's destination pair
    \* the database
    checkpoint, status, routeOn, destOn, registry, quarantine, replayRows,
    \* the cross-process run lock
    lock,
    \* the runners
    pc, ctx, dry, batch, todo, dtodo, cur, err, fo, tries, recovered, res, pend,
    \* history: <<route, event, reason>> a committed checkpoint passed over
    waived

world == <<source, delivered>>
db == <<checkpoint, status, routeOn, destOn, registry, quarantine, replayRows>>
attempt == <<cur, err, fo, tries, recovered>>
locals == <<pc, ctx, dry, batch, todo, dtodo, attempt, res, pend>>
vars == <<world, db, lock, locals, waived>>

Results == {"none", "delivered", "absorbed", "dropped", "failed", "limited",
            "dest_off"} \cup Withholding
PCs == {"idle", "enter", "collect", "routes", "failover", "policy", "retry",
        "record", "dynamic", "flush", "release"}

\* Staged writes of a run: _pending_stream_status, _pending_disabled_routes,
\* _pending_checkpoint, the staged dedup_registry rows, and the quarantine
\* rows flushed but not yet committed on the caller's session.
Writes(st, off, cp, reg, quar) ==
    [status |-> st, off |-> off, cp |-> cp, reg |-> reg, quar |-> quar]
NoWrites == Writes("none", {}, 0, {}, {})
NoContext == [cp |-> 0, routes |-> {}, dests |-> {}]
NoResults == [r \in Routes |-> "none"]

TypeOK ==
    /\ source \in 0..MaxEvents
    /\ delivered \subseteq Routes \X Events
    /\ checkpoint \in 0..MaxEvents
    /\ status \in Statuses
    /\ routeOn \subseteq Routes
    /\ destOn \subseteq Routes
    /\ registry \subseteq Events
    /\ quarantine \subseteq Routes \X Events
    /\ replayRows \subseteq (Routes \cup DynamicRoutes) \X Events
    /\ lock \in Runners \cup {NoRunner}
    /\ pc \in [Runners -> PCs]
    /\ ctx \in [Runners -> [cp : 0..MaxEvents, routes : SUBSET Routes,
                            dests : SUBSET Routes]]
    /\ dry \in [Runners -> BOOLEAN]
    /\ batch \in [Runners -> SUBSET Events]
    /\ todo \in [Runners -> SUBSET Routes]
    /\ dtodo \in [Runners -> SUBSET DynamicRoutes]
    /\ cur \in [Runners -> Routes \cup {NoRoute}]
    /\ err \in [Runners -> Errors \cup {"none"}]
    /\ fo \in [Runners -> {"none", "skipped", "failed"}]
    /\ tries \in [Runners -> 0..RetryCount]
    /\ recovered \in [Runners -> BOOLEAN]
    /\ res \in [Runners -> [Routes -> Results]]
    /\ pend \in [Runners -> [status : Statuses \cup {"none"},
                             off : SUBSET Routes, cp : 0..MaxEvents,
                             reg : SUBSET Events,
                             quar : SUBSET (Routes \X Events)]]
    /\ waived \subseteq Routes \X Events \X (Results \cup {"route_off"})

Init ==
    /\ source = 0
    /\ delivered = {}
    /\ checkpoint = 0
    /\ status = "RUNNING"
    /\ routeOn = Routes
    /\ destOn = Routes
    /\ registry = {}
    /\ quarantine = {}
    /\ replayRows = {}
    /\ lock = NoRunner
    /\ pc = [p \in Runners |-> "idle"]
    /\ ctx = [p \in Runners |-> NoContext]
    /\ dry = [p \in Runners |-> FALSE]
    /\ batch = [p \in Runners |-> {}]
    /\ todo = [p \in Runners |-> {}]
    /\ dtodo = [p \in Runners |-> {}]
    /\ cur = [p \in Runners |-> NoRoute]
    /\ err = [p \in Runners |-> "none"]
    /\ fo = [p \in Runners |-> "none"]
    /\ tries = [p \in Runners |-> 0]
    /\ recovered = [p \in Runners |-> FALSE]
    /\ res = [p \in Runners |-> NoResults]
    /\ pend = [p \in Runners |-> NoWrites]
    /\ waived = {}

(***************************************************************************)
(* What distinguishes the callers of StreamRunner.run                      *)
(***************************************************************************)
\* The scheduler passes no session; the API request and the backfill worker do.
HasSession(p) == Kind[p] # "scheduler"
\* Mutant: persist_checkpoint is ignored.
AlwaysPersists(p) == TRUE
\* StreamContext.persist_checkpoint: cleared only for a backfill.
PersistsCheckpoint(p) == Kind[p] # "backfill"
\* replay_start/replay_end are set only for a backfill.
InReplayWindow(p) == Kind[p] = "backfill"
\* Only the scheduler's long-lived runner can find its rate window used up:
\* the others build a fresh StreamRunner, whose first allow() succeeds.
MayBeLimited(p) == RateLimits /\ Kind[p] = "scheduler"

\* is_failover_eligible_error and is_replay_record_eligible.
FailoverEligible(e) == e = "unavailable"
ReplayEligible(e) == e # "throttled"

Pairs(r, E) == {r} \X E
\* _snapshot_events: the first events of a batch, up to the limit.
Snapshot(E) == {e \in E : Cardinality({f \in E : f <= e}) <= SnapshotLimit}
\* The route the process_routes loop is at.
IsNext(p, r) == r \in todo[p] /\ \A q \in todo[p] : r <= q

\* Staging one write of runner p: _set_stream_status, _set_route_enabled,
\* _pending_checkpoint, the dedup registry rows, the quarantine row.
StageStatus(p, st) ==
    pend' = [pend EXCEPT ![p] = Writes(st, @.off, @.cp, @.reg, @.quar)]
\* Mutant: the keys of a batch the route did not get are staged as well.
StageDisabledRouteAndKeys(p, r) ==
    pend' = [pend EXCEPT
        ![p] = Writes(@.status, @.off \cup {r}, @.cp, @.reg \cup batch[p], @.quar)]
StageDisabledRoute(p, r) ==
    pend' = [pend EXCEPT ![p] = Writes(@.status, @.off \cup {r}, @.cp, @.reg, @.quar)]
StageCheckpoint(p, k) ==
    pend' = [pend EXCEPT ![p] = Writes(@.status, @.off, k, @.reg, @.quar)]
StageRegistry(p, keys) ==
    pend' = [pend EXCEPT ![p] = Writes(@.status, @.off, @.cp, @.reg \cup keys, @.quar)]
\* Mutant: the quarantine row is not added to the session.
StageNothing(p, rows) == UNCHANGED pend
StageQuarantine(p, rows) ==
    pend' = [pend EXCEPT ![p] = Writes(@.status, @.off, @.cp, @.reg, @.quar \cup rows)]

(***************************************************************************)
(* Context, lock and source                                                *)
(***************************************************************************)
Load(p) ==
    /\ pc[p] = "idle"
    /\ routeOn # {}
    /\ Kind[p] = "scheduler" => status = "RUNNING"
    /\ ctx' = [ctx EXCEPT ![p] = [cp |-> checkpoint, routes |-> routeOn,
                                  dests |-> destOn]]
    /\ \E d \in IF Kind[p] = "backfill" THEN BOOLEAN ELSE {FALSE} :
            dry' = [dry EXCEPT ![p] = d]
    /\ pc' = [pc EXCEPT ![p] = "enter"]
    /\ UNCHANGED <<world, db, lock, batch, todo, dtodo, attempt, res, pend, waived>>

\* Mutant: the run lock is not consulted.
LockIgnored == TRUE
\* try_acquire_stream_run_lock succeeds.
LockAvailable == lock = NoRunner

SkipLocked(p) ==
    /\ pc[p] = "enter"
    /\ ~LockAvailable
    /\ pc' = [pc EXCEPT ![p] = "idle"]
    /\ ctx' = [ctx EXCEPT ![p] = NoContext]
    /\ dry' = [dry EXCEPT ![p] = FALSE]
    /\ pend' = [pend EXCEPT ![p] = NoWrites]
    /\ UNCHANGED <<world, db, lock, batch, todo, dtodo, attempt, res, waived>>

\* The context's checkpoint is used as loaded; only a missing one is read again
\* under the lock.
ResolvedCheckpoint(p) == IF ctx[p].cp = 0 THEN checkpoint ELSE ctx[p].cp

Enter(p) ==
    /\ pc[p] = "enter"
    /\ LockAvailable
    /\ lock' = p
    /\ ctx' = [ctx EXCEPT ![p] = [cp |-> ResolvedCheckpoint(p), routes |-> @.routes,
                                  dests |-> @.dests]]
    /\ pend' = [pend EXCEPT ![p] = NoWrites]
    /\ pc' = [pc EXCEPT ![p] = "collect"]
    /\ UNCHANGED <<world, db, dry, batch, todo, dtodo, attempt, res, waived>>

LimitSource(p) ==
    /\ pc[p] = "collect"
    /\ MayBeLimited(p)
    /\ StageStatus(p, "RATE_LIMITED_SOURCE")
    /\ pc' = [pc EXCEPT ![p] = "flush"]
    /\ UNCHANGED <<world, db, lock, ctx, dry, batch, todo, dtodo, attempt, res,
                   waived>>

\* Mutant: the page starts at the checkpoint instead of after it.
FetchableAgain(p) ==
    {{k \in 1..source : ctx[p].cp <= k /\ k <= b} : b \in 0..source}
\* What a source adapter may return: a page of the events after the
\* checkpoint, or for a backfill any part of the requested time window.
Fetchable(p) ==
    IF InReplayWindow(p)
    THEN {a..b : a \in 1..source, b \in 0..source}
    ELSE {(ctx[p].cp + 1)..b : b \in {k \in ctx[p].cp..source : k <= ctx[p].cp + MaxBatch}}
         \cup {{}}

\* Keys of earlier deliveries are loaded only through a session and only for
\* a scope wider than the run.
SeedKeys(p) == IF HasSession(p) /\ DedupScope = "last_n_hours" THEN registry ELSE {}

Collect(p) ==
    /\ pc[p] = "collect"
    /\ \E F \in Fetchable(p) :
        /\ batch' = [batch EXCEPT ![p] = F \ SeedKeys(p)]
        /\ IF F \ SeedKeys(p) = {} \/ dry[p]
           THEN /\ pc' = [pc EXCEPT ![p] = "flush"]
                /\ UNCHANGED todo
           ELSE /\ pc' = [pc EXCEPT ![p] = "routes"]
                /\ todo' = [todo EXCEPT ![p] = ctx[p].routes]
    /\ UNCHANGED <<world, db, lock, ctx, dry, dtodo, attempt, res, pend, waived>>

(***************************************************************************)
(* One route: policy stage, limiter, primary send                          *)
(***************************************************************************)
\* The locals of one _send_route_events call go out of scope.
ClearAttempt(p) ==
    /\ cur' = [cur EXCEPT ![p] = NoRoute]
    /\ err' = [err EXCEPT ![p] = "none"]
    /\ fo' = [fo EXCEPT ![p] = "none"]
    /\ tries' = [tries EXCEPT ![p] = 0]
    /\ recovered' = [recovered EXCEPT ![p] = FALSE]

\* The loop goes on to the next route with this route's result recorded.
FinishRoute(p, r, result) ==
    /\ res' = [res EXCEPT ![p][r] = result]
    /\ todo' = [todo EXCEPT ![p] = @ \ {r}]
    /\ pc' = [pc EXCEPT ![p] = "routes"]
    /\ ClearAttempt(p)

\* The policy decision withholds the batch from the route.  The quarantine row
\* is added to the caller's session, if there is one.
Withhold(p, r) ==
    /\ pc[p] = "routes"
    /\ IsNext(p, r)
    /\ \E d \in Decisions[r] \cap Withholding :
        /\ FinishRoute(p, r, d)
        /\ StageQuarantine(p, IF d = "quarantine" /\ HasSession(p)
                              THEN Pairs(r, Snapshot(batch[p])) ELSE {})
    /\ UNCHANGED <<world, db, lock, ctx, dry, batch, dtodo, waived>>

SkipDisabledDestination(p, r) ==
    /\ pc[p] = "routes"
    /\ IsNext(p, r)
    /\ "allow" \in Decisions[r]
    /\ r \notin ctx[p].dests
    /\ FinishRoute(p, r, "dest_off")
    /\ UNCHANGED <<world, db, lock, ctx, dry, batch, dtodo, pend, waived>>

LimitDestination(p, r) ==
    /\ pc[p] = "routes"
    /\ IsNext(p, r)
    /\ "allow" \in Decisions[r]
    /\ r \in ctx[p].dests
    /\ MayBeLimited(p)
    /\ FinishRoute(p, r, "limited")
    /\ StageStatus(p, "RATE_LIMITED_DESTINATION")
    /\ UNCHANGED <<world, db, lock, ctx, dry, batch, dtodo, waived>>

\* The registry keys a successful send stages when dedup is configured.
DedupKeys(p) == IF DedupScope = "off" THEN {} ELSE batch[p]

\* The primary send succeeds: the whole batch is at the destination and its
\* dedup keys are staged.
SendSucceeds(p, r) ==
    /\ pc[p] = "routes"
    /\ IsNext(p, r)
    /\ "allow" \in Decisions[r]
    /\ r \in ctx[p].dests
    /\ delivered' = delivered \cup Pairs(r, batch[p])
    /\ FinishRoute(p, r, "delivered")
    /\ StageRegistry(p, DedupKeys(p))
    /\ UNCHANGED <<source, db, lock, ctx, dry, batch, dtodo, waived>>

\* The primary send raises.  Any part of the batch may have arrived.
SendFails(p, r) ==
    /\ pc[p] = "routes"
    /\ IsNext(p, r)
    /\ "allow" \in Decisions[r]
    /\ r \in ctx[p].dests
    /\ \E got \in SUBSET batch[p] :
            delivered' = delivered \cup Pairs(r, got)
    /\ \E e \in Errors : err' = [err EXCEPT ![p] = e]
    /\ cur' = [cur EXCEPT ![p] = r]
    /\ fo' = [fo EXCEPT ![p] = "none"]
    /\ recovered' = [recovered EXCEPT ![p] = FALSE]
    /\ pc' = [pc EXCEPT ![p] = "failover"]
    /\ UNCHANGED <<source, db, lock, ctx, dry, batch, todo, dtodo,
                   tries, res, pend, waived>>

(***************************************************************************)
(* One route after a failed send: failover, failure policy, replay row     *)
(***************************************************************************)
NoFailover(p) ==
    /\ pc[p] = "failover"
    /\ ~(Failover[cur[p]] /\ FailoverEligible(err[p]))
    /\ pc' = [pc EXCEPT ![p] = "policy"]
    /\ UNCHANGED <<world, db, lock, ctx, dry, batch, todo, dtodo, attempt, res,
                   pend, waived>>

\* The secondary is disabled or limited ("skipped"), or its send raises.
FailoverFails(p) ==
    /\ pc[p] = "failover"
    /\ Failover[cur[p]] /\ FailoverEligible(err[p])
    /\ \E f \in {"skipped", "failed"}, got \in SUBSET batch[p] :
        /\ f = "skipped" => got = {}
        /\ fo' = [fo EXCEPT ![p] = f]
        /\ delivered' = delivered \cup Pairs(cur[p], got)
    /\ pc' = [pc EXCEPT ![p] = "policy"]
    /\ UNCHANGED <<source, db, lock, ctx, dry, batch, todo, dtodo,
                   cur, err, tries, recovered, res, pend, waived>>

FailoverSucceeds(p) ==
    /\ pc[p] = "failover"
    /\ Failover[cur[p]] /\ FailoverEligible(err[p])
    /\ delivered' = delivered \cup Pairs(cur[p], batch[p])
    /\ FinishRoute(p, cur[p], "delivered")
    /\ UNCHANGED <<source, db, lock, ctx, dry, batch, dtodo, pend, waived>>

\* _apply_failure_policy, one action per policy.
LogAndContinue(p) ==
    /\ pc[p] = "policy"
    /\ FailurePolicy[cur[p]] = "LOG_AND_CONTINUE"
    /\ recovered' = [recovered EXCEPT ![p] = TRUE]
    /\ pc' = [pc EXCEPT ![p] = "record"]
    /\ UNCHANGED <<world, db, lock, ctx, dry, batch, todo, dtodo, cur, err, fo,
                   tries, res, pend, waived>>

PauseStream(p) ==
    /\ pc[p] = "policy"
    /\ FailurePolicy[cur[p]] = "PAUSE_STREAM_ON_FAILURE"
    /\ StageStatus(p, "PAUSED")
    /\ pc' = [pc EXCEPT ![p] = "record"]
    /\ UNCHANGED <<world, db, lock, ctx, dry, batch, todo, dtodo, attempt, res,
                   waived>>

DisableRoute(p) ==
    /\ pc[p] = "policy"
    /\ FailurePolicy[cur[p]] = "DISABLE_ROUTE_ON_FAILURE"
    /\ StageDisabledRoute(p, cur[p])
    /\ pc' = [pc EXCEPT ![p] = "record"]
    /\ UNCHANGED <<world, db, lock, ctx, dry, batch, todo, dtodo, attempt, res,
                   waived>>

StartRetry(p) ==
    /\ pc[p] = "policy"
    /\ FailurePolicy[cur[p]] = "RETRY_AND_BACKOFF"
    /\ tries' = [tries EXCEPT ![p] = 0]
    /\ pc' = [pc EXCEPT ![p] = "retry"]
    /\ UNCHANGED <<world, db, lock, ctx, dry, batch, todo, dtodo, cur, err, fo,
                   recovered, res, pend, waived>>

\* Mutant: one attempt too many.
RetriesLeftOrEven(p) == tries[p] <= RetryCount
RetriesLeft(p) == tries[p] < RetryCount

RetrySucceeds(p) ==
    /\ pc[p] = "retry"
    /\ RetriesLeft(p)
    /\ delivered' = delivered \cup Pairs(cur[p], batch[p])
    /\ StageRegistry(p, DedupKeys(p))
    /\ recovered' = [recovered EXCEPT ![p] = TRUE]
    /\ pc' = [pc EXCEPT ![p] = "record"]
    /\ UNCHANGED <<source, db, lock, ctx, dry, batch, todo, dtodo,
                   cur, err, fo, tries, res, waived>>

RetryFails(p) ==
    /\ pc[p] = "retry"
    /\ RetriesLeft(p)
    /\ \E got \in SUBSET batch[p] :
            delivered' = delivered \cup Pairs(cur[p], got)
    /\ tries' = [tries EXCEPT ![p] = @ + 1]
    /\ UNCHANGED <<source, db, lock, pc, ctx, dry, batch, todo, dtodo,
                   cur, err, fo, recovered, res, pend, waived>>

\* Mutant: no row for a failure the policy recovered from.
ReplayRowUnlessRecovered(p, r, e) ==
    IF ~InReplayWindow(p) /\ ReplayEligible(e) /\ ~recovered[p]
    THEN Pairs(r, Snapshot(batch[p])) ELSE {}
\* The row _maybe_record_replay_event writes: none for a backfill window, none
\* for an error that is not replay-eligible.
ReplayRow(p, r, e) ==
    IF ~InReplayWindow(p) /\ ReplayEligible(e)
    THEN Pairs(r, Snapshot(batch[p])) ELSE {}

\* The row is committed at once in a session of its own; an error of that
\* write is logged and swallowed.
RecordReplay(p, r, e) ==
    \/ replayRows' = replayRows \cup ReplayRow(p, r, e)
    \/ "replay_write" \in Faults /\ replayRows' = replayRows

RetryExhausted(p) ==
    /\ pc[p] = "retry"
    /\ tries[p] = RetryCount
    /\ \E e \in Errors : RecordReplay(p, cur[p], e)
    /\ pc' = [pc EXCEPT ![p] = "record"]
    /\ UNCHANGED <<world, checkpoint, status, routeOn, destOn, registry, quarantine,
                   lock, ctx, dry, batch, todo, dtodo, attempt, res, pend, waived>>

\* Mutant: an exhausted retry counts as a recovery.
ForgivingRouteResult(p) ==
    IF fo[p] # "none" THEN "failed"
    ELSE IF FailurePolicy[cur[p]] # "LOG_AND_CONTINUE" THEN "delivered"
    ELSE IF ReplayEligible(err[p]) THEN "absorbed"
    ELSE "dropped"
\* The outcome of a route whose primary send failed and whose failover, if
\* any, did not succeed: an attempted failover that failed overrides the
\* policy's recovery.
FailedRouteResult(p) ==
    IF ~recovered[p] \/ fo[p] # "none" THEN "failed"
    ELSE IF FailurePolicy[cur[p]] # "LOG_AND_CONTINUE" THEN "delivered"
    ELSE IF ReplayEligible(err[p]) THEN "absorbed"
    ELSE "dropped"

RecordFailure(p) ==
    /\ pc[p] = "record"
    /\ \E e \in IF fo[p] = "failed" THEN Errors ELSE {err[p]} :
            RecordReplay(p, cur[p], e)
    /\ FinishRoute(p, cur[p], FailedRouteResult(p))
    /\ UNCHANGED <<world, checkpoint, status, routeOn, destOn, registry, quarantine,
                   lock, ctx, dry, batch, dtodo, pend, waived>>

(***************************************************************************)
(* After the routes: dynamic routes, checkpoint, commit, release           *)
(***************************************************************************)
RoutesDone(p) ==
    /\ pc[p] = "routes"
    /\ todo[p] = {}
    /\ dtodo' = [dtodo EXCEPT ![p] = DynamicRoutes]
    /\ pc' = [pc EXCEPT ![p] = "dynamic"]
    /\ UNCHANGED <<world, db, lock, ctx, dry, batch, todo, attempt, res, pend,
                   waived>>

AnyDelivered(p) == \E r \in Routes : res[p][r] = "delivered"

\* A dynamic route that is not matched, whose destination is disabled or
\* already served, or that is rate limited is passed by.
SkipDynamic(p, d) ==
    /\ pc[p] = "dynamic"
    /\ d \in dtodo[p]
    /\ dtodo' = [dtodo EXCEPT ![p] = @ \ {d}]
    /\ UNCHANGED <<world, db, lock, pc, ctx, dry, batch, todo, attempt, res, pend,
                   waived>>

\* A dynamic destination has no part in the checkpoint: what it has received is
\* not kept.
DynamicSendSucceeds(p, d) ==
    /\ pc[p] = "dynamic"
    /\ d \in dtodo[p]
    /\ dtodo' = [dtodo EXCEPT ![p] = @ \ {d}]
    /\ UNCHANGED <<world, db, lock, pc, ctx, dry, batch, todo, attempt, res, pend,
                   waived>>

\* A failed dynamic send leaves a replay row; the checkpoint rule never sees it.
DynamicSendFails(p, d) ==
    /\ pc[p] = "dynamic"
    /\ d \in dtodo[p]
    /\ \E e \in Errors : RecordReplay(p, d, e)
    /\ dtodo' = [dtodo EXCEPT ![p] = @ \ {d}]
    /\ UNCHANGED <<source, delivered, checkpoint, status, routeOn, destOn, registry,
                   quarantine, lock, pc, ctx, dry, batch, todo, attempt, res, pend,
                   waived>>

NoRequiredFailure(p) == \A r \in Routes : res[p][r] \notin {"failed", "limited"}

\* _route_delivery_fan_out_outcome: something was delivered and no route that
\* had to be sent to failed or was limited.
BatchSucceeded(p) == AnyDelivered(p) /\ NoRequiredFailure(p)

Settle(p) ==
    /\ pc[p] = "dynamic"
    /\ dtodo[p] = {}
    /\ IF BatchSucceeded(p) /\ PersistsCheckpoint(p)
       THEN \E k \in batch[p] :
                /\ \A j \in batch[p] : j <= k
                /\ StageCheckpoint(p, k)
       ELSE UNCHANGED pend
    /\ pc' = [pc EXCEPT ![p] = "flush"]
    /\ UNCHANGED <<world, db, lock, ctx, dry, batch, todo, dtodo, attempt, res,
                   waived>>

Undelivered(p) == {r \in Routes : res[p][r] # "delivered"}
\* History only: why the run that commits this checkpoint did not deliver.
PassedOver(p) ==
    {<<r, e, IF r \in ctx[p].routes THEN res[p][r] ELSE "route_off">> :
        r \in Undelivered(p), e \in batch[p]}

\* One transaction: stream status, disabled routes, checkpoint, delivery logs
\* (with the dedup registry) and whatever the caller's session holds.
Flush(p) ==
    /\ pc[p] = "flush"
    /\ status' = IF pend[p].status = "none" THEN status ELSE pend[p].status
    /\ routeOn' = routeOn \ pend[p].off
    /\ checkpoint' = IF pend[p].cp = 0 THEN checkpoint ELSE pend[p].cp
    /\ registry' = registry \cup pend[p].reg
    /\ quarantine' = quarantine \cup pend[p].quar
    /\ waived' = IF pend[p].cp = 0 THEN waived ELSE waived \cup PassedOver(p)
    /\ pend' = [pend EXCEPT ![p] = NoWrites]
    /\ pc' = [pc EXCEPT ![p] = "release"]
    /\ UNCHANGED <<world, destOn, replayRows, lock, ctx, dry, batch, todo, dtodo,
                   attempt, res>>

\* The locals of a finished run() go out of scope.
ClearRun(p) ==
    /\ ctx' = [ctx EXCEPT ![p] = NoContext]
    /\ dry' = [dry EXCEPT ![p] = FALSE]
    /\ batch' = [batch EXCEPT ![p] = {}]
    /\ todo' = [todo EXCEPT ![p] = {}]
    /\ dtodo' = [dtodo EXCEPT ![p] = {}]
    /\ res' = [res EXCEPT ![p] = NoResults]
    /\ ClearAttempt(p)

\* Mutant: the finally block does not release.
LockKept == lock
\* What release_stream_run_lock leaves.
LockReleased == NoRunner

Release(p) ==
    /\ pc[p] = "release"
    /\ lock' = LockReleased
    /\ pc' = [pc EXCEPT ![p] = "idle"]
    /\ ClearRun(p)
    /\ UNCHANGED <<world, db, pend, waived>>

(***************************************************************************)
(* Faults and the environment                                              *)
(***************************************************************************)
\* The fetch, the extraction or a later route's transform raises: staged
\* writes are dropped.  What a flushed quarantine row becomes is up to the
\* caller, who may roll its session back or commit it.
Raise(p) ==
    /\ "exception" \in Faults
    /\ pc[p] \in {"collect", "routes"}
    /\ pend' = [pend EXCEPT ![p] = NoWrites]
    /\ quarantine' \in {quarantine, quarantine \cup pend[p].quar}
    /\ pc' = [pc EXCEPT ![p] = "release"]
    /\ UNCHANGED <<world, checkpoint, status, routeOn, destOn, registry, replayRows,
                   lock, ctx, dry, batch, todo, dtodo, attempt, res, waived>>

\* The commit fails and rolls back; the staged writes stay on the runner.
FlushFails(p) ==
    /\ "commit" \in Faults
    /\ pc[p] = "flush"
    /\ pc' = [pc EXCEPT ![p] = "release"]
    /\ UNCHANGED <<world, db, lock, ctx, dry, batch, todo, dtodo, attempt, res,
                   pend, waived>>

\* The process dies: the kernel drops its lock, open transactions roll back.
Crash(p) ==
    /\ "crash" \in Faults
    /\ pc[p] # "idle"
    /\ lock' = IF lock = p THEN NoRunner ELSE lock
    /\ pc' = [pc EXCEPT ![p] = "idle"]
    /\ pend' = [pend EXCEPT ![p] = NoWrites]
    /\ ClearRun(p)
    /\ UNCHANGED <<world, db, waived>>

Produce ==
    /\ source < MaxEvents
    /\ source' = source + 1
    /\ UNCHANGED <<delivered, db, lock, locals, waived>>

\* save_runtime_route_enabled_state
SetRouteEnabled(r) ==
    /\ routeOn' \in {routeOn \cup {r}, routeOn \ {r}}
    /\ UNCHANGED <<world, checkpoint, status, destOn, registry, quarantine,
                   replayRows, lock, locals, waived>>

SetDestinationEnabled(r) ==
    /\ destOn' \in {destOn \cup {r}, destOn \ {r}}
    /\ UNCHANGED <<world, checkpoint, status, routeOn, registry, quarantine,
                   replayRows, lock, locals, waived>>

\* start_stream puts a paused or rate-limited stream back to RUNNING.
StartStream ==
    /\ status # "RUNNING"
    /\ status' = "RUNNING"
    /\ UNCHANGED <<world, checkpoint, routeOn, destOn, registry, quarantine,
                   replayRows, lock, locals, waived>>

RunStep(p) ==
    \/ Load(p) \/ SkipLocked(p) \/ Enter(p) \/ LimitSource(p) \/ Collect(p)
    \/ \E r \in Routes :
          \/ Withhold(p, r) \/ SkipDisabledDestination(p, r)
          \/ LimitDestination(p, r) \/ SendSucceeds(p, r) \/ SendFails(p, r)
    \/ NoFailover(p) \/ FailoverFails(p) \/ FailoverSucceeds(p)
    \/ LogAndContinue(p) \/ PauseStream(p) \/ DisableRoute(p) \/ StartRetry(p)
    \/ RetrySucceeds(p) \/ RetryFails(p) \/ RetryExhausted(p) \/ RecordFailure(p)
    \/ RoutesDone(p)
    \/ \E d \in DynamicRoutes :
          \/ SkipDynamic(p, d) \/ DynamicSendSucceeds(p, d) \/ DynamicSendFails(p, d)
    \/ Settle(p) \/ Flush(p) \/ Release(p)

Fault(p) == Raise(p) \/ FlushFails(p) \/ Crash(p)

Environment ==
    \/ Produce \/ StartStream
    \/ \E r \in Managed : SetRouteEnabled(r) \/ SetDestinationEnabled(r)

Next == Environment \/ \E p \in Runners : RunStep(p) \/ Fault(p)

Spec == Init /\ [][Next]_vars

(***************************************************************************)
(* Safety                                                                  *)
(***************************************************************************)
\* What may excuse a route from an event the checkpoint has passed: the route
\* or its destination was disabled, its policy decision withheld the batch, or
\* LOG_AND_CONTINUE absorbed the failure.
Excuses == {"route_off", "dest_off", "absorbed", "dropped"} \cup Withholding

Accounted(r, e) ==
    \/ <<r, e>> \in delivered
    \/ \E why \in Excuses : <<r, e, why>> \in waived

\* A committed checkpoint covers an event only if every route got it or was
\* excused by the run that moved the checkpoint over it: across crashes,
\* concurrent callers, stale contexts and partial sends, no event a required
\* route still owes is ever behind the checkpoint
\* (_route_delivery_fan_out_outcome, _flush_pending_writes).
EveryRouteAccounted ==
    \A e \in Events : e <= checkpoint => \A r \in Routes : Accounted(r, e)

\* "Checkpoint needs a real delivery": every event behind the checkpoint
\* reached at least one destination.  A run drops from its page what the dedup
\* registry has, keys a backfill or a failed run committed included, and its
\* checkpoint passes the dropped events too (SeedKeys, StageRegistry).
SomeRouteDelivered ==
    \A e \in Events : e <= checkpoint => \E r \in Routes : <<r, e>> \in delivered

\* A failure that LOG_AND_CONTINUE absorbed is not forgotten: once the
\* checkpoint has passed the event, its payload is in the replay table, unless
\* the error was one the replay engine excludes.  It holds while the replay
\* writes succeed and no batch is larger than a row's snapshot.
AbsorbedIsReplayable ==
    \A r \in Routes, e \in Events :
        <<r, e, "absorbed">> \in waived => <<r, e>> \in replayRows

Running(p) == pc[p] \notin {"idle", "enter"}

\* At most one run of the stream is past its entry at any time, whoever
\* started it.
RunsAreExclusive ==
    \A p, q \in Runners : Running(p) /\ Running(q) => p = q

\* Only the run that owns the lock moves the checkpoint, and never a backfill
\* (persist_checkpoint=False).
CheckpointMovedByOwner ==
    [][checkpoint' # checkpoint =>
          \E p \in Runners : lock = p /\ Kind[p] # "backfill"]_vars

\* A transaction that advances the checkpoint neither pauses, rate-limits nor
\* un-routes the stream: a run that met such a failure commits no checkpoint.
AdvanceIsClean ==
    [][checkpoint' # checkpoint => UNCHANGED <<status, routeOn>>]_vars

\* A commit goes beyond what its own run resumed from.  A run that loaded its
\* context before another one committed may set the checkpoint back, but never
\* to where it started or before (context.checkpoint is read before the lock).
CommitGoesForward ==
    [][checkpoint' # checkpoint =>
          \E p \in Runners : lock = p /\ ctx[p].cp < checkpoint']_vars

\* The commit of a run with a session that takes the checkpoint past a
\* quarantined batch puts the batch into the quarantine table as well.  It
\* holds while no batch is larger than a row's snapshot.
SessionKeepsQuarantine ==
    [][\A p \in Runners :
          HasSession(p) /\ pend[p].cp # 0 /\ Flush(p) =>
              \A r \in Routes, e \in Events :
                  <<r, e, "quarantine">> \in PassedOver(p) => <<r, e>> \in quarantine']_vars

\* The checkpoint never goes back.  This holds where one runner moves it, and
\* not beside a second one that loaded its context earlier.
CheckpointAdvances == [][checkpoint <= checkpoint']_vars

\* The abstract promise, with the reasons of the excuses forgotten.
Excused == {<<w[1], w[2]>> : w \in {v \in waived : v[3] \in Excuses}}
Promise == INSTANCE CheckpointedDelivery WITH waived <- Excused

\* Every behaviour of the runners is a behaviour of CheckpointedDelivery.
KeepsPromise == Promise!Spec

(***************************************************************************)
(* The inductive invariant behind the safety properties: what holds of a   *)
(* runner p between any two steps of anybody.                              *)
(***************************************************************************)
Sending(p) == pc[p] \in {"failover", "policy", "retry", "record"}
InPipeline(p) == Sending(p) \/ pc[p] \in {"routes", "dynamic"}

\* A runner past its entry owns the lock.
HoldsLock(p) == Running(p) => lock = p

\* The loop variables agree with each other: the route being sent is still to
\* do, a route to do has no result, and a route of the context is one of the two.
LoopTracked(p) ==
    /\ pc[p] \in {"idle", "enter", "collect"} => res[p] = NoResults /\ batch[p] = {}
    /\ Sending(p) => cur[p] \in todo[p]
    /\ InPipeline(p) => \A r \in Routes : r \in todo[p] => res[p][r] = "none"
    /\ InPipeline(p) =>
          \A r \in Routes : r \in ctx[p].routes /\ res[p][r] = "none" => r \in todo[p]
    /\ pc[p] = "dynamic" => todo[p] = {}

\* A result, or a recovery not yet recorded, that claims delivery tells the truth.
DeliveryIsReal(p) ==
    /\ \A r \in Routes : res[p][r] = "delivered" =>
          \A e \in batch[p] : <<r, e>> \in delivered
    /\ recovered[p] => pc[p] = "record"
    /\ recovered[p] /\ FailurePolicy[cur[p]] # "LOG_AND_CONTINUE" =>
          \A e \in batch[p] : <<cur[p], e>> \in delivered

\* What the runner resumed from is accounted for, and its batch starts there.
ResumeIsSound(p) ==
    /\ \A e \in Events : e <= ctx[p].cp => \A r \in Routes : Accounted(r, e)
    /\ ~InReplayWindow(p) /\ (InPipeline(p) \/ pc[p] = "flush") =>
          \A e \in batch[p], f \in Events :
              f <= e => f <= ctx[p].cp \/ f \in batch[p]

\* A staged checkpoint is the end of a batch that succeeded on every route, and
\* a staged pause, limit or disabled route goes with a failed result.
StagedIsEarned(p) ==
    /\ pc[p] = "collect" => pend[p] = NoWrites
    /\ InPipeline(p) => pend[p].cp = 0
    /\ InPipeline(p) /\ (pend[p].status # "none" \/ pend[p].off # {}) =>
          ~NoRequiredFailure(p) \/ (pc[p] = "record" /\ ~recovered[p])
    /\ pc[p] = "flush" /\ pend[p].cp # 0 =>
          /\ PersistsCheckpoint(p)
          /\ pend[p].cp \in batch[p]
          /\ BatchSucceeded(p)
          /\ pend[p].status = "none" /\ pend[p].off = {}
          /\ \A r \in Routes : r \in ctx[p].routes => res[p][r] # "none"

RunnerInvariant ==
    \A p \in Runners : /\ HoldsLock(p)
                       /\ LoopTracked(p)
                       /\ DeliveryIsReal(p)
                       /\ StagedIsEarned(p)

AccountingInvariant == EveryRouteAccounted /\ \A p \in Runners : ResumeIsSound(p)

\* Some destination accepted the event.
Received(e) == \E r \in Routes : <<r, e>> \in delivered

\* What the runner resumed from was received by somebody, so was whatever it
\* has staged as a dedup key, and its batch leaves out nothing else.
ReceiptIsSound(p) ==
    /\ \A e \in Events : e <= ctx[p].cp => Received(e)
    /\ \A e \in Events : e \in pend[p].reg => Received(e)
    /\ ~InReplayWindow(p) /\ (InPipeline(p) \/ pc[p] = "flush") =>
          \A e \in batch[p], f \in Events :
              f <= e => f <= ctx[p].cp \/ f \in batch[p] \/ Received(f)

\* SomeRouteDelivered with what a step needs to keep it.
ReceiptInvariant ==
    /\ SomeRouteDelivered
    /\ \A e \in Events : e \in registry => Received(e)
    /\ \A p \in Runners : ReceiptIsSound(p)

\* What a runner has in hand is in the source, and for an ordinary run it is
\* the page after the point the run resumed from.
BatchIsPage(p) ==
    /\ \A e \in batch[p] : e <= source
    /\ ~InReplayWindow(p) =>
          \A e \in batch[p] : ctx[p].cp < e /\ e <= ctx[p].cp + MaxBatch

PageInvariant == \A p \in Runners : BatchIsPage(p)

\* The runner that moves the checkpoint resumed from it as it is now.
ContextIsCurrent(p) ==
    PersistsCheckpoint(p) /\ pc[p] \notin {"idle", "release"} => ctx[p].cp = checkpoint

\* A failure an ordinary run has absorbed is in the replay table already.
AbsorbedIsRecorded(p) ==
    ~InReplayWindow(p) =>
        \A r \in Routes : res[p][r] = "absorbed" =>
            \A e \in batch[p] : <<r, e>> \in replayRows

RecordInvariant ==
    AbsorbedIsReplayable /\ \A p \in Runners : AbsorbedIsRecorded(p)

\* What a run with a session has quarantined waits for its commit.
QuarantineIsStaged(p) ==
    HasSession(p) /\ ~InReplayWindow(p) /\ (InPipeline(p) \/ pc[p] = "flush") =>
        \A r \in Routes : res[p][r] = "quarantine" =>
            \A e \in batch[p] : <<r, e>> \in pend[p].quar

(***************************************************************************)
(* A claim of the documentation that the code does not keep                *)
(***************************************************************************)
\* Once the checkpoint has passed an event that a route's policy quarantined,
\* the event is in the quarantine table or was delivered by a later run.
QuarantinedIsKept ==
    \A r \in Routes, e \in Events :
        <<r, e, "quarantine">> \in waived =>
            <<r, e>> \in quarantine \cup delivered

(***************************************************************************)
(* Liveness                                                                *)
(***************************************************************************)
\* A run that has started goes on, and the source keeps answering with what
\* it holds.
RunFairness(p) ==
    /\ WF_vars(RunStep(p) /\ ~Load(p))
    /\ SF_vars(Collect(p) /\ batch'[p] # {})

\* The scheduler polls for ever; requests and backfills need not come.
SchedulerFairness(p) == Kind[p] = "scheduler" => WF_vars(Load(p))

\* From some point on the process stays up and no send fails.
Stabilises ==
    <>[][\A p \in Runners :
            ~Crash(p) /\ \A r \in Routes : ~SendFails(p, r)]_vars

FairSpec ==
    /\ Spec
    /\ \A p \in Runners : RunFairness(p) /\ SchedulerFairness(p)
    /\ Stabilises

\* Every event the source holds is eventually behind the checkpoint.
EventuallyCheckpointed == \A e \in Events : source >= e ~> checkpoint >= e

=============================================================================
