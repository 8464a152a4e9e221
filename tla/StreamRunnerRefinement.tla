----------------------- MODULE StreamRunnerRefinement -----------------------
(***************************************************************************)
(* StreamRunner implements CheckpointedDelivery, for every set of runners  *)
(* and routes and every configuration whose dedup does not reach over      *)
(* earlier runs.  Effect says once what a step of a runner may do to the   *)
(* variables of the promise; PageInvariant says that what a runner sends   *)
(* and commits is in the source and beyond what it resumed from.           *)
(***************************************************************************)
EXTENDS StreamRunnerProofs

(***************************************************************************)
(* What a step does to the variables of the promise                        *)
(***************************************************************************)
SameBatch(p) == batch'[p] = batch[p] /\ ctx'[p].cp = ctx[p].cp
Sends(p) ==
    /\ \E r \in Routes, got \in SUBSET batch[p] : delivered' = delivered \cup Pairs(r, got)
    /\ UNCHANGED <<waived, checkpoint>>
Resumes(p) ==
    \/ pc'[p] \in {"idle", "release"}
    \/ ctx'[p].cp = checkpoint /\ checkpoint' = checkpoint
    \/ /\ pc[p] \notin {"idle", "release"}
       /\ ctx'[p].cp = ctx[p].cp /\ checkpoint' = checkpoint
Effect(p) ==
    /\ source' = source
    /\ Resumes(p)
    /\ batch'[p] = {} \/ SameBatch(p) \/ Collect(p)
    /\ \/ UNCHANGED <<delivered, waived, checkpoint>>
       \/ Sends(p)
       \/ Flush(p) /\ delivered' = delivered

\* A step of a runner keeps, drops or fetches its batch, and either leaves the
\* promise's variables alone, sends part of its batch, or commits.
LEMMA EffectOfStep ==
  ASSUME TypeOK, RunnerInvariant, NEW p \in Runners, RunStep(p) \/ Fault(p)
  PROVE  Effect(p)
<1> USE DEF Effect, Resumes, SameBatch, Sends, vars, world, db, attempt, locals
<1>0. LoopTracked(p)
  BY DEF RunnerInvariant
<1>1. CASE Load(p)
  BY <1>0, <1>1 DEF Load, LoopTracked, TypeOK
<1>2. CASE SkipLocked(p)
  BY <1>0, <1>2 DEF SkipLocked, LoopTracked, TypeOK
<1>3. CASE Enter(p)
  BY <1>0, <1>3 DEF Enter, ResolvedCheckpoint, LockAvailable, LoopTracked, TypeOK
<1>4. CASE LimitSource(p)
  BY <1>0, <1>4 DEF LimitSource, StageStatus, LoopTracked, TypeOK
<1>5. CASE Collect(p)
  <2>1. /\ ctx' = ctx /\ delivered' = delivered /\ waived' = waived
        /\ checkpoint' = checkpoint /\ source' = source /\ pc[p] = "collect"
    BY <1>5 DEF Collect
  <2> QED BY <1>5, <2>1
<1>6. CASE NoFailover(p)
  BY <1>0, <1>6 DEF NoFailover, LoopTracked, TypeOK
<1>7. CASE FailoverFails(p)
  <2>1. /\ waived' = waived /\ checkpoint' = checkpoint /\ source' = source
        /\ ctx' = ctx /\ batch' = batch /\ pc[p] \in {"routes", "failover", "retry"}
    BY <1>7 DEF FailoverFails
  <2>2. cur[p] \in Routes
    BY <1>7, <1>0 DEF FailoverFails, LoopTracked, Sending, TypeOK
  <2>3. \E got \in SUBSET batch[p] : delivered' = delivered \cup Pairs(cur[p], got)
    BY <1>7 DEF FailoverFails
  <2> QED BY <2>1, <2>2, <2>3
<1>8. CASE FailoverSucceeds(p)
  <2>1. /\ waived' = waived /\ checkpoint' = checkpoint /\ source' = source
        /\ ctx' = ctx /\ batch' = batch /\ pc[p] \in {"routes", "failover", "retry"}
    BY <1>8 DEF FailoverSucceeds
  <2>2. cur[p] \in Routes
    BY <1>8, <1>0 DEF FailoverSucceeds, LoopTracked, Sending, TypeOK
  <2>3. delivered' = delivered \cup Pairs(cur[p], batch[p])
    BY <1>8 DEF FailoverSucceeds
  <2> QED BY <2>1, <2>2, <2>3
<1>9. CASE LogAndContinue(p)
  BY <1>0, <1>9 DEF LogAndContinue, LoopTracked, TypeOK
<1>10. CASE PauseStream(p)
  BY <1>0, <1>10 DEF PauseStream, StageStatus, LoopTracked, TypeOK
<1>11. CASE DisableRoute(p)
  BY <1>0, <1>11 DEF DisableRoute, StageDisabledRoute, LoopTracked, TypeOK
<1>12. CASE StartRetry(p)
  BY <1>0, <1>12 DEF StartRetry, LoopTracked, TypeOK
<1>13. CASE RetrySucceeds(p)
  <2>1. /\ waived' = waived /\ checkpoint' = checkpoint /\ source' = source
        /\ ctx' = ctx /\ batch' = batch /\ pc[p] \in {"routes", "failover", "retry"}
    BY <1>13 DEF RetrySucceeds
  <2>2. cur[p] \in Routes
    BY <1>13, <1>0 DEF RetrySucceeds, LoopTracked, Sending, TypeOK
  <2>3. delivered' = delivered \cup Pairs(cur[p], batch[p])
    BY <1>13 DEF RetrySucceeds
  <2> QED BY <2>1, <2>2, <2>3
<1>14. CASE RetryFails(p)
  <2>1. /\ waived' = waived /\ checkpoint' = checkpoint /\ source' = source
        /\ ctx' = ctx /\ batch' = batch /\ pc[p] \in {"routes", "failover", "retry"}
    BY <1>14 DEF RetryFails
  <2>2. cur[p] \in Routes
    BY <1>14, <1>0 DEF RetryFails, LoopTracked, Sending, TypeOK
  <2>3. \E got \in SUBSET batch[p] : delivered' = delivered \cup Pairs(cur[p], got)
    BY <1>14 DEF RetryFails
  <2> QED BY <2>1, <2>2, <2>3
<1>15. CASE RetryExhausted(p)
  BY <1>0, <1>15 DEF RetryExhausted, LoopTracked, TypeOK
<1>16. CASE RecordFailure(p)
  BY <1>0, <1>16 DEF RecordFailure, FinishRoute, ClearAttempt, LoopTracked, TypeOK
<1>17. CASE RoutesDone(p)
  BY <1>0, <1>17 DEF RoutesDone, LoopTracked, TypeOK
<1>18. CASE Settle(p)
  BY <1>0, <1>18 DEF Settle, StageCheckpoint, LoopTracked, TypeOK
<1>19. CASE Flush(p)
  BY <1>0, <1>19 DEF Flush, LoopTracked, TypeOK
<1>20. CASE Release(p)
  BY <1>0, <1>20 DEF Release, ClearRun, ClearAttempt, LockReleased, LoopTracked, TypeOK
<1>21. CASE Raise(p)
  BY <1>0, <1>21 DEF Raise, LoopTracked, TypeOK
<1>22. CASE FlushFails(p)
  BY <1>0, <1>22 DEF FlushFails, LoopTracked, TypeOK
<1>23. CASE Crash(p)
  BY <1>0, <1>23 DEF Crash, ClearRun, ClearAttempt, LoopTracked, TypeOK
<1>24. ASSUME NEW r \in Routes, Withhold(p, r) PROVE Effect(p)
  <2>1. /\ delivered' = delivered /\ waived' = waived /\ checkpoint' = checkpoint
        /\ ctx' = ctx /\ batch' = batch /\ source' = source /\ pc[p] = "routes"
    BY <1>24 DEF Withhold
  <2> QED BY <2>1
<1>25. ASSUME NEW r \in Routes, SkipDisabledDestination(p, r) PROVE Effect(p)
  BY <1>0, <1>25 DEF SkipDisabledDestination, FinishRoute, ClearAttempt, LoopTracked,
     TypeOK
<1>26. ASSUME NEW r \in Routes, LimitDestination(p, r) PROVE Effect(p)
  BY <1>0, <1>26 DEF LimitDestination, FinishRoute, ClearAttempt, StageStatus,
     LoopTracked, TypeOK
<1>27. ASSUME NEW r \in Routes, SendSucceeds(p, r) PROVE Effect(p)
  <2>1. /\ waived' = waived /\ checkpoint' = checkpoint /\ source' = source
        /\ ctx' = ctx /\ batch' = batch /\ pc[p] \in {"routes", "failover", "retry"}
    BY <1>27 DEF SendSucceeds
  <2>2. r \in Routes
    BY <1>27
  <2>3. delivered' = delivered \cup Pairs(r, batch[p])
    BY <1>27 DEF SendSucceeds
  <2> QED BY <2>1, <2>2, <2>3
<1>28. ASSUME NEW r \in Routes, SendFails(p, r) PROVE Effect(p)
  <2>1. /\ waived' = waived /\ checkpoint' = checkpoint /\ source' = source
        /\ ctx' = ctx /\ batch' = batch /\ pc[p] \in {"routes", "failover", "retry"}
    BY <1>28 DEF SendFails
  <2>2. r \in Routes
    BY <1>28
  <2>3. \E got \in SUBSET batch[p] : delivered' = delivered \cup Pairs(r, got)
    BY <1>28 DEF SendFails
  <2> QED BY <2>1, <2>2, <2>3
<1>29. ASSUME NEW d \in DynamicRoutes, SkipDynamic(p, d) PROVE Effect(p)
  BY <1>0, <1>29 DEF SkipDynamic, LoopTracked, TypeOK
<1>30. ASSUME NEW d \in DynamicRoutes, DynamicSendSucceeds(p, d) PROVE Effect(p)
  BY <1>0, <1>30 DEF DynamicSendSucceeds, LoopTracked, TypeOK
<1>31. ASSUME NEW d \in DynamicRoutes, DynamicSendFails(p, d) PROVE Effect(p)
  BY <1>0, <1>31 DEF DynamicSendFails, LoopTracked, TypeOK
<1> QED
  BY <1>1, <1>2, <1>3, <1>4, <1>5, <1>6, <1>7, <1>8, <1>9, <1>10, <1>11, <1>12, <1>13,
     <1>14, <1>15, <1>16, <1>17, <1>18, <1>19, <1>20, <1>21, <1>22, <1>23, <1>24, <1>25,
     <1>26, <1>27, <1>28, <1>29, <1>30, <1>31 DEF RunStep, Fault

\* Only the source produces, and nothing else of the environment touches what
\* the promise speaks of.
LEMMA EnvironmentEffect ==
  ASSUME TypeOK, Environment
  PROVE  /\ UNCHANGED <<delivered, waived, checkpoint, lock, locals>>
         /\ source' = source \/ (source < MaxEvents /\ source' = source + 1)
<1>1. UNCHANGED <<delivered, waived, checkpoint, lock, locals>>
  BY EnvironmentFrame
<1>2. source' = source \/ (source < MaxEvents /\ source' = source + 1)
  BY DEF Environment, Produce, StartStream, SetRouteEnabled, SetDestinationEnabled, world
<1> QED BY <1>1, <1>2

(***************************************************************************)
(* What a runner has in hand is a page after its checkpoint                *)
(***************************************************************************)
\* A source adapter returns events the source holds, after the checkpoint and
\* at most a page of them (Fetchable).
LEMMA FetchedPage ==
  ASSUME TypeOK, NEW p \in Runners, NEW F \in Fetchable(p)
  PROVE  /\ \A e \in F : e <= source
         /\ ~InReplayWindow(p) => \A e \in F : ctx[p].cp < e /\ e <= ctx[p].cp + MaxBatch
<1> USE BoundsAssumption
<1>1. ctx[p].cp \in Nat /\ source \in Nat
  BY DEF TypeOK
<1>2. CASE InReplayWindow(p)
  <2>1. PICK a \in 1..source, b \in 0..source : F = a..b
    BY <1>2 DEF Fetchable
  <2> QED BY <1>1, <1>2, <2>1
<1>3. CASE ~InReplayWindow(p) /\ F # {}
  <2>1. PICK b \in ctx[p].cp..source : b <= ctx[p].cp + MaxBatch /\ F = (ctx[p].cp + 1)..b
    BY <1>3 DEF Fetchable
  <2> QED BY <1>1, <2>1
<1> QED BY <1>2, <1>3

\* PageInvariant is inductive with TypeOK and RunnerInvariant.
LEMMA PageStep ==
  TypeOK /\ RunnerInvariant /\ PageInvariant /\ [Next]_vars => PageInvariant'
<1> SUFFICES ASSUME TypeOK, RunnerInvariant, PageInvariant, [Next]_vars
             PROVE  PageInvariant'
  OBVIOUS
<1>1. ASSUME UNCHANGED <<locals>>, source' = source \/ source' = source + 1
      PROVE  PageInvariant'
  <2>1. batch' = batch /\ ctx' = ctx
    BY <1>1 DEF locals
  <2>2. \A p \in Runners : \A e \in batch[p] : e <= source => e <= source'
    BY <1>1, BoundsAssumption DEF TypeOK, Events
  <2> QED BY <2>1, <2>2 DEF PageInvariant, BatchIsPage, InReplayWindow
<1>2. CASE UNCHANGED vars
  BY <1>1, <1>2 DEF vars, world
<1>3. CASE Environment
  BY <1>1, <1>3, EnvironmentEffect
<1>4. ASSUME NEW p \in Runners, RunStep(p) \/ Fault(p)
      PROVE  PageInvariant'
  <2>1. Effect(p)
    BY <1>4, EffectOfStep
  <2>2. ASSUME NEW q \in Runners, q # p PROVE BatchIsPage(q)'
    <3>1. ctx'[q] = ctx[q] /\ batch'[q] = batch[q]
      BY <1>4, <2>2, Footprint DEF OthersUntouched
    <3> QED BY <2>1, <3>1 DEF Effect, PageInvariant, BatchIsPage, InReplayWindow
  <2>3. BatchIsPage(p)'
    <3>1. CASE batch'[p] = {}
      BY <3>1 DEF BatchIsPage
    <3>2. CASE SameBatch(p)
      BY <2>1, <3>2 DEF SameBatch, Effect, PageInvariant, BatchIsPage, InReplayWindow
    <3>3. CASE Collect(p)
      <4>1. PICK F \in Fetchable(p) : batch' = [batch EXCEPT ![p] = F \ SeedKeys(p)]
        BY <3>3 DEF Collect
      <4>2. batch'[p] \subseteq F /\ ctx' = ctx /\ source' = source
        BY <2>1, <3>3, <4>1 DEF Collect, TypeOK, Effect
      <4> QED BY <4>2, FetchedPage DEF BatchIsPage, InReplayWindow
    <3> QED BY <2>1, <3>1, <3>2, <3>3 DEF Effect
  <2> QED BY <2>2, <2>3 DEF PageInvariant
<1> QED BY <1>2, <1>3, <1>4 DEF Next

\* What a runner has in hand is in the source and, for an ordinary run, after
\* the point it resumed from (fetch, _extract_events, context.checkpoint).
THEOREM PagesHold == Spec => []PageInvariant
<1>1. Init => PageInvariant
  BY DEF Init, PageInvariant, BatchIsPage
<1> QED BY <1>1, PageStep, RunnersSound, PTL DEF Spec

\* What the commit of a staged checkpoint commits was earned by its owner.
LEMMA CommitIsEarned ==
  ASSUME TypeOK, RunnerInvariant, PageInvariant, NEW p \in Runners,
         Flush(p), pend[p].cp # 0
  PROVE  /\ lock = p /\ checkpoint' = pend[p].cp
         /\ pend[p].cp \in batch[p] /\ pend[p].cp \in 1..source
         /\ ctx[p].cp < pend[p].cp
<1>1. pc[p] = "flush" /\ checkpoint' = pend[p].cp
  BY DEF Flush
<1>2. lock = p
  BY <1>1 DEF RunnerInvariant, HoldsLock, Running
<1>3. pend[p].cp \in batch[p] /\ ~InReplayWindow(p)
  BY <1>1, RunnersAssumption DEF RunnerInvariant, StagedIsEarned, PersistsCheckpoint,
     InReplayWindow
<1>4. pend[p].cp \in Nat \ {0} /\ source \in Nat
  BY BoundsAssumption DEF TypeOK
<1> QED BY <1>1, <1>2, <1>3, <1>4 DEF PageInvariant, BatchIsPage

\* A commit goes beyond what its own run resumed from, whatever other runs have
\* committed since (context.checkpoint, _flush_pending_writes).
THEOREM CommitsGoForward == Spec => CommitGoesForward
<1>1. TypeOK /\ RunnerInvariant /\ PageInvariant /\ [Next]_vars =>
        [checkpoint' # checkpoint =>
            \E p \in Runners : lock = p /\ ctx[p].cp < checkpoint']_vars
  <2> SUFFICES ASSUME TypeOK, RunnerInvariant, PageInvariant, [Next]_vars,
                      checkpoint' # checkpoint
               PROVE  \E p \in Runners : lock = p /\ ctx[p].cp < checkpoint'
    OBVIOUS
  <2>1. ~UNCHANGED vars /\ ~Environment
    BY EnvironmentEffect DEF vars, db
  <2>2. PICK p \in Runners : RunStep(p) \/ Fault(p)
    BY <2>1 DEF Next
  <2>3. Flush(p) /\ pend[p].cp # 0
    BY <2>2, Footprint DEF OnlyFlushMoves
  <2> QED BY <2>3, CommitIsEarned
<1> QED BY <1>1, RunnersSound, PagesHold, PTL DEF Spec, CommitGoesForward

\* Where one runner persists the checkpoint, it resumes from the current one.
LEMMA CurrentStep ==
  ASSUME \A p, q \in Runners : PersistsCheckpoint(p) /\ PersistsCheckpoint(q) => p = q
  PROVE  /\ TypeOK /\ RunnerInvariant /\ (\A p \in Runners : ContextIsCurrent(p)) /\ [Next]_vars
         => (\A p \in Runners : ContextIsCurrent(p))'
<1> SUFFICES ASSUME TypeOK, RunnerInvariant, \A p \in Runners : ContextIsCurrent(p),
                    [Next]_vars, NEW q \in Runners, PersistsCheckpoint(q)
             PROVE  ContextIsCurrent(q)'
  BY DEF ContextIsCurrent
<1>1. CASE UNCHANGED <<checkpoint, locals>>
  BY <1>1 DEF ContextIsCurrent, PersistsCheckpoint, locals
<1>2. CASE UNCHANGED vars \/ Environment
  BY <1>1, <1>2, EnvironmentEffect DEF vars, db
<1>3. ASSUME NEW p \in Runners, RunStep(p) \/ Fault(p)
      PROVE  ContextIsCurrent(q)'
  <2>1. CASE p = q
    <3>1. Resumes(q)
      BY <1>3, <2>1, EffectOfStep DEF Effect
    <3> QED BY <3>1 DEF Resumes, ContextIsCurrent, PersistsCheckpoint
  <2>2. CASE p # q
    <3>1. pc'[q] = pc[q] /\ ctx'[q] = ctx[q]
      BY <1>3, <2>2, Footprint DEF OthersUntouched
    <3>2. checkpoint' = checkpoint
      <4>1. ~PersistsCheckpoint(p)
        BY <2>2
      <4>2. ~(Flush(p) /\ pend[p].cp # 0)
        BY <4>1 DEF RunnerInvariant, StagedIsEarned, Flush
      <4> QED BY <1>3, <4>2, Footprint DEF OnlyFlushMoves
    <3> QED BY <3>1, <3>2 DEF ContextIsCurrent, PersistsCheckpoint
  <2> QED BY <2>1, <2>2
<1> QED BY <1>2, <1>3 DEF Next

\* Where one runner persists the checkpoint (the scheduler alone, or beside any
\* number of backfills), it never goes back, through crashes, exceptions and
\* failed commits.  So only a second persisting caller sets it back.
THEOREM LoneRunnerAdvances ==
  ASSUME \A p, q \in Runners : PersistsCheckpoint(p) /\ PersistsCheckpoint(q) => p = q
  PROVE  Spec => CheckpointAdvances
<1> DEFINE Current == \A p \in Runners : ContextIsCurrent(p)
<1>1. Init => Current
  BY DEF Init, ContextIsCurrent
<1>2. TypeOK /\ RunnerInvariant /\ Current /\ [Next]_vars => Current'
  BY CurrentStep
<1>3. TypeOK /\ RunnerInvariant /\ PageInvariant /\ Current /\ [Next]_vars =>
        [checkpoint <= checkpoint']_vars
  <2> SUFFICES ASSUME TypeOK, RunnerInvariant, PageInvariant, Current, [Next]_vars
               PROVE  checkpoint <= checkpoint'
    OBVIOUS
  <2>0. checkpoint \in Nat
    BY BoundsAssumption DEF TypeOK
  <2>1. CASE UNCHANGED vars \/ Environment
    BY <2>0, <2>1, EnvironmentEffect DEF vars, db
  <2>2. ASSUME NEW p \in Runners, RunStep(p) \/ Fault(p)
        PROVE  checkpoint <= checkpoint'
    <3>1. CASE checkpoint' = checkpoint
      BY <2>0, <3>1
    <3>2. CASE Flush(p) /\ pend[p].cp # 0
      <4>1. pc[p] = "flush" /\ PersistsCheckpoint(p)
        BY <3>2 DEF RunnerInvariant, StagedIsEarned, Flush
      <4>2. ctx[p].cp = checkpoint
        BY <4>1 DEF ContextIsCurrent
      <4>3. ctx[p].cp < checkpoint' /\ checkpoint' \in 1..source
        BY <3>2, CommitIsEarned
      <4> QED BY <2>0, <4>2, <4>3
    <3> QED BY <2>2, <3>1, <3>2, Footprint DEF OnlyFlushMoves
  <2> QED BY <2>1, <2>2 DEF Next
<1> HIDE DEF Current
<1> QED BY <1>1, <1>2, <1>3, RunnersSound, PagesHold, PTL DEF Spec, CheckpointAdvances

(***************************************************************************)
(* The refinement                                                          *)
(***************************************************************************)
\* Sending part of a batch is a delivery of the promise.
LEMMA SendsDeliver ==
  ASSUME TypeOK, PageInvariant, NEW p \in Runners, Sends(p), source' = source
  PROVE  Promise!Deliver
<1>1. PICK r \in Routes, got \in SUBSET batch[p] :
          delivered' = delivered \cup Pairs(r, got)
  BY DEF Sends
<1>2. got \in SUBSET (1..source)
  <2>1. \A e \in got : e \in Nat \ {0} /\ e <= source
    BY BoundsAssumption DEF PageInvariant, BatchIsPage, TypeOK, Events
  <2>2. source \in Nat
    BY BoundsAssumption DEF TypeOK
  <2> QED BY <2>1, <2>2
<1>3. Excused' = Excused
  BY DEF Sends, Excused
<1> QED BY <1>1, <1>2, <1>3 DEF Promise!Deliver, Sends, Pairs

\* The excuses a commit adds are pairs of its batch, and none is taken back.
LEMMA CommitExcuses ==
  ASSUME TypeOK, PageInvariant, NEW p \in Runners, Flush(p), pend[p].cp # 0
  PROVE  \E W \in SUBSET (Routes \X (1..source)) : Excused' = Excused \cup W
<1> DEFINE W == {<<w[1], w[2]>> : w \in {v \in PassedOver(p) : v[3] \in Excuses}}
<1>1. waived' = waived \cup PassedOver(p)
  BY DEF Flush
<1>2. Excused' = Excused \cup W
  BY <1>1 DEF Excused
<1>3. ASSUME NEW w \in PassedOver(p)
      PROVE  w[1] \in Routes /\ w[2] \in 1..source
  <2>1. PICK r \in Undelivered(p), e \in batch[p] :
            w = <<r, e, IF r \in ctx[p].routes THEN res[p][r] ELSE "route_off">>
    BY DEF PassedOver
  <2>2. w[1] = r /\ w[2] = e
    BY <2>1
  <2>3. r \in Routes
    BY DEF Undelivered
  <2>4. e \in Nat \ {0} /\ e <= source /\ source \in Nat
    BY BoundsAssumption DEF PageInvariant, BatchIsPage, TypeOK, Events
  <2> QED BY <2>2, <2>3, <2>4
<1>4. W \in SUBSET (Routes \X (1..source))
  BY <1>3
<1> HIDE DEF W
<1> QED BY <1>2, <1>4

\* A commit that moves the checkpoint is a commit of the promise.
LEMMA FlushCommits ==
  ASSUME TypeOK, RunnerInvariant, PageInvariant, EveryRouteAccounted', SomeRouteDelivered',
         NEW p \in Runners, Flush(p), pend[p].cp # 0
  PROVE  Promise!Commit
<1>1. checkpoint' \in 1..source
  BY CommitIsEarned
<1>2. source' = source /\ delivered' = delivered
  BY DEF Flush, world
<1>3. \E W \in SUBSET (Routes \X (1..source)) : Excused' = Excused \cup W
  BY CommitExcuses
<1>4. ASSUME NEW e \in 1..checkpoint'
      PROVE  /\ \A r \in Routes : <<r, e>> \in delivered \cup Excused'
             /\ \E r \in Routes : <<r, e>> \in delivered
  <2>1. e \in Events /\ e <= checkpoint'
    BY <1>1, BoundsAssumption DEF Events, TypeOK
  <2>2. \A r \in Routes : Accounted(r, e)'
    BY <2>1 DEF EveryRouteAccounted
  <2>3. \E r \in Routes : <<r, e>> \in delivered
    BY <1>2, <2>1 DEF SomeRouteDelivered
  <2>4. ASSUME NEW r \in Routes PROVE <<r, e>> \in delivered \cup Excused'
    <3>1. CASE <<r, e>> \in delivered'
      BY <1>2, <3>1
    <3>2. ASSUME NEW why \in Excuses, <<r, e, why>> \in waived'
          PROVE  <<r, e>> \in Excused'
      <4>1. LET w == <<r, e, why>> IN <<w[1], w[2]>> = <<r, e>> /\ w[3] \in Excuses
        BY <3>2
      <4> QED BY <3>2, <4>1 DEF Excused
    <3> QED BY <2>2, <3>1, <3>2 DEF Accounted
  <2> QED BY <2>3, <2>4
<1> QED BY <1>1, <1>2, <1>3, <1>4 DEF Promise!Commit

\* Every step of the runners or of their environment is a step of the promise
\* or leaves its variables alone.
LEMMA PromiseStep ==
  ASSUME TypeOK, RunnerInvariant, PageInvariant, EveryRouteAccounted', SomeRouteDelivered',
         [Next]_vars
  PROVE  [Promise!Next]_(Promise!vars)
<1>1. CASE UNCHANGED vars
  BY <1>1 DEF vars, world, db, Promise!vars, Excused
<1>2. CASE Environment
  <2>1. Excused' = Excused
    BY <1>2, EnvironmentEffect DEF Excused
  <2> QED BY <1>2, <2>1, EnvironmentEffect DEF Promise!Next, Promise!Produce, Promise!vars
<1>3. ASSUME NEW p \in Runners, RunStep(p) \/ Fault(p)
      PROVE  [Promise!Next]_(Promise!vars)
  <2>1. Effect(p)
    BY <1>3, EffectOfStep
  <2>2. CASE UNCHANGED <<delivered, waived, checkpoint>>
    BY <2>1, <2>2 DEF Effect, Promise!vars, Excused
  <2>3. CASE Sends(p)
    BY <2>1, <2>3, SendsDeliver DEF Effect, Promise!Next
  <2>4. CASE Flush(p) /\ pend[p].cp # 0
    BY <2>4, FlushCommits DEF Promise!Next
  <2>5. CASE Flush(p) /\ pend[p].cp = 0
    <3>1. UNCHANGED <<delivered, waived, checkpoint>>
      BY <2>5 DEF Flush, world
    <3> QED BY <2>2, <3>1
  <2> QED BY <2>1, <2>2, <2>3, <2>4, <2>5 DEF Effect
<1> QED BY <1>1, <1>2, <1>3 DEF Next

\* The runners keep the promise of CheckpointedDelivery while dedup does not
\* reach over earlier runs: crashes, stale contexts, partial sends, retries and
\* failed commits included.
THEOREM RunnersKeepPromise ==
  ASSUME DedupScope # "last_n_hours"
  PROVE  Spec => KeepsPromise
<1>1. Init => Promise!Init
  BY DEF Init, Promise!Init, Excused
<1>2. /\ TypeOK /\ RunnerInvariant /\ PageInvariant /\ EveryRouteAccounted'
      /\ SomeRouteDelivered' /\ [Next]_vars
      => [Promise!Next]_(Promise!vars)
  BY PromiseStep
<1>3. Spec => []EveryRouteAccounted
  BY CheckpointAccounts
<1> QED BY <1>1, <1>2, <1>3, RunnersSound, PagesHold, CheckpointIsReceived, PTL
        DEF Spec, KeepsPromise, Promise!Spec

=============================================================================
