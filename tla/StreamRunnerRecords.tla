------------------------ MODULE StreamRunnerRecords ------------------------
(***************************************************************************)
(* What becomes of events a run did not deliver: an absorbed failure is in *)
(* the replay table, and what a run with a session quarantined is in the   *)
(* quarantine table, when the checkpoint passes them.  Outcome says once   *)
(* what a step of a runner may do to results and records.                  *)
(***************************************************************************)
EXTENDS StreamRunnerRefinement, FiniteSetTheorems

(***************************************************************************)
(* Snapshots                                                               *)
(***************************************************************************)
\* A snapshot of at most SnapshotLimit consecutive numbers leaves none out
\* (_snapshot_events).
LEMMA SnapshotOfPage ==
  ASSUME NEW n \in Nat, NEW E \in SUBSET ((n + 1)..(n + MaxBatch)),
         MaxBatch <= SnapshotLimit
  PROVE  Snapshot(E) = E
<1> DEFINE a == n + 1
           b == n + MaxBatch
           P == a..b
<1>1. IsFiniteSet(P) /\ Cardinality(P) <= MaxBatch
  <2>1. a \in Int /\ b \in Int /\ b - a + 1 = MaxBatch
    BY BoundsAssumption
  <2> HIDE DEF a, b
  <2>2. IsFiniteSet(P) /\ Cardinality(P) = IF a > b THEN 0 ELSE b - a + 1
    BY <2>1, FS_Interval
  <2> QED BY <2>1, <2>2, BoundsAssumption
<1>2. ASSUME NEW e \in E
      PROVE  Cardinality({f \in E : f <= e}) <= SnapshotLimit
  <2> DEFINE T == {f \in E : f <= e}
  <2>1. T \in SUBSET P
    OBVIOUS
  <2>2. IsFiniteSet(T) /\ Cardinality(T) <= Cardinality(P)
    BY <1>1, <2>1, FS_Subset
  <2>3. Cardinality(T) \in Nat /\ Cardinality(P) \in Nat
    BY <1>1, <2>2, FS_CardinalityType
  <2> HIDE DEF T, P
  <2>4. Cardinality(T) <= SnapshotLimit
    BY <1>1, <2>2, <2>3, BoundsAssumption
  <2> QED BY <2>4 DEF T
<1> QED BY <1>2 DEF Snapshot

\* A row of an ordinary run keeps the whole batch when a page fits into it.
LEMMA SnapshotOfBatch ==
  ASSUME TypeOK, PageInvariant, NEW p \in Runners, ~InReplayWindow(p),
         MaxBatch <= SnapshotLimit
  PROVE  Snapshot(batch[p]) = batch[p]
<1>1. ctx[p].cp \in Nat
  BY BoundsAssumption DEF TypeOK
<1>2. batch[p] \in SUBSET ((ctx[p].cp + 1)..(ctx[p].cp + MaxBatch))
  BY <1>1, BoundsAssumption DEF PageInvariant, BatchIsPage, TypeOK, Events
<1> QED BY <1>1, <1>2, SnapshotOfPage

(***************************************************************************)
(* What a step does to results and records                                 *)
(***************************************************************************)
ResultsKept(p) ==
    /\ batch'[p] = batch[p]
    /\ \A r \in Routes :
          \/ res'[p][r] = res[p][r]
          \/ res'[p][r] \notin {"absorbed", "quarantine"}
          \/ RecordFailure(p) /\ r = cur[p]
          \/ Withhold(p, r)
Outcome(p) ==
    /\ replayRows \subseteq replayRows'
    /\ batch'[p] = {} \/ res'[p] = NoResults \/ ResultsKept(p)
    /\ \/ pend[p].quar \subseteq pend'[p].quar
       \/ pc'[p] \in {"idle", "enter", "collect", "release"}
    /\ pc[p] = "release" => pc'[p] = "idle"

\* Replay rows are never taken back, and a run's results and staged quarantine
\* rows change only by the step that records them.
LEMMA OutcomeOfStep ==
  ASSUME TypeOK, RunnerInvariant, NEW p \in Runners, RunStep(p) \/ Fault(p)
  PROVE  Outcome(p)
<1> USE DEF Outcome, ResultsKept, vars, world, db, attempt, locals
<1>0. LoopTracked(p)
  BY DEF RunnerInvariant
<1>1. CASE Load(p)
  BY <1>0, <1>1 DEF Load, LoopTracked, Writes, TypeOK
<1>2. CASE SkipLocked(p)
  BY <1>0, <1>2 DEF SkipLocked, LoopTracked, Writes, TypeOK
<1>3. CASE Enter(p)
  BY <1>0, <1>3 DEF Enter, ResolvedCheckpoint, LockAvailable, LoopTracked, Writes,
     TypeOK
<1>4. CASE LimitSource(p)
  BY <1>0, <1>4 DEF LimitSource, StageStatus, LoopTracked, Writes, TypeOK
<1>5. CASE Collect(p)
  <2>1. /\ res' = res /\ pend' = pend /\ replayRows' = replayRows
        /\ res[p] = NoResults /\ pc[p] = "collect"
    BY <1>0, <1>5 DEF Collect, LoopTracked
  <2> QED BY <2>1
<1>6. CASE NoFailover(p)
  BY <1>0, <1>6 DEF NoFailover, LoopTracked, Writes, TypeOK
<1>7. CASE FailoverFails(p)
  BY <1>0, <1>7 DEF FailoverFails, LoopTracked, Writes, TypeOK
<1>8. CASE FailoverSucceeds(p)
  BY <1>0, <1>8 DEF FailoverSucceeds, FinishRoute, ClearAttempt, LoopTracked, Writes,
     TypeOK
<1>9. CASE LogAndContinue(p)
  BY <1>0, <1>9 DEF LogAndContinue, LoopTracked, Writes, TypeOK
<1>10. CASE PauseStream(p)
  BY <1>0, <1>10 DEF PauseStream, StageStatus, LoopTracked, Writes, TypeOK
<1>11. CASE DisableRoute(p)
  BY <1>0, <1>11 DEF DisableRoute, StageDisabledRoute, LoopTracked, Writes, TypeOK
<1>12. CASE StartRetry(p)
  BY <1>0, <1>12 DEF StartRetry, LoopTracked, Writes, TypeOK
<1>13. CASE RetrySucceeds(p)
  BY <1>0, <1>13 DEF RetrySucceeds, StageRegistry, LoopTracked, Writes, TypeOK
<1>14. CASE RetryFails(p)
  BY <1>0, <1>14 DEF RetryFails, LoopTracked, Writes, TypeOK
<1>15. CASE RetryExhausted(p)
  <2>1. batch' = batch /\ pend' = pend /\ res' = res /\ pc[p] = "retry"
    BY <1>15 DEF RetryExhausted
  <2>2. replayRows \subseteq replayRows'
    BY <1>15 DEF RetryExhausted, RecordReplay
  <2> QED BY <2>1, <2>2
<1>16. CASE RecordFailure(p)
  <2>1. batch' = batch /\ pend' = pend /\ pc[p] = "record"
    BY <1>16 DEF RecordFailure
  <2>2. replayRows \subseteq replayRows'
    BY <1>16 DEF RecordFailure, RecordReplay
  <2>3. \A s \in Routes : s # cur[p] => res'[p][s] = res[p][s]
    BY <1>16 DEF RecordFailure, FinishRoute, TypeOK
  <2> QED BY <1>16, <2>1, <2>2, <2>3
<1>17. CASE RoutesDone(p)
  BY <1>0, <1>17 DEF RoutesDone, LoopTracked, Writes, TypeOK
<1>18. CASE Settle(p)
  BY <1>0, <1>18 DEF Settle, StageCheckpoint, LoopTracked, Writes, TypeOK
<1>19. CASE Flush(p)
  BY <1>0, <1>19 DEF Flush, LoopTracked, Writes, TypeOK
<1>20. CASE Release(p)
  BY <1>0, <1>20 DEF Release, ClearRun, ClearAttempt, LockReleased, LoopTracked, Writes,
     TypeOK
<1>21. CASE Raise(p)
  BY <1>0, <1>21 DEF Raise, LoopTracked, Writes, TypeOK
<1>22. CASE FlushFails(p)
  BY <1>0, <1>22 DEF FlushFails, LoopTracked, Writes, TypeOK
<1>23. CASE Crash(p)
  BY <1>0, <1>23 DEF Crash, ClearRun, ClearAttempt, LoopTracked, Writes, TypeOK
<1>24. ASSUME NEW r \in Routes, Withhold(p, r) PROVE Outcome(p)
  <2>1. /\ replayRows' = replayRows /\ batch' = batch /\ pc[p] = "routes"
    BY <1>24 DEF Withhold
  <2>2. PICK d \in Withholding :
          /\ FinishRoute(p, r, d)
          /\ StageQuarantine(p, IF d = "quarantine" /\ HasSession(p)
                                THEN Pairs(r, Snapshot(batch[p])) ELSE {})
    BY <1>24 DEF Withhold
  <2>3. \A s \in Routes : s # r => res'[p][s] = res[p][s]
    BY <2>2 DEF FinishRoute, TypeOK
  <2>4. pend[p].quar \subseteq pend'[p].quar
    BY <2>2 DEF StageQuarantine, Writes, TypeOK
  <2> QED BY <1>24, <2>1, <2>3, <2>4
<1>25. ASSUME NEW r \in Routes, SkipDisabledDestination(p, r) PROVE Outcome(p)
  BY <1>0, <1>25 DEF SkipDisabledDestination, FinishRoute, ClearAttempt, LoopTracked,
     Writes, TypeOK
<1>26. ASSUME NEW r \in Routes, LimitDestination(p, r) PROVE Outcome(p)
  BY <1>0, <1>26 DEF LimitDestination, FinishRoute, ClearAttempt, StageStatus,
     LoopTracked, Writes, TypeOK
<1>27. ASSUME NEW r \in Routes, SendSucceeds(p, r) PROVE Outcome(p)
  BY <1>0, <1>27 DEF SendSucceeds, FinishRoute, ClearAttempt, StageRegistry,
     LoopTracked, Writes, TypeOK
<1>28. ASSUME NEW r \in Routes, SendFails(p, r) PROVE Outcome(p)
  BY <1>0, <1>28 DEF SendFails, IsNext, LoopTracked, Writes, TypeOK
<1>29. ASSUME NEW d \in DynamicRoutes, SkipDynamic(p, d) PROVE Outcome(p)
  BY <1>0, <1>29 DEF SkipDynamic, LoopTracked, Writes, TypeOK
<1>30. ASSUME NEW d \in DynamicRoutes, DynamicSendSucceeds(p, d) PROVE Outcome(p)
  BY <1>0, <1>30 DEF DynamicSendSucceeds, LoopTracked, Writes, TypeOK
<1>31. ASSUME NEW d \in DynamicRoutes, DynamicSendFails(p, d) PROVE Outcome(p)
  <2>1. batch' = batch /\ pend' = pend /\ res' = res /\ pc[p] = "dynamic"
    BY <1>31 DEF DynamicSendFails
  <2>2. replayRows \subseteq replayRows'
    BY <1>31 DEF DynamicSendFails, RecordReplay
  <2> QED BY <2>1, <2>2
<1> QED
  BY <1>1, <1>2, <1>3, <1>4, <1>5, <1>6, <1>7, <1>8, <1>9, <1>10, <1>11, <1>12, <1>13,
     <1>14, <1>15, <1>16, <1>17, <1>18, <1>19, <1>20, <1>21, <1>22, <1>23, <1>24, <1>25,
     <1>26, <1>27, <1>28, <1>29, <1>30, <1>31 DEF RunStep, Fault

(***************************************************************************)
(* Absorbed failures                                                       *)
(***************************************************************************)
\* A failure that is recorded as absorbed has its whole batch in the replay
\* table (_maybe_record_replay_event).
LEMMA AbsorbedWrites ==
  ASSUME TypeOK, RunnerInvariant, PageInvariant, NEW p \in Runners, ~InReplayWindow(p),
         "replay_write" \notin Faults, MaxBatch <= SnapshotLimit,
         RecordFailure(p), res'[p][cur[p]] = "absorbed"
  PROVE  \A e \in batch[p] : <<cur[p], e>> \in replayRows'
<1>1. cur[p] \in Routes
  BY DEF RecordFailure, RunnerInvariant, LoopTracked, Sending, TypeOK
<1>2. res'[p][cur[p]] = FailedRouteResult(p)
  BY <1>1 DEF RecordFailure, FinishRoute, TypeOK
<1>3. fo[p] = "none" /\ ReplayEligible(err[p])
  BY <1>2 DEF FailedRouteResult
<1>4. RecordReplay(p, cur[p], err[p])
  BY <1>3 DEF RecordFailure
<1>5. replayRows' = replayRows \cup Pairs(cur[p], batch[p])
  BY <1>3, <1>4, SnapshotOfBatch DEF RecordReplay, ReplayRow
<1> QED BY <1>5 DEF Pairs

\* A run's absorbed failures stay recorded through each of its steps.
LEMMA RecordedStep ==
  ASSUME TypeOK, RunnerInvariant, PageInvariant, NEW p \in Runners, RunStep(p) \/ Fault(p),
         AbsorbedIsRecorded(p), "replay_write" \notin Faults, MaxBatch <= SnapshotLimit
  PROVE  AbsorbedIsRecorded(p)'
<1>1. Outcome(p)
  BY OutcomeOfStep
<1> SUFFICES ASSUME ~InReplayWindow(p), NEW r \in Routes, res'[p][r] = "absorbed",
                    NEW e \in batch'[p]
             PROVE  <<r, e>> \in replayRows'
  BY DEF AbsorbedIsRecorded, InReplayWindow
<1>2. ResultsKept(p)
  <2>1. batch'[p] # {} /\ res'[p] # NoResults
    BY DEF NoResults
  <2> QED BY <1>1, <2>1 DEF Outcome
<1>3. e \in batch[p]
  BY <1>2 DEF ResultsKept
<1>4. CASE res'[p][r] = res[p][r]
  BY <1>1, <1>3, <1>4 DEF AbsorbedIsRecorded, Outcome
<1>5. CASE RecordFailure(p) /\ r = cur[p]
  BY <1>3, <1>5, AbsorbedWrites
<1>6. CASE Withhold(p, r)
  <2>1. res'[p][r] \in Withholding
    BY <1>6 DEF Withhold, FinishRoute, TypeOK
  <2> QED BY <2>1 DEF Withholding
<1> QED BY <1>2, <1>4, <1>5, <1>6 DEF ResultsKept

\* RecordInvariant is inductive with the invariants before it, while replay
\* writes succeed and a page fits into a row.
LEMMA RecordStep ==
  ASSUME "replay_write" \notin Faults, MaxBatch <= SnapshotLimit
  PROVE  TypeOK /\ RunnerInvariant /\ PageInvariant /\ RecordInvariant /\ [Next]_vars
         => RecordInvariant'
<1> SUFFICES ASSUME TypeOK, RunnerInvariant, PageInvariant, RecordInvariant, [Next]_vars
             PROVE  RecordInvariant'
  OBVIOUS
<1>1. CASE UNCHANGED <<waived, replayRows, locals>>
  BY <1>1 DEF RecordInvariant, AbsorbedIsReplayable, AbsorbedIsRecorded, InReplayWindow,
     locals
<1>2. CASE UNCHANGED vars
  BY <1>1, <1>2 DEF vars, db
<1>3. CASE Environment
  <2>1. replayRows' = replayRows
    BY <1>3 DEF Environment, Produce, StartStream, SetRouteEnabled,
       SetDestinationEnabled, db
  <2> QED BY <1>1, <1>3, <2>1, EnvironmentEffect
<1>4. ASSUME NEW p \in Runners, RunStep(p) \/ Fault(p)
      PROVE  RecordInvariant'
  <2>1. replayRows \subseteq replayRows'
    BY <1>4, OutcomeOfStep DEF Outcome
  <2>2. ASSUME NEW q \in Runners PROVE AbsorbedIsRecorded(q)'
    <3>1. CASE q = p
      BY <1>4, <3>1, RecordedStep DEF RecordInvariant
    <3>2. CASE q # p
      <4>1. res'[q] = res[q] /\ batch'[q] = batch[q]
        BY <1>4, <3>2, Footprint DEF OthersUntouched
      <4> QED BY <2>1, <4>1 DEF RecordInvariant, AbsorbedIsRecorded, InReplayWindow
    <3> QED BY <3>1, <3>2
  <2>3. ASSUME NEW r \in Routes, NEW e \in Events, <<r, e, "absorbed">> \in waived'
        PROVE  <<r, e>> \in replayRows'
    <3>1. CASE <<r, e, "absorbed">> \in waived
      BY <2>1, <2>3, <3>1 DEF RecordInvariant, AbsorbedIsReplayable
    <3>2. CASE Flush(p) /\ pend[p].cp # 0 /\ <<r, e, "absorbed">> \in PassedOver(p)
      <4>1. e \in batch[p] /\ res[p][r] = "absorbed"
        BY <3>2 DEF PassedOver
      <4>2. ~InReplayWindow(p)
        BY <3>2, RunnersAssumption DEF Flush, RunnerInvariant, StagedIsEarned,
           PersistsCheckpoint, InReplayWindow
      <4> QED BY <2>1, <4>1, <4>2 DEF RecordInvariant, AbsorbedIsRecorded
    <3>3. CASE Flush(p)
      BY <2>3, <3>1, <3>2, <3>3 DEF Flush
    <3>4. CASE waived' = waived
      BY <2>3, <3>1, <3>4
    <3> QED BY <1>4, <3>3, <3>4, EffectOfStep DEF Effect, Sends
  <2> QED BY <2>2, <2>3 DEF RecordInvariant, AbsorbedIsReplayable
<1> QED BY <1>2, <1>3, <1>4 DEF Next

\* No absorbed failure is forgotten: when the checkpoint passes an event that
\* LOG_AND_CONTINUE absorbed, the event is in the replay table, while replay
\* writes succeed and no page is larger than a row's snapshot
\* (_maybe_record_replay_event, _snapshot_events, _flush_pending_writes).
THEOREM AbsorbedStaysReplayable ==
  ASSUME "replay_write" \notin Faults, MaxBatch <= SnapshotLimit
  PROVE  Spec => []AbsorbedIsReplayable
<1>1. Init => RecordInvariant
  BY DEF Init, RecordInvariant, AbsorbedIsReplayable, AbsorbedIsRecorded
<1>2. TypeOK /\ RunnerInvariant /\ PageInvariant /\ RecordInvariant /\ [Next]_vars
      => RecordInvariant'
  BY RecordStep
<1>3. RecordInvariant => AbsorbedIsReplayable
  BY DEF RecordInvariant
<1> QED BY <1>1, <1>2, <1>3, RunnersSound, PagesHold, PTL DEF Spec

(***************************************************************************)
(* Quarantined batches                                                     *)
(***************************************************************************)
\* What a run with a session has quarantined stays staged until its commit.
LEMMA StagedQuarantineStep ==
  ASSUME MaxBatch <= SnapshotLimit, TypeOK, RunnerInvariant, PageInvariant,
         NEW p \in Runners, RunStep(p) \/ Fault(p), QuarantineIsStaged(p)
  PROVE  QuarantineIsStaged(p)'
<1>1. Outcome(p)
  BY OutcomeOfStep
<1> SUFFICES ASSUME HasSession(p), ~InReplayWindow(p), (InPipeline(p) \/ pc[p] = "flush")',
                    NEW r \in Routes, res'[p][r] = "quarantine", NEW e \in batch'[p]
             PROVE  <<r, e>> \in pend'[p].quar
  BY DEF QuarantineIsStaged, InReplayWindow, HasSession
<1>2. ResultsKept(p) /\ pend[p].quar \subseteq pend'[p].quar
  <2>1. batch'[p] # {} /\ res'[p] # NoResults
    BY DEF NoResults
  <2>2. pc'[p] \notin {"idle", "enter", "collect", "release"}
    BY DEF InPipeline, Sending
  <2> QED BY <1>1, <2>1, <2>2 DEF Outcome
<1>3. e \in batch[p]
  BY <1>2 DEF ResultsKept
<1>4. CASE res'[p][r] = res[p][r]
  <2>1. res[p] # NoResults /\ batch[p] # {}
    BY <1>3, <1>4 DEF NoResults
  <2>2. pc[p] # "release" /\ pc[p] \notin {"idle", "enter", "collect"}
    <3>1. pc[p] \notin {"idle", "enter", "collect"}
      BY <2>1 DEF RunnerInvariant, LoopTracked
    <3>2. pc[p] = "release" => pc'[p] = "idle"
      BY <1>1 DEF Outcome
    <3> QED BY <3>1, <3>2 DEF InPipeline, Sending
  <2>3. InPipeline(p) \/ pc[p] = "flush"
    BY <2>2 DEF InPipeline, Sending, TypeOK, PCs
  <2> QED BY <1>2, <1>3, <1>4, <2>3 DEF QuarantineIsStaged
<1>5. CASE RecordFailure(p) /\ r = cur[p]
  <2>1. res'[p][r] = FailedRouteResult(p)
    BY <1>5 DEF RecordFailure, FinishRoute, TypeOK
  <2> QED BY <2>1 DEF FailedRouteResult
<1>6. CASE Withhold(p, r)
  <2>1. PICK d \in Withholding :
          /\ FinishRoute(p, r, d)
          /\ StageQuarantine(p, IF d = "quarantine" /\ HasSession(p)
                                THEN Pairs(r, Snapshot(batch[p])) ELSE {})
    BY <1>6 DEF Withhold
  <2>2. d = "quarantine"
    BY <2>1 DEF FinishRoute, TypeOK
  <2>3. Pairs(r, Snapshot(batch[p])) \subseteq pend'[p].quar
    BY <2>1, <2>2 DEF StageQuarantine, Writes, TypeOK
  <2> QED BY <1>3, <2>3, SnapshotOfBatch DEF Pairs
<1> QED BY <1>2, <1>4, <1>5, <1>6 DEF ResultsKept

\* The commit of a run with a session that takes the checkpoint past a
\* quarantined batch puts it into the quarantine table (the policy stage in
\* route_policy/stage.py, _flush_pending_writes): only runs without a session
\* lose it.
THEOREM SessionsKeepQuarantine ==
  ASSUME MaxBatch <= SnapshotLimit
  PROVE  Spec => SessionKeepsQuarantine
<1> DEFINE Staged == \A p \in Runners : QuarantineIsStaged(p)
<1>1. Init => Staged
  BY DEF Init, QuarantineIsStaged
<1>2. TypeOK /\ RunnerInvariant /\ PageInvariant /\ Staged /\ [Next]_vars => Staged'
  <2> SUFFICES ASSUME TypeOK, RunnerInvariant, PageInvariant, Staged, [Next]_vars,
                      NEW q \in Runners
               PROVE  QuarantineIsStaged(q)'
    OBVIOUS
  <2>1. CASE UNCHANGED locals
    BY <2>1 DEF QuarantineIsStaged, HasSession, InReplayWindow, InPipeline, Sending, locals
  <2>2. CASE UNCHANGED vars \/ Environment
    BY <2>1, <2>2, EnvironmentEffect DEF vars
  <2>3. ASSUME NEW p \in Runners, RunStep(p) \/ Fault(p)
        PROVE  QuarantineIsStaged(q)'
    <3>1. CASE q = p
      BY <2>3, <3>1, StagedQuarantineStep
    <3>2. CASE q # p
      <4>1. /\ pc'[q] = pc[q] /\ res'[q] = res[q] /\ batch'[q] = batch[q]
            /\ pend'[q] = pend[q]
        BY <2>3, <3>2, Footprint DEF OthersUntouched
      <4> QED BY <4>1 DEF QuarantineIsStaged, HasSession, InReplayWindow, InPipeline, Sending
    <3> QED BY <3>1, <3>2
  <2> QED BY <2>2, <2>3 DEF Next
<1>3. TypeOK /\ RunnerInvariant /\ Staged =>
        \A p \in Runners :
          HasSession(p) /\ pend[p].cp # 0 /\ Flush(p) =>
              \A r \in Routes, e \in Events :
                  <<r, e, "quarantine">> \in PassedOver(p) => <<r, e>> \in quarantine'
  <2> SUFFICES ASSUME TypeOK, RunnerInvariant, Staged, NEW p \in Runners, NEW r \in Routes,
                      NEW e \in Events, HasSession(p), Flush(p), pend[p].cp # 0,
                      <<r, e, "quarantine">> \in PassedOver(p)
               PROVE  <<r, e>> \in quarantine'
    OBVIOUS
  <2>1. e \in batch[p] /\ res[p][r] = "quarantine"
    BY DEF PassedOver
  <2>2. pc[p] = "flush" /\ ~InReplayWindow(p)
    BY RunnersAssumption DEF Flush, RunnerInvariant, StagedIsEarned, PersistsCheckpoint,
       InReplayWindow
  <2>3. <<r, e>> \in pend[p].quar
    BY <2>1, <2>2 DEF QuarantineIsStaged
  <2> QED BY <2>3 DEF Flush
<1> HIDE DEF Staged
<1> QED BY <1>1, <1>2, <1>3, RunnersSound, PagesHold, PTL DEF Spec, SessionKeepsQuarantine

=============================================================================
