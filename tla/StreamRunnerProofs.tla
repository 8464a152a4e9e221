------------------------- MODULE StreamRunnerProofs -------------------------
(***************************************************************************)
(* Proofs about StreamRunner, for every set of runners and routes, every   *)
(* policy, decision, failover and retry configuration and every fault.     *)
(*                                                                         *)
(* RunnerInvariant is inductive together with TypeOK: a runner past its    *)
(* entry holds the lock, its loop variables agree, what it claims to have  *)
(* delivered was delivered, and what it has staged is earned.  On top of   *)
(* it AccountingInvariant is inductive while no dedup scope reaches over   *)
(* earlier runs, and ReceiptInvariant is inductive whatever the scope.     *)
(***************************************************************************)
EXTENDS StreamRunner, TLAPS

(***************************************************************************)
(* Operators                                                               *)
(***************************************************************************)

\* A route paired with events is a set of route-event pairs.
LEMMA PairsType ==
  ASSUME NEW R, NEW r \in R, NEW S, NEW E \in SUBSET S
  PROVE  Pairs(r, E) \subseteq R \X S
BY DEF Pairs

\* A snapshot keeps only events of its batch (_snapshot_events).
LEMMA SnapshotType == \A E : Snapshot(E) \subseteq E
BY DEF Snapshot

\* Recording a replay row keeps the replay table well-typed.
LEMMA RecordReplayType ==
  ASSUME TypeOK, NEW p \in Runners, NEW r \in Routes \cup DynamicRoutes, NEW e,
         RecordReplay(p, r, e)
  PROVE  replayRows' \subseteq (Routes \cup DynamicRoutes) \X Events
<1>1. batch[p] \in SUBSET Events
  BY DEF TypeOK
<1>2. Snapshot(batch[p]) \in SUBSET Events
  BY <1>1, SnapshotType
<1>3. Pairs(r, Snapshot(batch[p])) \subseteq (Routes \cup DynamicRoutes) \X Events
  BY <1>2, PairsType
<1> QED BY <1>3 DEF RecordReplay, ReplayRow, TypeOK

\* The reasons a commit notes are well-typed.
LEMMA PassedOverType ==
  ASSUME TypeOK, NEW p \in Runners
  PROVE  PassedOver(p) \subseteq Routes \X Events \X (Results \cup {"route_off"})
<1>1. batch[p] \subseteq Events /\ Undelivered(p) \subseteq Routes
  BY DEF TypeOK, Undelivered
<1>2. \A r \in Undelivered(p) :
         (IF r \in ctx[p].routes THEN res[p][r] ELSE "route_off") \in Results \cup {"route_off"}
  BY <1>1 DEF TypeOK
<1> QED BY <1>1, <1>2 DEF PassedOver

\* A source adapter returns only events.
LEMMA FetchableType ==
  ASSUME TypeOK, NEW p \in Runners, NEW F \in Fetchable(p)
  PROVE  F \subseteq Events
<1>1. source \in Int /\ source <= MaxEvents /\ MaxEvents \in Int /\ ctx[p].cp \in Nat
  BY BoundsAssumption DEF TypeOK
<1>2. CASE InReplayWindow(p)
  BY <1>1, <1>2 DEF Fetchable, Events
<1>3. CASE ~InReplayWindow(p)
  BY <1>1, <1>3 DEF Fetchable, Events
<1> QED BY <1>2, <1>3

\* A send, whole or partial, keeps the delivered set well-typed.
LEMMA SendPartType ==
  ASSUME TypeOK, NEW p \in Runners, NEW r \in Routes, NEW got \in SUBSET batch[p]
  PROVE delivered \cup Pairs(r, got) \subseteq Routes \X Events
<1>1. got \in SUBSET Events
  BY DEF TypeOK
<1> QED BY <1>1, PairsType DEF TypeOK

\* What is accounted for stays accounted for while the histories grow.
LEMMA AccountedGrows ==
  ASSUME delivered \subseteq delivered', waived \subseteq waived', NEW r, NEW e,
  Accounted(r, e)
  PROVE  Accounted(r, e)'
BY DEF Accounted, Excuses

(***************************************************************************)
(* Steps of a runner                                                       *)
(***************************************************************************)
\* A step of a runner leaves the state well-typed.
LEMMA TypeStep ==
  ASSUME TypeOK, \A q \in Runners : Sending(q) => cur[q] \in todo[q], NEW p \in Runners,
         RunStep(p) \/ Fault(p)
  PROVE  TypeOK'
<1> USE RunnersAssumption, RoutesAssumption, BoundsAssumption
    DEF vars, world, db, attempt, locals, PCs, Events, NoContext, NoWrites, Writes,
        NoResults, Statuses, NoRoute, Results, Withholding, Errors
<1>0. Sending(p) => cur[p] \in Routes
  BY DEF TypeOK
<1>1. CASE Load(p)
  <2>1. PICK d \in BOOLEAN : dry' = [dry EXCEPT ![p] = d]
    BY <1>1 DEF Load
  <2> QED BY <1>1, <2>1 DEF Load, TypeOK
<1>2. CASE SkipLocked(p)
  BY <1>2 DEF SkipLocked, TypeOK
<1>3. CASE Enter(p)
  BY <1>3 DEF Enter, ResolvedCheckpoint, TypeOK
<1>4. CASE LimitSource(p)
  BY <1>4 DEF LimitSource, StageStatus, TypeOK
<1>5. CASE Collect(p)
  <2>1. PICK F \in Fetchable(p) : batch' = [batch EXCEPT ![p] = F \ SeedKeys(p)]
    BY <1>5 DEF Collect
  <2>2. F \ SeedKeys(p) \subseteq Events
    BY FetchableType
  <2>3. batch' \in [Runners -> SUBSET Events]
    BY <2>1, <2>2 DEF TypeOK
  <2>4. \E s \in PCs : pc' = [pc EXCEPT ![p] = s]
    BY <1>5 DEF Collect
  <2>5. pc' \in [Runners -> PCs]
    BY <2>4 DEF TypeOK
  <2>6. todo' = todo \/ todo' = [todo EXCEPT ![p] = ctx[p].routes]
    BY <1>5 DEF Collect
  <2>7. todo \in [Runners -> SUBSET Routes] /\ ctx[p].routes \in SUBSET Routes
    BY DEF TypeOK
  <2>8. todo' \in [Runners -> SUBSET Routes]
    BY <2>6, <2>7
  <2> QED BY <1>5, <2>3, <2>5, <2>8 DEF Collect, TypeOK
<1>6. CASE NoFailover(p)
  BY <1>6 DEF NoFailover, TypeOK
<1>7. CASE FailoverFails(p)
  <2>1. PICK got \in SUBSET batch[p] : delivered' = delivered \cup Pairs(cur[p], got)
    BY <1>7 DEF FailoverFails
  <2>2. delivered' \subseteq Routes \X Events
    BY <1>0, <1>7, <2>1, SendPartType DEF FailoverFails, Sending
  <2>3. fo' \in [Runners -> {"none", "skipped", "failed"}]
    BY <1>7 DEF FailoverFails, TypeOK
  <2> QED BY <1>7, <2>2, <2>3 DEF FailoverFails, TypeOK
<1>8. CASE FailoverSucceeds(p)
  <2>1. delivered' \subseteq Routes \X Events
    BY <1>0, <1>8, SendPartType DEF FailoverSucceeds, Sending
  <2>2. res' \in [Runners -> [Routes -> Results]]
    BY <1>0, <1>8 DEF FailoverSucceeds, FinishRoute, Sending, TypeOK
  <2> HIDE DEF Results
  <2> QED BY <1>8, <2>1, <2>2 DEF FailoverSucceeds, FinishRoute, ClearAttempt, TypeOK
<1>9. CASE LogAndContinue(p)
  BY <1>9 DEF LogAndContinue, TypeOK
<1>10. CASE PauseStream(p)
  BY <1>10 DEF PauseStream, StageStatus, TypeOK
<1>11. CASE DisableRoute(p)
  BY <1>0, <1>11 DEF DisableRoute, StageDisabledRoute, Sending, TypeOK
<1>12. CASE StartRetry(p)
  BY <1>12 DEF StartRetry, TypeOK
<1>13. CASE RetrySucceeds(p)
  <2>1. delivered' \subseteq Routes \X Events
    BY <1>0, <1>13, SendPartType DEF RetrySucceeds, Sending
  <2> QED BY <1>13, <2>1 DEF RetrySucceeds, StageRegistry, DedupKeys, TypeOK
<1>14. CASE RetryFails(p)
  <2>1. PICK got \in SUBSET batch[p] : delivered' = delivered \cup Pairs(cur[p], got)
    BY <1>14 DEF RetryFails
  <2>2. delivered' \subseteq Routes \X Events
    BY <1>0, <1>14, <2>1, SendPartType DEF RetryFails, Sending
  <2>3. tries' \in [Runners -> 0..RetryCount]
    BY <1>14 DEF RetryFails, RetriesLeft, TypeOK
  <2> QED BY <1>14, <2>2, <2>3 DEF RetryFails, TypeOK
<1>15. CASE RetryExhausted(p)
  <2>1. replayRows' \subseteq (Routes \cup DynamicRoutes) \X Events
    BY <1>0, <1>15, RecordReplayType DEF RetryExhausted, Sending
  <2> QED BY <1>15, <2>1 DEF RetryExhausted, TypeOK
<1>16. CASE RecordFailure(p)
  <2>1. replayRows' \subseteq (Routes \cup DynamicRoutes) \X Events
    BY <1>0, <1>16, RecordReplayType DEF RecordFailure, Sending
  <2>2. FailedRouteResult(p) \in Results
    BY DEF FailedRouteResult
  <2>3. res' \in [Runners -> [Routes -> Results]]
    BY <1>0, <1>16, <2>2 DEF RecordFailure, FinishRoute, Sending, TypeOK
  <2> HIDE DEF Results
  <2> QED BY <1>16, <2>1, <2>3 DEF RecordFailure, FinishRoute, ClearAttempt, TypeOK
<1>17. CASE RoutesDone(p)
  BY <1>17 DEF RoutesDone, TypeOK
<1>18. CASE Settle(p)
  <2>1. pend' = pend \/ \E k \in batch[p] : StageCheckpoint(p, k)
    BY <1>18 DEF Settle
  <2>2. batch[p] \subseteq 0..MaxEvents
    BY DEF TypeOK
  <2>3. pend' \in [Runners -> [status : Statuses \cup {"none"}, off : SUBSET Routes,
                              cp : 0..MaxEvents, reg : SUBSET Events,
                              quar : SUBSET (Routes \X Events)]]
    <3>1. CASE pend' = pend
      BY <3>1 DEF TypeOK
    <3>2. ASSUME NEW k \in batch[p], StageCheckpoint(p, k)
          PROVE  pend' \in [Runners -> [status : Statuses \cup {"none"},
          off : SUBSET Routes,
                              cp : 0..MaxEvents, reg : SUBSET Events,
                              quar : SUBSET (Routes \X Events)]]
      BY <2>2, <3>2 DEF StageCheckpoint, TypeOK
    <3> QED BY <2>1, <3>1, <3>2
  <2> QED BY <1>18, <2>3 DEF Settle, TypeOK
<1>19. CASE Flush(p)
  <2>1. waived' \subseteq Routes \X Events \X (Results \cup {"route_off"})
    <3>1. PassedOver(p) \subseteq Routes \X Events \X (Results \cup {"route_off"})
      BY PassedOverType
    <3>2. waived \subseteq Routes \X Events \X (Results \cup {"route_off"})
      BY DEF TypeOK
    <3> HIDE DEF Results
    <3> QED BY <1>19, <3>1, <3>2 DEF Flush
  <2>2. /\ status' \in Statuses
        /\ routeOn' \subseteq Routes
        /\ checkpoint' \in 0..MaxEvents
        /\ registry' \subseteq Events
        /\ quarantine' \subseteq Routes \X Events
        /\ pc' \in [Runners -> PCs]
    BY <1>19 DEF Flush, TypeOK
  <2>3. pend' \in [Runners -> [status : Statuses \cup {"none"}, off : SUBSET Routes,
                              cp : 0..MaxEvents, reg : SUBSET Events,
                              quar : SUBSET (Routes \X Events)]]
    BY <1>19 DEF Flush, TypeOK
  <2> HIDE DEF Results
  <2> QED BY <1>19, <2>1, <2>2, <2>3 DEF Flush, TypeOK
<1>20. CASE Release(p)
  BY <1>20 DEF Release, ClearRun, ClearAttempt, LockReleased, TypeOK
<1>21. CASE Raise(p)
  BY <1>21 DEF Raise, TypeOK
<1>22. CASE FlushFails(p)
  BY <1>22 DEF FlushFails, TypeOK
<1>23. CASE Crash(p)
  BY <1>23 DEF Crash, ClearRun, ClearAttempt, TypeOK
<1>24. ASSUME NEW r \in Routes, Withhold(p, r)
  PROVE TypeOK'
  <2>1. PICK d \in Withholding :
          /\ FinishRoute(p, r, d)
          /\ StageQuarantine(p, IF d = "quarantine" /\ HasSession(p)
                                THEN Pairs(r, Snapshot(batch[p])) ELSE {})
    BY <1>24 DEF Withhold
  <2>2. Snapshot(batch[p]) \in SUBSET Events
    BY SnapshotType DEF TypeOK
  <2>3. Pairs(r, Snapshot(batch[p])) \subseteq Routes \X Events
    BY <2>2, PairsType
  <2> QED BY <1>24, <2>1, <2>3 DEF Withhold, FinishRoute, ClearAttempt,
     StageQuarantine, TypeOK
<1>25. ASSUME NEW r \in Routes, SkipDisabledDestination(p, r)
  PROVE TypeOK'
  BY <1>25 DEF SkipDisabledDestination, FinishRoute, ClearAttempt, TypeOK
<1>26. ASSUME NEW r \in Routes, LimitDestination(p, r)
  PROVE TypeOK'
  BY <1>26 DEF LimitDestination, StageStatus, FinishRoute, ClearAttempt, TypeOK
<1>27. ASSUME NEW r \in Routes, SendSucceeds(p, r)
  PROVE TypeOK'
  <2>1. delivered' \subseteq Routes \X Events
    BY <1>27, SendPartType DEF SendSucceeds
  <2> QED BY <1>27, <2>1 DEF SendSucceeds, StageRegistry, DedupKeys, FinishRoute,
     ClearAttempt, TypeOK
<1>28. ASSUME NEW r \in Routes, SendFails(p, r)
  PROVE TypeOK'
  <2>1. PICK got \in SUBSET batch[p] : delivered' = delivered \cup Pairs(r, got)
    BY <1>28 DEF SendFails
  <2>2. delivered' \subseteq Routes \X Events
    BY <2>1, SendPartType
  <2>3. PICK e \in Errors : err' = [err EXCEPT ![p] = e]
    BY <1>28 DEF SendFails
  <2> QED BY <1>28, <2>2, <2>3 DEF SendFails, TypeOK
<1>29. ASSUME NEW d \in DynamicRoutes, SkipDynamic(p, d)
  PROVE TypeOK'
  BY <1>29 DEF SkipDynamic, TypeOK
<1>30. ASSUME NEW d \in DynamicRoutes, DynamicSendSucceeds(p, d)
  PROVE TypeOK'
  BY <1>30 DEF DynamicSendSucceeds, TypeOK
<1>31. ASSUME NEW d \in DynamicRoutes, DynamicSendFails(p, d)
  PROVE TypeOK'
  <2>1. replayRows' \subseteq (Routes \cup DynamicRoutes) \X Events
    BY <1>31, RecordReplayType DEF DynamicSendFails
  <2> QED BY <1>31, <2>1 DEF DynamicSendFails, TypeOK
<1> QED
  BY <1>1, <1>2, <1>3, <1>4, <1>5, <1>6, <1>7, <1>8, <1>9, <1>10, <1>11, <1>12, <1>13,
     <1>14, <1>15, <1>16, <1>17, <1>18, <1>19, <1>20, <1>21, <1>22, <1>23, <1>24,
        <1>25, <1>26, <1>27, <1>28, <1>29, <1>30, <1>31 DEF RunStep, Fault

\* What a step of p may do to others: the locals of a runner q stay as they
\* are, deliveries and waivers are never taken back, and only the commit of a
\* staged checkpoint moves the checkpoint.
OthersUntouched(p, q) ==
    q # p => /\ pc'[q] = pc[q] /\ ctx'[q] = ctx[q] /\ batch'[q] = batch[q]
             /\ todo'[q] = todo[q] /\ cur'[q] = cur[q] /\ recovered'[q] = recovered[q]
             /\ res'[q] = res[q] /\ pend'[q] = pend[q]
HistoryGrows == delivered \subseteq delivered' /\ waived \subseteq waived'
OnlyFlushMoves(p) ==
    checkpoint' # checkpoint => Flush(p) /\ pend[p].cp # 0 /\ checkpoint' = pend[p].cp

\* Every step of a runner stays within that footprint.
LEMMA Footprint ==
  ASSUME TypeOK, NEW q \in Runners, NEW p \in Runners, RunStep(p) \/ Fault(p)
  PROVE  OthersUntouched(p, q) /\ HistoryGrows /\ OnlyFlushMoves(p)
<1> USE DEF OthersUntouched, HistoryGrows, OnlyFlushMoves, vars, world, db, attempt,
   locals
<1>1. CASE Load(p)
  BY <1>1 DEF Load, TypeOK
<1>2. CASE SkipLocked(p)
  BY <1>2 DEF SkipLocked, TypeOK
<1>3. CASE Enter(p)
  BY <1>3 DEF Enter, ResolvedCheckpoint, LockAvailable, TypeOK
<1>4. CASE LimitSource(p)
  BY <1>4 DEF LimitSource, StageStatus, TypeOK
<1>5. CASE Collect(p)
  BY <1>5 DEF Collect, TypeOK
<1>6. CASE NoFailover(p)
  BY <1>6 DEF NoFailover, TypeOK
<1>7. CASE FailoverFails(p)
  BY <1>7 DEF FailoverFails, TypeOK
<1>8. CASE FailoverSucceeds(p)
  BY <1>8 DEF FailoverSucceeds, FinishRoute, ClearAttempt, TypeOK
<1>9. CASE LogAndContinue(p)
  BY <1>9 DEF LogAndContinue, TypeOK
<1>10. CASE PauseStream(p)
  BY <1>10 DEF PauseStream, StageStatus, TypeOK
<1>11. CASE DisableRoute(p)
  BY <1>11 DEF DisableRoute, StageDisabledRoute, TypeOK
<1>12. CASE StartRetry(p)
  BY <1>12 DEF StartRetry, TypeOK
<1>13. CASE RetrySucceeds(p)
  BY <1>13 DEF RetrySucceeds, StageRegistry, TypeOK
<1>14. CASE RetryFails(p)
  BY <1>14 DEF RetryFails, TypeOK
<1>15. CASE RetryExhausted(p)
  BY <1>15 DEF RetryExhausted, TypeOK
<1>16. CASE RecordFailure(p)
  BY <1>16 DEF RecordFailure, FinishRoute, ClearAttempt, TypeOK
<1>17. CASE RoutesDone(p)
  BY <1>17 DEF RoutesDone, TypeOK
<1>18. CASE Settle(p)
  BY <1>18 DEF Settle, StageCheckpoint, TypeOK
<1>19. CASE Flush(p)
  BY <1>19 DEF Flush, TypeOK
<1>20. CASE Release(p)
  BY <1>20 DEF Release, ClearRun, ClearAttempt, LockReleased, TypeOK
<1>21. CASE Raise(p)
  BY <1>21 DEF Raise, TypeOK
<1>22. CASE FlushFails(p)
  BY <1>22 DEF FlushFails, TypeOK
<1>23. CASE Crash(p)
  BY <1>23 DEF Crash, ClearRun, ClearAttempt, TypeOK
<1>24. ASSUME NEW r \in Routes, Withhold(p, r)
       PROVE OthersUntouched(p, q) /\ HistoryGrows /\ OnlyFlushMoves(p)
  <2>1. /\ delivered' = delivered /\ waived' = waived /\ checkpoint' = checkpoint
        /\ ctx' = ctx /\ batch' = batch
    BY <1>24 DEF Withhold
  <2>2. PICK d \in Withholding :
          /\ FinishRoute(p, r, d)
          /\ StageQuarantine(p, IF d = "quarantine" /\ HasSession(p)
                                THEN Pairs(r, Snapshot(batch[p])) ELSE {})
    BY <1>24 DEF Withhold
  <2> QED BY <2>1, <2>2 DEF FinishRoute, ClearAttempt, StageQuarantine, TypeOK
<1>25. ASSUME NEW r \in Routes, SkipDisabledDestination(p, r)
       PROVE OthersUntouched(p, q) /\ HistoryGrows /\ OnlyFlushMoves(p)
  BY <1>25 DEF SkipDisabledDestination, FinishRoute, ClearAttempt, TypeOK
<1>26. ASSUME NEW r \in Routes, LimitDestination(p, r)
       PROVE OthersUntouched(p, q) /\ HistoryGrows /\ OnlyFlushMoves(p)
  BY <1>26 DEF LimitDestination, FinishRoute, ClearAttempt, StageStatus, TypeOK
<1>27. ASSUME NEW r \in Routes, SendSucceeds(p, r)
       PROVE OthersUntouched(p, q) /\ HistoryGrows /\ OnlyFlushMoves(p)
  BY <1>27 DEF SendSucceeds, FinishRoute, ClearAttempt, StageRegistry, TypeOK
<1>28. ASSUME NEW r \in Routes, SendFails(p, r)
       PROVE OthersUntouched(p, q) /\ HistoryGrows /\ OnlyFlushMoves(p)
  BY <1>28 DEF SendFails, IsNext, TypeOK
<1>29. ASSUME NEW d \in DynamicRoutes, SkipDynamic(p, d)
       PROVE OthersUntouched(p, q) /\ HistoryGrows /\ OnlyFlushMoves(p)
  BY <1>29 DEF SkipDynamic, TypeOK
<1>30. ASSUME NEW d \in DynamicRoutes, DynamicSendSucceeds(p, d)
       PROVE OthersUntouched(p, q) /\ HistoryGrows /\ OnlyFlushMoves(p)
  BY <1>30 DEF DynamicSendSucceeds, TypeOK
<1>31. ASSUME NEW d \in DynamicRoutes, DynamicSendFails(p, d)
       PROVE OthersUntouched(p, q) /\ HistoryGrows /\ OnlyFlushMoves(p)
  BY <1>31 DEF DynamicSendFails, TypeOK
<1> QED
  BY <1>1, <1>2, <1>3, <1>4, <1>5, <1>6, <1>7, <1>8, <1>9, <1>10, <1>11, <1>12, <1>13,
     <1>14, <1>15, <1>16, <1>17, <1>18, <1>19, <1>20, <1>21, <1>22, <1>23, <1>24,
        <1>25, <1>26, <1>27, <1>28, <1>29, <1>30, <1>31 DEF RunStep, Fault

\* A runner past its entry holds the lock after any step.
LEMMA LockStep ==
  ASSUME TypeOK, RunnerInvariant, NEW p \in Runners, RunStep(p) \/ Fault(p)
  PROVE  \A q \in Runners : HoldsLock(q)'
<1> USE RunnersAssumption DEF vars, world, db, attempt, locals
<1>0. \A q \in Runners : HoldsLock(q)
  BY DEF RunnerInvariant
<1>1. CASE Load(p)
  BY <1>0, <1>1 DEF Load, HoldsLock, Running, TypeOK, NoRunner
<1>2. CASE SkipLocked(p)
  BY <1>0, <1>2 DEF SkipLocked, HoldsLock, Running, TypeOK, NoRunner
<1>3. CASE Enter(p)
  BY <1>0, <1>3 DEF Enter, ResolvedCheckpoint, LockAvailable, HoldsLock, Running,
     TypeOK, NoRunner
<1>4. CASE LimitSource(p)
  BY <1>0, <1>4 DEF LimitSource, StageStatus, HoldsLock, Running, TypeOK, NoRunner
<1>5. CASE Collect(p)
  BY <1>0, <1>5 DEF Collect, HoldsLock, Running, TypeOK, NoRunner
<1>6. CASE NoFailover(p)
  BY <1>0, <1>6 DEF NoFailover, HoldsLock, Running, TypeOK, NoRunner
<1>7. CASE FailoverFails(p)
  BY <1>0, <1>7 DEF FailoverFails, HoldsLock, Running, TypeOK, NoRunner
<1>8. CASE FailoverSucceeds(p)
  BY <1>0, <1>8 DEF FailoverSucceeds, FinishRoute, ClearAttempt, HoldsLock, Running,
     TypeOK, NoRunner
<1>9. CASE LogAndContinue(p)
  BY <1>0, <1>9 DEF LogAndContinue, HoldsLock, Running, TypeOK, NoRunner
<1>10. CASE PauseStream(p)
  BY <1>0, <1>10 DEF PauseStream, StageStatus, HoldsLock, Running, TypeOK, NoRunner
<1>11. CASE DisableRoute(p)
  BY <1>0, <1>11 DEF DisableRoute, StageDisabledRoute, HoldsLock, Running, TypeOK,
     NoRunner
<1>12. CASE StartRetry(p)
  BY <1>0, <1>12 DEF StartRetry, HoldsLock, Running, TypeOK, NoRunner
<1>13. CASE RetrySucceeds(p)
  BY <1>0, <1>13 DEF RetrySucceeds, StageRegistry, HoldsLock, Running, TypeOK, NoRunner
<1>14. CASE RetryFails(p)
  BY <1>0, <1>14 DEF RetryFails, HoldsLock, Running, TypeOK, NoRunner
<1>15. CASE RetryExhausted(p)
  BY <1>0, <1>15 DEF RetryExhausted, HoldsLock, Running, TypeOK, NoRunner
<1>16. CASE RecordFailure(p)
  BY <1>0, <1>16 DEF RecordFailure, FinishRoute, ClearAttempt, HoldsLock, Running,
     TypeOK, NoRunner
<1>17. CASE RoutesDone(p)
  BY <1>0, <1>17 DEF RoutesDone, HoldsLock, Running, TypeOK, NoRunner
<1>18. CASE Settle(p)
  BY <1>0, <1>18 DEF Settle, StageCheckpoint, HoldsLock, Running, TypeOK, NoRunner
<1>19. CASE Flush(p)
  BY <1>0, <1>19 DEF Flush, HoldsLock, Running, TypeOK, NoRunner
<1>20. CASE Release(p)
  BY <1>0, <1>20 DEF Release, ClearRun, ClearAttempt, LockReleased, HoldsLock,
     Running, TypeOK, NoRunner
<1>21. CASE Raise(p)
  BY <1>0, <1>21 DEF Raise, HoldsLock, Running, TypeOK, NoRunner
<1>22. CASE FlushFails(p)
  BY <1>0, <1>22 DEF FlushFails, HoldsLock, Running, TypeOK, NoRunner
<1>23. CASE Crash(p)
  BY <1>0, <1>23 DEF Crash, ClearRun, ClearAttempt, HoldsLock, Running, TypeOK, NoRunner
<1>24. ASSUME NEW r \in Routes, Withhold(p, r) PROVE \A q \in Runners : HoldsLock(q)'
  BY <1>0, <1>24 DEF Withhold, FinishRoute, ClearAttempt, StageQuarantine, HoldsLock,
     Running, TypeOK, NoRunner
<1>25. ASSUME NEW r \in Routes, SkipDisabledDestination(p, r)
       PROVE \A q \in Runners : HoldsLock(q)'
  BY <1>0, <1>25 DEF SkipDisabledDestination, FinishRoute, ClearAttempt, HoldsLock,
     Running, TypeOK, NoRunner
<1>26. ASSUME NEW r \in Routes, LimitDestination(p, r)
       PROVE \A q \in Runners : HoldsLock(q)'
  BY <1>0, <1>26 DEF LimitDestination, FinishRoute, ClearAttempt, StageStatus,
     HoldsLock, Running, TypeOK, NoRunner
<1>27. ASSUME NEW r \in Routes, SendSucceeds(p, r)
       PROVE \A q \in Runners : HoldsLock(q)'
  BY <1>0, <1>27 DEF SendSucceeds, FinishRoute, ClearAttempt, StageRegistry,
     HoldsLock, Running, TypeOK, NoRunner
<1>28. ASSUME NEW r \in Routes, SendFails(p, r) PROVE \A q \in Runners : HoldsLock(q)'
  BY <1>0, <1>28 DEF SendFails, IsNext, HoldsLock, Running, TypeOK, NoRunner
<1>29. ASSUME NEW d \in DynamicRoutes, SkipDynamic(p, d)
       PROVE \A q \in Runners : HoldsLock(q)'
  BY <1>0, <1>29 DEF SkipDynamic, HoldsLock, Running, TypeOK, NoRunner
<1>30. ASSUME NEW d \in DynamicRoutes, DynamicSendSucceeds(p, d)
       PROVE \A q \in Runners : HoldsLock(q)'
  BY <1>0, <1>30 DEF DynamicSendSucceeds, HoldsLock, Running, TypeOK, NoRunner
<1>31. ASSUME NEW d \in DynamicRoutes, DynamicSendFails(p, d)
       PROVE \A q \in Runners : HoldsLock(q)'
  BY <1>0, <1>31 DEF DynamicSendFails, HoldsLock, Running, TypeOK, NoRunner
<1> QED
  BY <1>1, <1>2, <1>3, <1>4, <1>5, <1>6, <1>7, <1>8, <1>9, <1>10, <1>11, <1>12, <1>13,
     <1>14, <1>15, <1>16, <1>17, <1>18, <1>19, <1>20, <1>21, <1>22, <1>23, <1>24,
        <1>25, <1>26, <1>27, <1>28, <1>29, <1>30, <1>31 DEF RunStep, Fault

\* The loop variables of the stepping runner keep agreeing.
LEMMA LoopStep ==
  ASSUME TypeOK, RunnerInvariant, NEW p \in Runners, RunStep(p) \/ Fault(p)
  PROVE  LoopTracked(p)'
<1> USE RoutesAssumption DEF vars, world, db, attempt, locals
<1>0. LoopTracked(p)
  BY DEF RunnerInvariant
<1>1. CASE Load(p)
  BY <1>0, <1>1 DEF Load, LoopTracked, Sending, InPipeline, NoResults, TypeOK
<1>2. CASE SkipLocked(p)
  BY <1>0, <1>2 DEF SkipLocked, LoopTracked, Sending, InPipeline, NoResults, TypeOK
<1>3. CASE Enter(p)
  BY <1>0, <1>3 DEF Enter, ResolvedCheckpoint, LockAvailable, LoopTracked, Sending,
     InPipeline, NoResults, TypeOK
<1>4. CASE LimitSource(p)
  BY <1>0, <1>4 DEF LimitSource, StageStatus, LoopTracked, Sending, InPipeline,
     NoResults, TypeOK
<1>5. CASE Collect(p)
  BY <1>0, <1>5 DEF Collect, LoopTracked, Sending, InPipeline, NoResults, TypeOK
<1>6. CASE NoFailover(p)
  BY <1>0, <1>6 DEF NoFailover, LoopTracked, Sending, InPipeline, NoResults, TypeOK
<1>7. CASE FailoverFails(p)
  BY <1>0, <1>7 DEF FailoverFails, LoopTracked, Sending, InPipeline, NoResults, TypeOK
<1>8. CASE FailoverSucceeds(p)
  BY <1>0, <1>8 DEF FailoverSucceeds, FinishRoute, ClearAttempt, LoopTracked, Sending,
     InPipeline, NoResults, TypeOK
<1>9. CASE LogAndContinue(p)
  BY <1>0, <1>9 DEF LogAndContinue, LoopTracked, Sending, InPipeline, NoResults, TypeOK
<1>10. CASE PauseStream(p)
  BY <1>0, <1>10 DEF PauseStream, StageStatus, LoopTracked, Sending, InPipeline,
     NoResults, TypeOK
<1>11. CASE DisableRoute(p)
  BY <1>0, <1>11 DEF DisableRoute, StageDisabledRoute, LoopTracked, Sending,
     InPipeline, NoResults, TypeOK
<1>12. CASE StartRetry(p)
  BY <1>0, <1>12 DEF StartRetry, LoopTracked, Sending, InPipeline, NoResults, TypeOK
<1>13. CASE RetrySucceeds(p)
  BY <1>0, <1>13 DEF RetrySucceeds, StageRegistry, LoopTracked, Sending, InPipeline,
     NoResults, TypeOK
<1>14. CASE RetryFails(p)
  BY <1>0, <1>14 DEF RetryFails, LoopTracked, Sending, InPipeline, NoResults, TypeOK
<1>15. CASE RetryExhausted(p)
  BY <1>0, <1>15 DEF RetryExhausted, LoopTracked, Sending, InPipeline, NoResults, TypeOK
<1>16. CASE RecordFailure(p)
  <2>1. FinishRoute(p, cur[p], FailedRouteResult(p)) /\ pc[p] = "record"
    BY <1>16 DEF RecordFailure
  <2>2. /\ FailedRouteResult(p) # "none"
        /\ FailedRouteResult(p) = "delivered" =>
              recovered[p] /\ FailurePolicy[cur[p]] # "LOG_AND_CONTINUE"
        /\ ~recovered[p] => FailedRouteResult(p) = "failed"
    BY DEF FailedRouteResult
  <2> QED BY <1>0, <1>16, <2>1, <2>2 DEF RecordFailure, FinishRoute, ClearAttempt,
     LoopTracked, Sending, InPipeline, NoResults, TypeOK
<1>17. CASE RoutesDone(p)
  BY <1>0, <1>17 DEF RoutesDone, LoopTracked, Sending, InPipeline, NoResults, TypeOK
<1>18. CASE Settle(p)
  BY <1>0, <1>18 DEF Settle, StageCheckpoint, LoopTracked, Sending, InPipeline,
     NoResults, TypeOK
<1>19. CASE Flush(p)
  BY <1>0, <1>19 DEF Flush, LoopTracked, Sending, InPipeline, NoResults, TypeOK
<1>20. CASE Release(p)
  BY <1>0, <1>20 DEF Release, ClearRun, ClearAttempt, LockReleased, LoopTracked,
     Sending, InPipeline, NoResults, TypeOK
<1>21. CASE Raise(p)
  BY <1>0, <1>21 DEF Raise, LoopTracked, Sending, InPipeline, NoResults, TypeOK
<1>22. CASE FlushFails(p)
  BY <1>0, <1>22 DEF FlushFails, LoopTracked, Sending, InPipeline, NoResults, TypeOK
<1>23. CASE Crash(p)
  BY <1>0, <1>23 DEF Crash, ClearRun, ClearAttempt, LoopTracked, Sending, InPipeline,
     NoResults, TypeOK
<1>24. ASSUME NEW r \in Routes, Withhold(p, r) PROVE LoopTracked(p)'
  <2>1. PICK d \in Withholding : FinishRoute(p, r, d)
    BY <1>24 DEF Withhold
  <2>2. d # "none" /\ d # "delivered"
    BY DEF Withholding
  <2>3. StageQuarantine(p, {}) \/ \E rows : StageQuarantine(p, rows)
    BY <1>24 DEF Withhold
  <2> QED BY <1>0, <1>24, <2>1, <2>2, <2>3 DEF Withhold, FinishRoute, ClearAttempt,
     StageQuarantine, LoopTracked, Sending, InPipeline, NoResults, TypeOK, IsNext
<1>25. ASSUME NEW r \in Routes, SkipDisabledDestination(p, r) PROVE LoopTracked(p)'
  BY <1>0, <1>25 DEF SkipDisabledDestination, FinishRoute, ClearAttempt, LoopTracked,
     Sending, InPipeline, NoResults, TypeOK
<1>26. ASSUME NEW r \in Routes, LimitDestination(p, r) PROVE LoopTracked(p)'
  BY <1>0, <1>26 DEF LimitDestination, FinishRoute, ClearAttempt, StageStatus,
     LoopTracked, Sending, InPipeline, NoResults, TypeOK
<1>27. ASSUME NEW r \in Routes, SendSucceeds(p, r) PROVE LoopTracked(p)'
  BY <1>0, <1>27 DEF SendSucceeds, FinishRoute, ClearAttempt, StageRegistry,
     LoopTracked, Sending, InPipeline, NoResults, TypeOK
<1>28. ASSUME NEW r \in Routes, SendFails(p, r) PROVE LoopTracked(p)'
  BY <1>0, <1>28 DEF SendFails, IsNext, LoopTracked, Sending, InPipeline, NoResults,
     TypeOK
<1>29. ASSUME NEW d \in DynamicRoutes, SkipDynamic(p, d) PROVE LoopTracked(p)'
  BY <1>0, <1>29 DEF SkipDynamic, LoopTracked, Sending, InPipeline, NoResults, TypeOK
<1>30. ASSUME NEW d \in DynamicRoutes, DynamicSendSucceeds(p, d) PROVE LoopTracked(p)'
  BY <1>0, <1>30 DEF DynamicSendSucceeds, LoopTracked, Sending, InPipeline, NoResults,
     TypeOK
<1>31. ASSUME NEW d \in DynamicRoutes, DynamicSendFails(p, d) PROVE LoopTracked(p)'
  BY <1>0, <1>31 DEF DynamicSendFails, LoopTracked, Sending, InPipeline, NoResults,
     TypeOK
<1> QED
  BY <1>1, <1>2, <1>3, <1>4, <1>5, <1>6, <1>7, <1>8, <1>9, <1>10, <1>11, <1>12, <1>13,
     <1>14, <1>15, <1>16, <1>17, <1>18, <1>19, <1>20, <1>21, <1>22, <1>23, <1>24,
        <1>25, <1>26, <1>27, <1>28, <1>29, <1>30, <1>31 DEF RunStep, Fault

\* The stepping runner claims no delivery it did not make.
LEMMA DeliveryStep ==
  ASSUME TypeOK, RunnerInvariant, NEW p \in Runners, RunStep(p) \/ Fault(p)
  PROVE  DeliveryIsReal(p)'
<1> USE RoutesAssumption DEF vars, world, db, attempt, locals
<1>0. LoopTracked(p) /\ DeliveryIsReal(p)
  BY DEF RunnerInvariant
<1>1. CASE Load(p)
  BY <1>0, <1>1 DEF Load, DeliveryIsReal, LoopTracked, Sending, InPipeline, NoResults,
     TypeOK, Pairs
<1>2. CASE SkipLocked(p)
  BY <1>0, <1>2 DEF SkipLocked, DeliveryIsReal, LoopTracked, Sending, InPipeline,
     NoResults, TypeOK, Pairs
<1>3. CASE Enter(p)
  BY <1>0, <1>3 DEF Enter, ResolvedCheckpoint, LockAvailable, DeliveryIsReal,
     LoopTracked, Sending, InPipeline, NoResults, TypeOK, Pairs
<1>4. CASE LimitSource(p)
  BY <1>0, <1>4 DEF LimitSource, StageStatus, DeliveryIsReal, LoopTracked, Sending,
     InPipeline, NoResults, TypeOK, Pairs
<1>5. CASE Collect(p)
  BY <1>0, <1>5 DEF Collect, DeliveryIsReal, LoopTracked, Sending, InPipeline,
     NoResults, TypeOK, Pairs
<1>6. CASE NoFailover(p)
  BY <1>0, <1>6 DEF NoFailover, DeliveryIsReal, LoopTracked, Sending, InPipeline,
     NoResults, TypeOK, Pairs
<1>7. CASE FailoverFails(p)
  BY <1>0, <1>7 DEF FailoverFails, DeliveryIsReal, LoopTracked, Sending, InPipeline,
     NoResults, TypeOK, Pairs
<1>8. CASE FailoverSucceeds(p)
  BY <1>0, <1>8 DEF FailoverSucceeds, FinishRoute, ClearAttempt, DeliveryIsReal,
     LoopTracked, Sending, InPipeline, NoResults, TypeOK, Pairs
<1>9. CASE LogAndContinue(p)
  BY <1>0, <1>9 DEF LogAndContinue, DeliveryIsReal, LoopTracked, Sending, InPipeline,
     NoResults, TypeOK, Pairs
<1>10. CASE PauseStream(p)
  BY <1>0, <1>10 DEF PauseStream, StageStatus, DeliveryIsReal, LoopTracked, Sending,
     InPipeline, NoResults, TypeOK, Pairs
<1>11. CASE DisableRoute(p)
  BY <1>0, <1>11 DEF DisableRoute, StageDisabledRoute, DeliveryIsReal, LoopTracked,
     Sending, InPipeline, NoResults, TypeOK, Pairs
<1>12. CASE StartRetry(p)
  BY <1>0, <1>12 DEF StartRetry, DeliveryIsReal, LoopTracked, Sending, InPipeline,
     NoResults, TypeOK, Pairs
<1>13. CASE RetrySucceeds(p)
  BY <1>0, <1>13 DEF RetrySucceeds, StageRegistry, DeliveryIsReal, LoopTracked,
     Sending, InPipeline, NoResults, TypeOK, Pairs
<1>14. CASE RetryFails(p)
  BY <1>0, <1>14 DEF RetryFails, DeliveryIsReal, LoopTracked, Sending, InPipeline,
     NoResults, TypeOK, Pairs
<1>15. CASE RetryExhausted(p)
  BY <1>0, <1>15 DEF RetryExhausted, DeliveryIsReal, LoopTracked, Sending, InPipeline,
     NoResults, TypeOK, Pairs
<1>16. CASE RecordFailure(p)
  <2>1. FinishRoute(p, cur[p], FailedRouteResult(p)) /\ pc[p] = "record"
    BY <1>16 DEF RecordFailure
  <2>2. /\ FailedRouteResult(p) # "none"
        /\ FailedRouteResult(p) = "delivered" =>
              recovered[p] /\ FailurePolicy[cur[p]] # "LOG_AND_CONTINUE"
        /\ ~recovered[p] => FailedRouteResult(p) = "failed"
    BY DEF FailedRouteResult
  <2> QED BY <1>0, <1>16, <2>1, <2>2 DEF RecordFailure, FinishRoute, ClearAttempt,
     DeliveryIsReal, LoopTracked, Sending, InPipeline, NoResults, TypeOK, Pairs
<1>17. CASE RoutesDone(p)
  BY <1>0, <1>17 DEF RoutesDone, DeliveryIsReal, LoopTracked, Sending, InPipeline,
     NoResults, TypeOK, Pairs
<1>18. CASE Settle(p)
  BY <1>0, <1>18 DEF Settle, StageCheckpoint, DeliveryIsReal, LoopTracked, Sending,
     InPipeline, NoResults, TypeOK, Pairs
<1>19. CASE Flush(p)
  BY <1>0, <1>19 DEF Flush, DeliveryIsReal, LoopTracked, Sending, InPipeline,
     NoResults, TypeOK, Pairs
<1>20. CASE Release(p)
  BY <1>0, <1>20 DEF Release, ClearRun, ClearAttempt, LockReleased, DeliveryIsReal,
     LoopTracked, Sending, InPipeline, NoResults, TypeOK, Pairs
<1>21. CASE Raise(p)
  BY <1>0, <1>21 DEF Raise, DeliveryIsReal, LoopTracked, Sending, InPipeline,
     NoResults, TypeOK, Pairs
<1>22. CASE FlushFails(p)
  BY <1>0, <1>22 DEF FlushFails, DeliveryIsReal, LoopTracked, Sending, InPipeline,
     NoResults, TypeOK, Pairs
<1>23. CASE Crash(p)
  BY <1>0, <1>23 DEF Crash, ClearRun, ClearAttempt, DeliveryIsReal, LoopTracked,
     Sending, InPipeline, NoResults, TypeOK, Pairs
<1>24. ASSUME NEW r \in Routes, Withhold(p, r) PROVE DeliveryIsReal(p)'
  <2>1. PICK d \in Withholding : FinishRoute(p, r, d)
    BY <1>24 DEF Withhold
  <2>2. d # "none" /\ d # "delivered"
    BY DEF Withholding
  <2>3. StageQuarantine(p, {}) \/ \E rows : StageQuarantine(p, rows)
    BY <1>24 DEF Withhold
  <2> QED BY <1>0, <1>24, <2>1, <2>2, <2>3 DEF Withhold, FinishRoute, ClearAttempt,
     StageQuarantine, DeliveryIsReal, LoopTracked, Sending, InPipeline, NoResults,
     TypeOK, Pairs, IsNext
<1>25. ASSUME NEW r \in Routes, SkipDisabledDestination(p, r) PROVE DeliveryIsReal(p)'
  BY <1>0, <1>25 DEF SkipDisabledDestination, FinishRoute, ClearAttempt,
     DeliveryIsReal, LoopTracked, Sending, InPipeline, NoResults, TypeOK, Pairs
<1>26. ASSUME NEW r \in Routes, LimitDestination(p, r) PROVE DeliveryIsReal(p)'
  BY <1>0, <1>26 DEF LimitDestination, FinishRoute, ClearAttempt, StageStatus,
     DeliveryIsReal, LoopTracked, Sending, InPipeline, NoResults, TypeOK, Pairs
<1>27. ASSUME NEW r \in Routes, SendSucceeds(p, r) PROVE DeliveryIsReal(p)'
  BY <1>0, <1>27 DEF SendSucceeds, FinishRoute, ClearAttempt, StageRegistry,
     DeliveryIsReal, LoopTracked, Sending, InPipeline, NoResults, TypeOK, Pairs
<1>28. ASSUME NEW r \in Routes, SendFails(p, r) PROVE DeliveryIsReal(p)'
  BY <1>0, <1>28 DEF SendFails, IsNext, DeliveryIsReal, LoopTracked, Sending,
     InPipeline, NoResults, TypeOK, Pairs
<1>29. ASSUME NEW d \in DynamicRoutes, SkipDynamic(p, d) PROVE DeliveryIsReal(p)'
  BY <1>0, <1>29 DEF SkipDynamic, DeliveryIsReal, LoopTracked, Sending, InPipeline,
     NoResults, TypeOK, Pairs
<1>30. ASSUME NEW d \in DynamicRoutes, DynamicSendSucceeds(p, d)
       PROVE DeliveryIsReal(p)'
  BY <1>0, <1>30 DEF DynamicSendSucceeds, DeliveryIsReal, LoopTracked, Sending,
     InPipeline, NoResults, TypeOK, Pairs
<1>31. ASSUME NEW d \in DynamicRoutes, DynamicSendFails(p, d) PROVE DeliveryIsReal(p)'
  BY <1>0, <1>31 DEF DynamicSendFails, DeliveryIsReal, LoopTracked, Sending,
     InPipeline, NoResults, TypeOK, Pairs
<1> QED
  BY <1>1, <1>2, <1>3, <1>4, <1>5, <1>6, <1>7, <1>8, <1>9, <1>10, <1>11, <1>12, <1>13,
     <1>14, <1>15, <1>16, <1>17, <1>18, <1>19, <1>20, <1>21, <1>22, <1>23, <1>24,
        <1>25, <1>26, <1>27, <1>28, <1>29, <1>30, <1>31 DEF RunStep, Fault

\* The stepping runner stages no checkpoint it has not earned.
LEMMA StagedStep ==
  ASSUME TypeOK, RunnerInvariant, NEW p \in Runners, RunStep(p) \/ Fault(p)
  PROVE  StagedIsEarned(p)'
<1> USE RoutesAssumption DEF vars, world, db, attempt, locals
<1>0. LoopTracked(p) /\ DeliveryIsReal(p) /\ StagedIsEarned(p)
  BY DEF RunnerInvariant
<1>1. CASE Load(p)
  BY <1>0, <1>1 DEF Load, StagedIsEarned, DeliveryIsReal, LoopTracked, Sending,
     InPipeline, NoRequiredFailure, BatchSucceeded, AnyDelivered, Writes, NoWrites,
     NoResults, TypeOK
<1>2. CASE SkipLocked(p)
  BY <1>0, <1>2 DEF SkipLocked, StagedIsEarned, DeliveryIsReal, LoopTracked, Sending,
     InPipeline, NoRequiredFailure, BatchSucceeded, AnyDelivered, Writes, NoWrites,
     NoResults, TypeOK
<1>3. CASE Enter(p)
  BY <1>0, <1>3 DEF Enter, ResolvedCheckpoint, LockAvailable, StagedIsEarned,
     DeliveryIsReal, LoopTracked, Sending, InPipeline, NoRequiredFailure,
     BatchSucceeded, AnyDelivered, Writes, NoWrites, NoResults, TypeOK
<1>4. CASE LimitSource(p)
  BY <1>0, <1>4 DEF LimitSource, StageStatus, StagedIsEarned, DeliveryIsReal,
     LoopTracked, Sending, InPipeline, NoRequiredFailure, BatchSucceeded,
     AnyDelivered, Writes, NoWrites, NoResults, TypeOK
<1>5. CASE Collect(p)
  BY <1>0, <1>5 DEF Collect, StagedIsEarned, DeliveryIsReal, LoopTracked, Sending,
     InPipeline, NoRequiredFailure, BatchSucceeded, AnyDelivered, Writes, NoWrites,
     NoResults, TypeOK
<1>6. CASE NoFailover(p)
  BY <1>0, <1>6 DEF NoFailover, StagedIsEarned, DeliveryIsReal, LoopTracked, Sending,
     InPipeline, NoRequiredFailure, BatchSucceeded, AnyDelivered, Writes, NoWrites,
     NoResults, TypeOK
<1>7. CASE FailoverFails(p)
  BY <1>0, <1>7 DEF FailoverFails, StagedIsEarned, DeliveryIsReal, LoopTracked,
     Sending, InPipeline, NoRequiredFailure, BatchSucceeded, AnyDelivered, Writes,
     NoWrites, NoResults, TypeOK
<1>8. CASE FailoverSucceeds(p)
  BY <1>0, <1>8 DEF FailoverSucceeds, FinishRoute, ClearAttempt, StagedIsEarned,
     DeliveryIsReal, LoopTracked, Sending, InPipeline, NoRequiredFailure,
     BatchSucceeded, AnyDelivered, Writes, NoWrites, NoResults, TypeOK
<1>9. CASE LogAndContinue(p)
  BY <1>0, <1>9 DEF LogAndContinue, StagedIsEarned, DeliveryIsReal, LoopTracked,
     Sending, InPipeline, NoRequiredFailure, BatchSucceeded, AnyDelivered, Writes,
     NoWrites, NoResults, TypeOK
<1>10. CASE PauseStream(p)
  BY <1>0, <1>10 DEF PauseStream, StageStatus, StagedIsEarned, DeliveryIsReal,
     LoopTracked, Sending, InPipeline, NoRequiredFailure, BatchSucceeded,
     AnyDelivered, Writes, NoWrites, NoResults, TypeOK
<1>11. CASE DisableRoute(p)
  BY <1>0, <1>11 DEF DisableRoute, StageDisabledRoute, StagedIsEarned, DeliveryIsReal,
     LoopTracked, Sending, InPipeline, NoRequiredFailure, BatchSucceeded,
     AnyDelivered, Writes, NoWrites, NoResults, TypeOK
<1>12. CASE StartRetry(p)
  BY <1>0, <1>12 DEF StartRetry, StagedIsEarned, DeliveryIsReal, LoopTracked, Sending,
     InPipeline, NoRequiredFailure, BatchSucceeded, AnyDelivered, Writes, NoWrites,
     NoResults, TypeOK
<1>13. CASE RetrySucceeds(p)
  BY <1>0, <1>13 DEF RetrySucceeds, StageRegistry, StagedIsEarned, DeliveryIsReal,
     LoopTracked, Sending, InPipeline, NoRequiredFailure, BatchSucceeded,
     AnyDelivered, Writes, NoWrites, NoResults, TypeOK
<1>14. CASE RetryFails(p)
  BY <1>0, <1>14 DEF RetryFails, StagedIsEarned, DeliveryIsReal, LoopTracked, Sending,
     InPipeline, NoRequiredFailure, BatchSucceeded, AnyDelivered, Writes, NoWrites,
     NoResults, TypeOK
<1>15. CASE RetryExhausted(p)
  BY <1>0, <1>15 DEF RetryExhausted, StagedIsEarned, DeliveryIsReal, LoopTracked,
     Sending, InPipeline, NoRequiredFailure, BatchSucceeded, AnyDelivered, Writes,
     NoWrites, NoResults, TypeOK
<1>16. CASE RecordFailure(p)
  <2>1. FinishRoute(p, cur[p], FailedRouteResult(p)) /\ pc[p] = "record" /\ pend' = pend
    BY <1>16 DEF RecordFailure
  <2>2. /\ pc'[p] = "routes"
        /\ res'[p] = [res[p] EXCEPT ![cur[p]] = FailedRouteResult(p)]
        /\ cur[p] \in Routes /\ res[p][cur[p]] = "none" /\ pend[p].cp = 0
    BY <1>0, <2>1 DEF FinishRoute, LoopTracked, StagedIsEarned, Sending, InPipeline,
       TypeOK
  <2>3. ~recovered[p] => FailedRouteResult(p) = "failed"
    BY DEF FailedRouteResult
  <2>4. ~NoRequiredFailure(p) \/ ~recovered[p] => ~NoRequiredFailure(p)'
    <3>1. res[p] \in [Routes -> Results]
      BY DEF TypeOK
    <3>2. \A r \in Routes : res'[p][r] = IF r = cur[p] THEN FailedRouteResult(p) ELSE res[p][r]
      BY <2>2, <3>1
    <3>3. ~recovered[p] => res'[p][cur[p]] = "failed"
      BY <2>2, <2>3, <3>2
    <3>4. ~NoRequiredFailure(p) => \E r \in Routes : res'[p][r] \in {"failed",
       "limited"}
      BY <2>2, <3>2 DEF NoRequiredFailure
    <3> QED BY <2>2, <3>3, <3>4 DEF NoRequiredFailure
  <2> QED BY <1>0, <2>1, <2>2, <2>4 DEF StagedIsEarned, Sending, InPipeline
<1>17. CASE RoutesDone(p)
  BY <1>0, <1>17 DEF RoutesDone, StagedIsEarned, DeliveryIsReal, LoopTracked, Sending,
     InPipeline, NoRequiredFailure, BatchSucceeded, AnyDelivered, Writes, NoWrites,
     NoResults, TypeOK
<1>18. CASE Settle(p)
  BY <1>0, <1>18 DEF Settle, StageCheckpoint, StagedIsEarned, DeliveryIsReal,
     LoopTracked, Sending, InPipeline, NoRequiredFailure, BatchSucceeded,
     AnyDelivered, Writes, NoWrites, NoResults, TypeOK
<1>19. CASE Flush(p)
  BY <1>0, <1>19 DEF Flush, StagedIsEarned, DeliveryIsReal, LoopTracked, Sending,
     InPipeline, NoRequiredFailure, BatchSucceeded, AnyDelivered, Writes, NoWrites,
     NoResults, TypeOK
<1>20. CASE Release(p)
  BY <1>0, <1>20 DEF Release, ClearRun, ClearAttempt, LockReleased, StagedIsEarned,
     DeliveryIsReal, LoopTracked, Sending, InPipeline, NoRequiredFailure,
     BatchSucceeded, AnyDelivered, Writes, NoWrites, NoResults, TypeOK
<1>21. CASE Raise(p)
  BY <1>0, <1>21 DEF Raise, StagedIsEarned, DeliveryIsReal, LoopTracked, Sending,
     InPipeline, NoRequiredFailure, BatchSucceeded, AnyDelivered, Writes, NoWrites,
     NoResults, TypeOK
<1>22. CASE FlushFails(p)
  BY <1>0, <1>22 DEF FlushFails, StagedIsEarned, DeliveryIsReal, LoopTracked, Sending,
     InPipeline, NoRequiredFailure, BatchSucceeded, AnyDelivered, Writes, NoWrites,
     NoResults, TypeOK
<1>23. CASE Crash(p)
  BY <1>0, <1>23 DEF Crash, ClearRun, ClearAttempt, StagedIsEarned, DeliveryIsReal,
     LoopTracked, Sending, InPipeline, NoRequiredFailure, BatchSucceeded,
     AnyDelivered, Writes, NoWrites, NoResults, TypeOK
<1>24. ASSUME NEW r \in Routes, Withhold(p, r) PROVE StagedIsEarned(p)'
  <2>1. PICK d \in Withholding : FinishRoute(p, r, d)
    BY <1>24 DEF Withhold
  <2>2. d # "none" /\ d # "delivered"
    BY DEF Withholding
  <2>3. StageQuarantine(p, {}) \/ \E rows : StageQuarantine(p, rows)
    BY <1>24 DEF Withhold
  <2> QED BY <1>0, <1>24, <2>1, <2>2, <2>3 DEF Withhold, FinishRoute, ClearAttempt,
     StageQuarantine, StagedIsEarned, DeliveryIsReal, LoopTracked, Sending,
     InPipeline, NoRequiredFailure, BatchSucceeded, AnyDelivered, Writes, NoWrites,
     NoResults, TypeOK, IsNext
<1>25. ASSUME NEW r \in Routes, SkipDisabledDestination(p, r) PROVE StagedIsEarned(p)'
  <2>1. /\ pc[p] = "routes" /\ pc'[p] = "routes" /\ pend' = pend
        /\ r \in todo[p] /\ res'[p] = [res[p] EXCEPT ![r] = "dest_off"]
    BY <1>25 DEF SkipDisabledDestination, FinishRoute, IsNext, TypeOK
  <2>2. res[p][r] = "none" /\ res[p] \in [Routes -> Results]
    BY <1>0, <2>1 DEF LoopTracked, InPipeline, TypeOK
  <2>3. ~NoRequiredFailure(p) => ~NoRequiredFailure(p)'
    BY <2>1, <2>2 DEF NoRequiredFailure
  <2> QED BY <1>0, <2>1, <2>3 DEF StagedIsEarned, Sending, InPipeline
<1>26. ASSUME NEW r \in Routes, LimitDestination(p, r) PROVE StagedIsEarned(p)'
  BY <1>0, <1>26 DEF LimitDestination, FinishRoute, ClearAttempt, StageStatus,
     StagedIsEarned, DeliveryIsReal, LoopTracked, Sending, InPipeline,
     NoRequiredFailure, BatchSucceeded, AnyDelivered, Writes, NoWrites, NoResults,
     TypeOK
<1>27. ASSUME NEW r \in Routes, SendSucceeds(p, r) PROVE StagedIsEarned(p)'
  BY <1>0, <1>27 DEF SendSucceeds, FinishRoute, ClearAttempt, StageRegistry,
     StagedIsEarned, DeliveryIsReal, LoopTracked, Sending, InPipeline,
     NoRequiredFailure, BatchSucceeded, AnyDelivered, Writes, NoWrites, NoResults,
     TypeOK, IsNext
<1>28. ASSUME NEW r \in Routes, SendFails(p, r) PROVE StagedIsEarned(p)'
  BY <1>0, <1>28 DEF SendFails, IsNext, StagedIsEarned, DeliveryIsReal, LoopTracked,
     Sending, InPipeline, NoRequiredFailure, BatchSucceeded, AnyDelivered, Writes,
     NoWrites, NoResults, TypeOK
<1>29. ASSUME NEW d \in DynamicRoutes, SkipDynamic(p, d) PROVE StagedIsEarned(p)'
  BY <1>0, <1>29 DEF SkipDynamic, StagedIsEarned, DeliveryIsReal, LoopTracked,
     Sending, InPipeline, NoRequiredFailure, BatchSucceeded, AnyDelivered, Writes,
     NoWrites, NoResults, TypeOK
<1>30. ASSUME NEW d \in DynamicRoutes, DynamicSendSucceeds(p, d)
       PROVE StagedIsEarned(p)'
  BY <1>0, <1>30 DEF DynamicSendSucceeds, StagedIsEarned, DeliveryIsReal, LoopTracked,
     Sending, InPipeline, NoRequiredFailure, BatchSucceeded, AnyDelivered, Writes,
     NoWrites, NoResults, TypeOK
<1>31. ASSUME NEW d \in DynamicRoutes, DynamicSendFails(p, d) PROVE StagedIsEarned(p)'
  BY <1>0, <1>31 DEF DynamicSendFails, StagedIsEarned, DeliveryIsReal, LoopTracked,
     Sending, InPipeline, NoRequiredFailure, BatchSucceeded, AnyDelivered, Writes,
     NoWrites, NoResults, TypeOK
<1> QED
  BY <1>1, <1>2, <1>3, <1>4, <1>5, <1>6, <1>7, <1>8, <1>9, <1>10, <1>11, <1>12, <1>13,
     <1>14, <1>15, <1>16, <1>17, <1>18, <1>19, <1>20, <1>21, <1>22, <1>23, <1>24,
        <1>25, <1>26, <1>27, <1>28, <1>29, <1>30, <1>31 DEF RunStep, Fault

\* Without dedup over earlier runs, a runner's batch follows what is accounted for.
LEMMA ResumeStep ==
  ASSUME TypeOK, RunnerInvariant, AccountingInvariant,
         DedupScope # "last_n_hours", NEW p \in Runners, RunStep(p) \/ Fault(p)
  PROVE  ResumeIsSound(p)'
<1> USE BoundsAssumption DEF vars, world, db, attempt, locals
<1>0. /\ LoopTracked(p) /\ ResumeIsSound(p)
      /\ \A e \in Events : e <= checkpoint => \A r \in Routes : Accounted(r, e)
      /\ \A r \in Routes, e \in Events : Accounted(r, e) => Accounted(r, e)'
  BY Footprint, AccountedGrows DEF HistoryGrows, RunnerInvariant, AccountingInvariant,
     EveryRouteAccounted
<1>1. CASE Load(p)
  BY <1>0, <1>1 DEF Load, ResumeIsSound, LoopTracked, Sending, InPipeline,
     InReplayWindow, NoContext, Events, TypeOK
<1>2. CASE SkipLocked(p)
  BY <1>0, <1>2 DEF SkipLocked, ResumeIsSound, LoopTracked, Sending, InPipeline,
     InReplayWindow, NoContext, Events, TypeOK
<1>3. CASE Enter(p)
  BY <1>0, <1>3 DEF Enter, ResolvedCheckpoint, LockAvailable, ResumeIsSound,
     LoopTracked, Sending, InPipeline, InReplayWindow, NoContext, Events, TypeOK
<1>4. CASE LimitSource(p)
  BY <1>0, <1>4 DEF LimitSource, StageStatus, ResumeIsSound, LoopTracked, Sending,
     InPipeline, InReplayWindow, NoContext, Events, TypeOK
<1>5. CASE Collect(p)
  <2>1. PICK F \in Fetchable(p) : batch' = [batch EXCEPT ![p] = F \ SeedKeys(p)]
    BY <1>5 DEF Collect
  <2>2. batch'[p] = F /\ ctx' = ctx
    BY <1>5, <2>1 DEF Collect, SeedKeys, TypeOK
  <2>3. ~InReplayWindow(p) => \A e \in F,
     f \in Events : f <= e => f <= ctx[p].cp \/ f \in F
    BY DEF Fetchable, Events, TypeOK
  <2> QED BY <1>0, <2>2, <2>3 DEF ResumeIsSound, InReplayWindow
<1>6. CASE NoFailover(p)
  BY <1>0, <1>6 DEF NoFailover, ResumeIsSound, LoopTracked, Sending, InPipeline,
     InReplayWindow, NoContext, Events, TypeOK
<1>7. CASE FailoverFails(p)
  BY <1>0, <1>7 DEF FailoverFails, ResumeIsSound, LoopTracked, Sending, InPipeline,
     InReplayWindow, NoContext, Events, TypeOK
<1>8. CASE FailoverSucceeds(p)
  BY <1>0, <1>8 DEF FailoverSucceeds, FinishRoute, ClearAttempt, ResumeIsSound,
     LoopTracked, Sending, InPipeline, InReplayWindow, NoContext, Events, TypeOK
<1>9. CASE LogAndContinue(p)
  BY <1>0, <1>9 DEF LogAndContinue, ResumeIsSound, LoopTracked, Sending, InPipeline,
     InReplayWindow, NoContext, Events, TypeOK
<1>10. CASE PauseStream(p)
  BY <1>0, <1>10 DEF PauseStream, StageStatus, ResumeIsSound, LoopTracked, Sending,
     InPipeline, InReplayWindow, NoContext, Events, TypeOK
<1>11. CASE DisableRoute(p)
  BY <1>0, <1>11 DEF DisableRoute, StageDisabledRoute, ResumeIsSound, LoopTracked,
     Sending, InPipeline, InReplayWindow, NoContext, Events, TypeOK
<1>12. CASE StartRetry(p)
  BY <1>0, <1>12 DEF StartRetry, ResumeIsSound, LoopTracked, Sending, InPipeline,
     InReplayWindow, NoContext, Events, TypeOK
<1>13. CASE RetrySucceeds(p)
  BY <1>0, <1>13 DEF RetrySucceeds, StageRegistry, ResumeIsSound, LoopTracked,
     Sending, InPipeline, InReplayWindow, NoContext, Events, TypeOK
<1>14. CASE RetryFails(p)
  BY <1>0, <1>14 DEF RetryFails, ResumeIsSound, LoopTracked, Sending, InPipeline,
     InReplayWindow, NoContext, Events, TypeOK
<1>15. CASE RetryExhausted(p)
  BY <1>0, <1>15 DEF RetryExhausted, ResumeIsSound, LoopTracked, Sending, InPipeline,
     InReplayWindow, NoContext, Events, TypeOK
<1>16. CASE RecordFailure(p)
  BY <1>0, <1>16 DEF RecordFailure, FinishRoute, ClearAttempt, ResumeIsSound,
     LoopTracked, Sending, InPipeline, InReplayWindow, NoContext, Events, TypeOK
<1>17. CASE RoutesDone(p)
  BY <1>0, <1>17 DEF RoutesDone, ResumeIsSound, LoopTracked, Sending, InPipeline,
     InReplayWindow, NoContext, Events, TypeOK
<1>18. CASE Settle(p)
  BY <1>0, <1>18 DEF Settle, StageCheckpoint, ResumeIsSound, LoopTracked, Sending,
     InPipeline, InReplayWindow, NoContext, Events, TypeOK
<1>19. CASE Flush(p)
  BY <1>0, <1>19 DEF Flush, ResumeIsSound, LoopTracked, Sending, InPipeline,
     InReplayWindow, NoContext, Events, TypeOK
<1>20. CASE Release(p)
  BY <1>0, <1>20 DEF Release, ClearRun, ClearAttempt, LockReleased, ResumeIsSound,
     LoopTracked, Sending, InPipeline, InReplayWindow, NoContext, Events, TypeOK
<1>21. CASE Raise(p)
  BY <1>0, <1>21 DEF Raise, ResumeIsSound, LoopTracked, Sending, InPipeline,
     InReplayWindow, NoContext, Events, TypeOK
<1>22. CASE FlushFails(p)
  BY <1>0, <1>22 DEF FlushFails, ResumeIsSound, LoopTracked, Sending, InPipeline,
     InReplayWindow, NoContext, Events, TypeOK
<1>23. CASE Crash(p)
  BY <1>0, <1>23 DEF Crash, ClearRun, ClearAttempt, ResumeIsSound, LoopTracked,
     Sending, InPipeline, InReplayWindow, NoContext, Events, TypeOK
<1>24. ASSUME NEW r \in Routes, Withhold(p, r) PROVE ResumeIsSound(p)'
  BY <1>0, <1>24 DEF Withhold, FinishRoute, ClearAttempt, StageQuarantine,
     ResumeIsSound, LoopTracked, Sending, InPipeline, InReplayWindow, NoContext,
     Events, TypeOK
<1>25. ASSUME NEW r \in Routes, SkipDisabledDestination(p, r) PROVE ResumeIsSound(p)'
  BY <1>0, <1>25 DEF SkipDisabledDestination, FinishRoute, ClearAttempt,
     ResumeIsSound, LoopTracked, Sending, InPipeline, InReplayWindow, NoContext,
     Events, TypeOK
<1>26. ASSUME NEW r \in Routes, LimitDestination(p, r) PROVE ResumeIsSound(p)'
  BY <1>0, <1>26 DEF LimitDestination, FinishRoute, ClearAttempt, StageStatus,
     ResumeIsSound, LoopTracked, Sending, InPipeline, InReplayWindow, NoContext,
     Events, TypeOK
<1>27. ASSUME NEW r \in Routes, SendSucceeds(p, r) PROVE ResumeIsSound(p)'
  BY <1>0, <1>27 DEF SendSucceeds, FinishRoute, ClearAttempt, StageRegistry,
     ResumeIsSound, LoopTracked, Sending, InPipeline, InReplayWindow, NoContext,
     Events, TypeOK
<1>28. ASSUME NEW r \in Routes, SendFails(p, r) PROVE ResumeIsSound(p)'
  BY <1>0, <1>28 DEF SendFails, IsNext, ResumeIsSound, LoopTracked, Sending,
     InPipeline, InReplayWindow, NoContext, Events, TypeOK
<1>29. ASSUME NEW d \in DynamicRoutes, SkipDynamic(p, d) PROVE ResumeIsSound(p)'
  BY <1>0, <1>29 DEF SkipDynamic, ResumeIsSound, LoopTracked, Sending, InPipeline,
     InReplayWindow, NoContext, Events, TypeOK
<1>30. ASSUME NEW d \in DynamicRoutes, DynamicSendSucceeds(p, d) PROVE ResumeIsSound(p)'
  BY <1>0, <1>30 DEF DynamicSendSucceeds, ResumeIsSound, LoopTracked, Sending,
     InPipeline, InReplayWindow, NoContext, Events, TypeOK
<1>31. ASSUME NEW d \in DynamicRoutes, DynamicSendFails(p, d) PROVE ResumeIsSound(p)'
  BY <1>0, <1>31 DEF DynamicSendFails, ResumeIsSound, LoopTracked, Sending,
     InPipeline, InReplayWindow, NoContext, Events, TypeOK
<1> QED
  BY <1>1, <1>2, <1>3, <1>4, <1>5, <1>6, <1>7, <1>8, <1>9, <1>10, <1>11, <1>12, <1>13,
     <1>14, <1>15, <1>16, <1>17, <1>18, <1>19, <1>20, <1>21, <1>22, <1>23, <1>24,
        <1>25, <1>26, <1>27, <1>28, <1>29, <1>30, <1>31 DEF RunStep, Fault

\* The frame: the invariant of a runner q that does not step.
LEMMA OtherRunnerKeeps ==
  ASSUME TypeOK, RunnerInvariant, NEW p \in Runners, NEW q \in Runners, q # p,
         RunStep(p) \/ Fault(p)
  PROVE  LoopTracked(q)' /\ DeliveryIsReal(q)' /\ StagedIsEarned(q)'
<1>1. LoopTracked(q) /\ DeliveryIsReal(q) /\ StagedIsEarned(q)
  BY DEF RunnerInvariant
<1>2. /\ pc'[q] = pc[q] /\ ctx'[q] = ctx[q] /\ batch'[q] = batch[q]
      /\ todo'[q] = todo[q] /\ cur'[q] = cur[q] /\ recovered'[q] = recovered[q]
      /\ res'[q] = res[q] /\ pend'[q] = pend[q]
  BY Footprint DEF OthersUntouched
<1>3. delivered \subseteq delivered'
  BY Footprint DEF HistoryGrows
<1>4. LoopTracked(q)'
  BY <1>1, <1>2 DEF LoopTracked, Sending, InPipeline
<1>5. DeliveryIsReal(q)'
  BY <1>1, <1>2, <1>3 DEF DeliveryIsReal
<1>6. StagedIsEarned(q)'
  BY <1>1, <1>2 DEF StagedIsEarned, Sending, InPipeline, NoRequiredFailure,
                    BatchSucceeded, AnyDelivered
<1> QED BY <1>4, <1>5, <1>6

\* The commit of an earned checkpoint accounts for everything it passes.
LEMMA FlushAccounts ==
  ASSUME TypeOK, RunnerInvariant, AccountingInvariant, NEW p \in Runners,
         Flush(p), pend[p].cp # 0, checkpoint' = pend[p].cp
  PROVE  EveryRouteAccounted'
<1>1. /\ PersistsCheckpoint(p) /\ pend[p].cp \in batch[p]
      /\ \A r \in Routes : res[p][r] \notin {"failed", "limited"}
      /\ \A r \in Routes : r \in ctx[p].routes => res[p][r] # "none"
  BY DEF RunnerInvariant, StagedIsEarned, Flush, BatchSucceeded, NoRequiredFailure
<1>2. ~InReplayWindow(p)
  BY <1>1, RunnersAssumption DEF PersistsCheckpoint, InReplayWindow
<1>3. /\ \A e \in Events : e <= ctx[p].cp => \A r \in Routes : Accounted(r, e)
      /\ \A f \in Events : f <= pend[p].cp => f <= ctx[p].cp \/ f \in batch[p]
  BY <1>1, <1>2 DEF AccountingInvariant, ResumeIsSound, Flush
<1>4. delivered' = delivered /\ waived' = waived \cup PassedOver(p)
  BY DEF Flush, world
<1>5. ASSUME NEW r \in Routes, NEW e \in batch[p]
      PROVE  Accounted(r, e)'
  <2>1. CASE res[p][r] = "delivered"
    <3>1. <<r, e>> \in delivered
      BY <2>1 DEF RunnerInvariant, DeliveryIsReal
    <3> QED BY <3>1, <1>4 DEF Accounted
  <2>2. CASE res[p][r] # "delivered"
    <3> DEFINE why == IF r \in ctx[p].routes THEN res[p][r] ELSE "route_off"
    <3>1. why \in Excuses
      BY <1>1, <2>2 DEF Excuses, Withholding, Results, TypeOK
    <3>2. <<r, e, why>> \in PassedOver(p)
      BY <2>2 DEF PassedOver, Undelivered
    <3> QED BY <3>1, <3>2, <1>4 DEF Accounted
  <2> QED BY <2>1, <2>2
<1>6. ASSUME NEW r \in Routes, NEW e \in Events, e <= pend[p].cp
      PROVE  Accounted(r, e)'
  <2>1. e <= ctx[p].cp \/ e \in batch[p]
    BY <1>3, <1>6
  <2>2. CASE e <= ctx[p].cp
    BY <1>3, <1>4, <2>2, AccountedGrows
  <2> QED BY <1>5, <2>1, <2>2
<1> QED BY <1>6 DEF EveryRouteAccounted

(***************************************************************************)
(* Steps of the environment                                                *)
(***************************************************************************)
\* The environment changes neither a runner, nor the lock, the checkpoint or
\* the histories.
LEMMA EnvironmentFrame ==
  ASSUME TypeOK, Environment
  PROVE  TypeOK' /\ UNCHANGED <<delivered, waived, checkpoint, lock, locals>>
<1> USE RoutesAssumption, BoundsAssumption DEF world, db, locals, attempt, Statuses
<1>1. CASE Produce
  BY <1>1 DEF Produce, TypeOK
<1>2. CASE StartStream
  BY <1>2 DEF StartStream, TypeOK
<1>3. ASSUME NEW r \in Managed, SetRouteEnabled(r)
      PROVE TypeOK' /\ UNCHANGED <<delivered, waived, checkpoint, lock, locals>>
  BY <1>3 DEF SetRouteEnabled, TypeOK
<1>4. ASSUME NEW r \in Managed, SetDestinationEnabled(r)
      PROVE TypeOK' /\ UNCHANGED <<delivered, waived, checkpoint, lock, locals>>
  BY <1>4 DEF SetDestinationEnabled, TypeOK
<1> QED BY <1>1, <1>2, <1>3, <1>4 DEF Environment

\* A step that leaves the runners, the lock and the histories alone keeps both
\* invariants.
LEMMA QuietStepKeeps ==
  ASSUME UNCHANGED <<delivered, waived, checkpoint, lock, locals>>
  PROVE  /\ RunnerInvariant => RunnerInvariant'
         /\ AccountingInvariant => AccountingInvariant'
<1> USE DEF locals, attempt
<1>1. ASSUME NEW p \in Runners
      PROVE  /\ HoldsLock(p) => HoldsLock(p)'
             /\ LoopTracked(p) => LoopTracked(p)'
             /\ DeliveryIsReal(p) => DeliveryIsReal(p)'
             /\ StagedIsEarned(p) => StagedIsEarned(p)'
  BY DEF HoldsLock, Running, LoopTracked, DeliveryIsReal, StagedIsEarned, Sending,
         InPipeline, NoRequiredFailure, BatchSucceeded, AnyDelivered
<1>2. \A r, e : Accounted(r, e) <=> Accounted(r, e)'
  BY DEF Accounted
<1>3. ASSUME NEW p \in Runners
      PROVE  ResumeIsSound(p) => ResumeIsSound(p)'
  BY <1>2 DEF ResumeIsSound, Sending, InPipeline
<1>4. EveryRouteAccounted => EveryRouteAccounted'
  BY <1>2 DEF EveryRouteAccounted
<1> QED BY <1>1, <1>3, <1>4 DEF RunnerInvariant, AccountingInvariant

(***************************************************************************)
(* The invariants                                                          *)
(***************************************************************************)
\* The initial state satisfies both invariants.
LEMMA InitHolds == Init => TypeOK /\ RunnerInvariant /\ AccountingInvariant
<1> SUFFICES ASSUME Init PROVE TypeOK /\ RunnerInvariant /\ AccountingInvariant
  OBVIOUS
<1> USE RunnersAssumption, RoutesAssumption, BoundsAssumption DEF Init
<1>1. TypeOK
  BY DEF TypeOK, PCs, NoContext, NoWrites, Writes, NoResults, Statuses, Results, Events
<1>2. RunnerInvariant
  BY DEF RunnerInvariant, HoldsLock, Running, LoopTracked, DeliveryIsReal,
         StagedIsEarned, Sending, InPipeline, NoResults
<1>3. AccountingInvariant
  BY DEF AccountingInvariant, EveryRouteAccounted, ResumeIsSound, Sending, InPipeline,
         NoContext, Events
<1> QED BY <1>1, <1>2, <1>3

\* TypeOK and RunnerInvariant are inductive.
LEMMA RunnerStep ==
  TypeOK /\ RunnerInvariant /\ [Next]_vars => TypeOK' /\ RunnerInvariant'
<1> SUFFICES ASSUME TypeOK, RunnerInvariant, [Next]_vars
             PROVE  TypeOK' /\ RunnerInvariant'
  OBVIOUS
<1>1. CASE UNCHANGED vars
  <2>1. TypeOK'
    BY <1>1 DEF TypeOK, vars, world, db, locals, attempt
  <2>2. UNCHANGED <<delivered, waived, checkpoint, lock, locals>>
    BY <1>1 DEF vars, world, db
  <2> QED BY <2>1, <2>2, QuietStepKeeps
<1>2. CASE Environment
  BY <1>2, EnvironmentFrame, QuietStepKeeps
<1>3. ASSUME NEW p \in Runners, RunStep(p) \/ Fault(p)
      PROVE  TypeOK' /\ RunnerInvariant'
  <2>1. \A q \in Runners : Sending(q) => cur[q] \in todo[q]
    BY DEF RunnerInvariant, LoopTracked
  <2>2. TypeOK'
    BY <1>3, <2>1, TypeStep
  <2>3. \A q \in Runners : HoldsLock(q)'
    BY <1>3, LockStep
  <2>4. LoopTracked(p)' /\ DeliveryIsReal(p)' /\ StagedIsEarned(p)'
    BY <1>3, LoopStep, DeliveryStep, StagedStep
  <2>5. \A q \in Runners : q # p => LoopTracked(q)' /\ DeliveryIsReal(q)' /\ StagedIsEarned(q)'
    BY <1>3, OtherRunnerKeeps
  <2> QED BY <2>2, <2>3, <2>4, <2>5 DEF RunnerInvariant
<1> QED BY <1>1, <1>2, <1>3 DEF Next

\* AccountingInvariant is inductive with them while dedup does not reach over
\* earlier runs.
LEMMA AccountingStep ==
  ASSUME DedupScope # "last_n_hours"
  PROVE  TypeOK /\ RunnerInvariant /\ AccountingInvariant /\ [Next]_vars => AccountingInvariant'
<1> SUFFICES ASSUME TypeOK, RunnerInvariant, AccountingInvariant, [Next]_vars
             PROVE  AccountingInvariant'
  OBVIOUS
<1>1. CASE UNCHANGED vars
  <2>1. UNCHANGED <<delivered, waived, checkpoint, lock, locals>>
    BY <1>1 DEF vars, world, db
  <2> QED BY <2>1, QuietStepKeeps
<1>2. CASE Environment
  BY <1>2, EnvironmentFrame, QuietStepKeeps
<1>3. ASSUME NEW p \in Runners, RunStep(p) \/ Fault(p)
      PROVE  AccountingInvariant'
  <2>1. \A r, e : Accounted(r, e) => Accounted(r, e)'
    BY <1>3, Footprint, AccountedGrows DEF HistoryGrows
  <2>2. EveryRouteAccounted'
    <3>1. CASE checkpoint' = checkpoint
      BY <2>1, <3>1 DEF AccountingInvariant, EveryRouteAccounted
    <3>2. CASE Flush(p) /\ pend[p].cp # 0 /\ checkpoint' = pend[p].cp
      BY <3>2, FlushAccounts
    <3> QED BY <1>3, <3>1, <3>2, Footprint DEF OnlyFlushMoves
  <2>3. ResumeIsSound(p)'
    BY <1>3, ResumeStep
  <2>4. ASSUME NEW q \in Runners, q # p
        PROVE  ResumeIsSound(q)'
    <3>1. pc'[q] = pc[q] /\ ctx'[q] = ctx[q] /\ batch'[q] = batch[q]
      BY <1>3, <2>4, Footprint DEF OthersUntouched
    <3> QED BY <2>1, <3>1 DEF AccountingInvariant, ResumeIsSound, Sending, InPipeline
  <2> QED BY <2>2, <2>3, <2>4 DEF AccountingInvariant
<1> QED BY <1>1, <1>2, <1>3 DEF Next

\* Only the owner of the lock moves the checkpoint, no backfill does, and the
\* commit that moves it changes neither the status nor the enabled routes.
LEMMA CheckpointMoves ==
  ASSUME TypeOK, RunnerInvariant, [Next]_vars, checkpoint' # checkpoint
  PROVE  /\ \E p \in Runners : lock = p /\ Kind[p] # "backfill"
         /\ UNCHANGED <<status, routeOn>>
<1>1. ~UNCHANGED vars
  BY DEF vars, db
<1>2. ~Environment
  BY EnvironmentFrame
<1>3. PICK p \in Runners : RunStep(p) \/ Fault(p)
  BY <1>1, <1>2 DEF Next
<1>4. Flush(p) /\ pend[p].cp # 0
  BY <1>3, Footprint DEF OnlyFlushMoves
<1>5. HoldsLock(p) /\ StagedIsEarned(p)
  BY DEF RunnerInvariant
<1>6. lock = p
  BY <1>4, <1>5 DEF Flush, HoldsLock, Running
<1>7. PersistsCheckpoint(p) /\ pend[p].status = "none" /\ pend[p].off = {}
  BY <1>4, <1>5 DEF Flush, StagedIsEarned
<1>8. status' = status /\ routeOn' = routeOn
  BY <1>4, <1>7 DEF Flush, TypeOK
<1> QED BY <1>6, <1>7, <1>8 DEF PersistsCheckpoint

(***************************************************************************)
(* Theorems                                                                *)
(***************************************************************************)
\* The inductive invariant of the runners holds in every reachable state.
THEOREM RunnersSound == Spec => [](TypeOK /\ RunnerInvariant)
<1>1. Init => TypeOK /\ RunnerInvariant
  BY InitHolds
<1>2. TypeOK /\ RunnerInvariant /\ [Next]_vars => (TypeOK /\ RunnerInvariant)'
  BY RunnerStep
<1> QED BY <1>1, <1>2, PTL DEF Spec

\* Every reachable state is well-typed: in particular no retry loop outlives
\* its budget and no result, row or waiver names a route the stream lacks.
THEOREM TypeCorrect == Spec => []TypeOK
BY RunnersSound, PTL

\* Scheduler, run-once and backfill runs of a stream never overlap.
THEOREM RunsExclude == Spec => []RunsAreExclusive
<1>1. TypeOK /\ RunnerInvariant => RunsAreExclusive
  BY DEF RunnerInvariant, HoldsLock, RunsAreExclusive
<1> QED BY <1>1, RunnersSound, PTL

\* The checkpoint is moved by the owner of the run lock only, never by a
\* backfill.
THEOREM OwnerMovesCheckpoint == Spec => CheckpointMovedByOwner
<1>1. TypeOK /\ RunnerInvariant /\ [Next]_vars =>
        [checkpoint' # checkpoint =>
            \E p \in Runners : lock = p /\ Kind[p] # "backfill"]_vars
  BY CheckpointMoves
<1> QED BY <1>1, RunnersSound, PTL DEF Spec, CheckpointMovedByOwner

\* A transaction that advances the checkpoint neither pauses, limits nor
\* un-routes the stream.
THEOREM CleanAdvance == Spec => AdvanceIsClean
<1>1. TypeOK /\ RunnerInvariant /\ [Next]_vars =>
        [checkpoint' # checkpoint => UNCHANGED <<status, routeOn>>]_vars
  BY CheckpointMoves
<1> QED BY <1>1, RunnersSound, PTL DEF Spec, AdvanceIsClean

\* No event a route still owes is ever behind the checkpoint, unless dedup
\* reaches over earlier runs.
THEOREM CheckpointAccounts ==
  ASSUME DedupScope # "last_n_hours"
  PROVE  Spec => []EveryRouteAccounted
<1>1. Init => AccountingInvariant
  BY InitHolds
<1>2. TypeOK /\ RunnerInvariant /\ AccountingInvariant /\ [Next]_vars => AccountingInvariant'
  BY AccountingStep
<1>3. AccountingInvariant => EveryRouteAccounted
  BY DEF AccountingInvariant
<1> QED BY <1>1, <1>2, <1>3, RunnersSound, PTL DEF Spec

(***************************************************************************)
(* Nothing is behind the checkpoint that nobody received                   *)
(***************************************************************************)
\* What a runner resumes from, stages as a key or leaves out was received.
LEMMA ReceiptStep ==
  ASSUME TypeOK, RunnerInvariant, ReceiptInvariant, NEW p \in Runners, RunStep(p) \/ Fault(p)
  PROVE  ReceiptIsSound(p)'
<1> USE BoundsAssumption DEF vars, world, db, attempt, locals
<1>0. /\ LoopTracked(p) /\ StagedIsEarned(p) /\ ReceiptIsSound(p)
      /\ \A e \in Events : e <= checkpoint => Received(e)
      /\ \A e \in Events : e \in registry => Received(e)
      /\ \A e \in Events : Received(e) => Received(e)'
  BY Footprint DEF HistoryGrows, RunnerInvariant, ReceiptInvariant, SomeRouteDelivered,
     Received
<1>1. CASE Load(p)
  BY <1>0, <1>1 DEF Load, ReceiptIsSound, LoopTracked, Sending, InPipeline,
     InReplayWindow, NoContext, NoWrites, Writes, Events, TypeOK
<1>2. CASE SkipLocked(p)
  BY <1>0, <1>2 DEF SkipLocked, ReceiptIsSound, LoopTracked, Sending, InPipeline,
     InReplayWindow, NoContext, NoWrites, Writes, Events, TypeOK
<1>3. CASE Enter(p)
  BY <1>0, <1>3 DEF Enter, ResolvedCheckpoint, LockAvailable, ReceiptIsSound,
     LoopTracked, Sending, InPipeline, InReplayWindow, NoContext, NoWrites, Writes, Events, TypeOK
<1>4. CASE LimitSource(p)
  BY <1>0, <1>4 DEF LimitSource, StageStatus, ReceiptIsSound, LoopTracked, Sending,
     InPipeline, InReplayWindow, NoContext, NoWrites, Writes, Events, TypeOK
<1>5. CASE Collect(p)
  <2>1. PICK F \in Fetchable(p) : batch' = [batch EXCEPT ![p] = F \ SeedKeys(p)]
    BY <1>5 DEF Collect
  <2>2. /\ batch'[p] = F \ SeedKeys(p) /\ ctx' = ctx /\ pend' = pend
        /\ delivered' = delivered
    BY <1>5, <2>1 DEF Collect, TypeOK
  <2>3. ~InReplayWindow(p) => \A e \in F,
     f \in Events : f <= e => f <= ctx[p].cp \/ f \in F
    BY DEF Fetchable, Events, TypeOK
  <2>4. \A f \in Events : f \in SeedKeys(p) => Received(f)'
    BY <1>0 DEF SeedKeys
  <2> QED BY <1>0, <2>2, <2>3, <2>4 DEF ReceiptIsSound, InReplayWindow
<1>6. CASE NoFailover(p)
  BY <1>0, <1>6 DEF NoFailover, ReceiptIsSound, LoopTracked, Sending, InPipeline,
     InReplayWindow, NoContext, NoWrites, Writes, Events, TypeOK
<1>7. CASE FailoverFails(p)
  BY <1>0, <1>7 DEF FailoverFails, ReceiptIsSound, LoopTracked, Sending, InPipeline,
     InReplayWindow, NoContext, NoWrites, Writes, Events, TypeOK
<1>8. CASE FailoverSucceeds(p)
  BY <1>0, <1>8 DEF FailoverSucceeds, FinishRoute, ClearAttempt, ReceiptIsSound,
     LoopTracked, Sending, InPipeline, InReplayWindow, NoContext, NoWrites, Writes, Events, TypeOK
<1>9. CASE LogAndContinue(p)
  BY <1>0, <1>9 DEF LogAndContinue, ReceiptIsSound, LoopTracked, Sending, InPipeline,
     InReplayWindow, NoContext, NoWrites, Writes, Events, TypeOK
<1>10. CASE PauseStream(p)
  BY <1>0, <1>10 DEF PauseStream, StageStatus, ReceiptIsSound, LoopTracked, Sending,
     InPipeline, InReplayWindow, NoContext, NoWrites, Writes, Events, TypeOK
<1>11. CASE DisableRoute(p)
  BY <1>0, <1>11 DEF DisableRoute, StageDisabledRoute, ReceiptIsSound, LoopTracked,
     Sending, InPipeline, InReplayWindow, NoContext, NoWrites, Writes, Events, TypeOK
<1>12. CASE StartRetry(p)
  BY <1>0, <1>12 DEF StartRetry, ReceiptIsSound, LoopTracked, Sending, InPipeline,
     InReplayWindow, NoContext, NoWrites, Writes, Events, TypeOK
<1>13. CASE RetrySucceeds(p)
  <2>1. cur[p] \in Routes
    BY <1>0, <1>13 DEF RetrySucceeds, LoopTracked, Sending, TypeOK
  <2>2. \A e \in batch[p] : Received(e)'
    BY <1>13, <2>1 DEF RetrySucceeds, Received, Pairs
  <2>3. pend'[p].reg \subseteq pend[p].reg \cup batch[p]
    BY <1>13 DEF RetrySucceeds, StageRegistry, DedupKeys, Writes, TypeOK
  <2>4. pc[p] \in {"routes", "retry"} /\ batch' = batch /\ ctx' = ctx
    BY <1>13 DEF RetrySucceeds
  <2> QED BY <1>0, <2>2, <2>3, <2>4 DEF ReceiptIsSound, InPipeline, Sending, InReplayWindow
<1>14. CASE RetryFails(p)
  BY <1>0, <1>14 DEF RetryFails, ReceiptIsSound, LoopTracked, Sending, InPipeline,
     InReplayWindow, NoContext, NoWrites, Writes, Events, TypeOK
<1>15. CASE RetryExhausted(p)
  BY <1>0, <1>15 DEF RetryExhausted, ReceiptIsSound, LoopTracked, Sending, InPipeline,
     InReplayWindow, NoContext, NoWrites, Writes, Events, TypeOK
<1>16. CASE RecordFailure(p)
  BY <1>0, <1>16 DEF RecordFailure, FinishRoute, ClearAttempt, ReceiptIsSound,
     LoopTracked, Sending, InPipeline, InReplayWindow, NoContext, NoWrites, Writes, Events, TypeOK
<1>17. CASE RoutesDone(p)
  BY <1>0, <1>17 DEF RoutesDone, ReceiptIsSound, LoopTracked, Sending, InPipeline,
     InReplayWindow, NoContext, NoWrites, Writes, Events, TypeOK
<1>18. CASE Settle(p)
  BY <1>0, <1>18 DEF Settle, StageCheckpoint, ReceiptIsSound, LoopTracked, Sending,
     InPipeline, InReplayWindow, NoContext, NoWrites, Writes, Events, TypeOK
<1>19. CASE Flush(p)
  BY <1>0, <1>19 DEF Flush, ReceiptIsSound, LoopTracked, Sending, InPipeline,
     InReplayWindow, NoContext, NoWrites, Writes, Events, TypeOK
<1>20. CASE Release(p)
  BY <1>0, <1>20 DEF Release, ClearRun, ClearAttempt, LockReleased, ReceiptIsSound,
     LoopTracked, Sending, InPipeline, InReplayWindow, NoContext, NoWrites, Writes, Events, TypeOK
<1>21. CASE Raise(p)
  BY <1>0, <1>21 DEF Raise, ReceiptIsSound, LoopTracked, Sending, InPipeline,
     InReplayWindow, NoContext, NoWrites, Writes, Events, TypeOK
<1>22. CASE FlushFails(p)
  BY <1>0, <1>22 DEF FlushFails, ReceiptIsSound, LoopTracked, Sending, InPipeline,
     InReplayWindow, NoContext, NoWrites, Writes, Events, TypeOK
<1>23. CASE Crash(p)
  BY <1>0, <1>23 DEF Crash, ClearRun, ClearAttempt, ReceiptIsSound, LoopTracked,
     Sending, InPipeline, InReplayWindow, NoContext, NoWrites, Writes, Events, TypeOK
<1>24. ASSUME NEW r \in Routes, Withhold(p, r) PROVE ReceiptIsSound(p)'
  BY <1>0, <1>24 DEF Withhold, FinishRoute, ClearAttempt, StageQuarantine,
     ReceiptIsSound, LoopTracked, Sending, InPipeline, InReplayWindow, NoContext, NoWrites, Writes,
     Events, TypeOK
<1>25. ASSUME NEW r \in Routes, SkipDisabledDestination(p, r) PROVE ReceiptIsSound(p)'
  BY <1>0, <1>25 DEF SkipDisabledDestination, FinishRoute, ClearAttempt,
     ReceiptIsSound, LoopTracked, Sending, InPipeline, InReplayWindow, NoContext, NoWrites, Writes,
     Events, TypeOK
<1>26. ASSUME NEW r \in Routes, LimitDestination(p, r) PROVE ReceiptIsSound(p)'
  BY <1>0, <1>26 DEF LimitDestination, FinishRoute, ClearAttempt, StageStatus,
     ReceiptIsSound, LoopTracked, Sending, InPipeline, InReplayWindow, NoContext, NoWrites, Writes,
     Events, TypeOK
<1>27. ASSUME NEW r \in Routes, SendSucceeds(p, r) PROVE ReceiptIsSound(p)'
  <2>1. r \in Routes
    BY <1>0, <1>27 DEF SendSucceeds, LoopTracked, Sending, TypeOK
  <2>2. \A e \in batch[p] : Received(e)'
    BY <1>27, <2>1 DEF SendSucceeds, Received, Pairs
  <2>3. pend'[p].reg \subseteq pend[p].reg \cup batch[p]
    BY <1>27 DEF SendSucceeds, StageRegistry, DedupKeys, Writes, TypeOK
  <2>4. pc[p] \in {"routes", "retry"} /\ batch' = batch /\ ctx' = ctx
    BY <1>27 DEF SendSucceeds
  <2> QED BY <1>0, <2>2, <2>3, <2>4 DEF ReceiptIsSound, InPipeline, Sending, InReplayWindow
<1>28. ASSUME NEW r \in Routes, SendFails(p, r) PROVE ReceiptIsSound(p)'
  BY <1>0, <1>28 DEF SendFails, IsNext, ReceiptIsSound, LoopTracked, Sending,
     InPipeline, InReplayWindow, NoContext, NoWrites, Writes, Events, TypeOK
<1>29. ASSUME NEW d \in DynamicRoutes, SkipDynamic(p, d) PROVE ReceiptIsSound(p)'
  BY <1>0, <1>29 DEF SkipDynamic, ReceiptIsSound, LoopTracked, Sending, InPipeline,
     InReplayWindow, NoContext, NoWrites, Writes, Events, TypeOK
<1>30. ASSUME NEW d \in DynamicRoutes, DynamicSendSucceeds(p, d) PROVE ReceiptIsSound(p)'
  BY <1>0, <1>30 DEF DynamicSendSucceeds, ReceiptIsSound, LoopTracked, Sending,
     InPipeline, InReplayWindow, NoContext, NoWrites, Writes, Events, TypeOK
<1>31. ASSUME NEW d \in DynamicRoutes, DynamicSendFails(p, d) PROVE ReceiptIsSound(p)'
  BY <1>0, <1>31 DEF DynamicSendFails, ReceiptIsSound, LoopTracked, Sending,
     InPipeline, InReplayWindow, NoContext, NoWrites, Writes, Events, TypeOK
<1> QED
  BY <1>1, <1>2, <1>3, <1>4, <1>5, <1>6, <1>7, <1>8, <1>9, <1>10, <1>11, <1>12, <1>13,
     <1>14, <1>15, <1>16, <1>17, <1>18, <1>19, <1>20, <1>21, <1>22, <1>23, <1>24,
        <1>25, <1>26, <1>27, <1>28, <1>29, <1>30, <1>31 DEF RunStep, Fault

\* The commit of an earned checkpoint passes only what was received.
LEMMA FlushReceived ==
  ASSUME TypeOK, RunnerInvariant, ReceiptInvariant, NEW p \in Runners,
         Flush(p), pend[p].cp # 0, checkpoint' = pend[p].cp
  PROVE  SomeRouteDelivered'
<1>1. /\ PersistsCheckpoint(p) /\ pend[p].cp \in batch[p] /\ AnyDelivered(p)
  BY DEF RunnerInvariant, StagedIsEarned, Flush, BatchSucceeded
<1>2. ~InReplayWindow(p)
  BY <1>1, RunnersAssumption DEF PersistsCheckpoint, InReplayWindow
<1>3. PICK r \in Routes : res[p][r] = "delivered"
  BY <1>1 DEF AnyDelivered
<1>4. \A e \in batch[p] : Received(e)
  BY <1>3 DEF RunnerInvariant, DeliveryIsReal, Received
<1>5. \A f \in Events : f <= pend[p].cp => Received(f)
  BY <1>1, <1>2, <1>4 DEF ReceiptInvariant, ReceiptIsSound, Flush
<1>6. delivered' = delivered
  BY DEF Flush, world
<1> QED BY <1>5, <1>6 DEF SomeRouteDelivered, Received

\* The registry grows only by the keys a committing runner has staged.
LEMMA RegistryStep ==
  ASSUME TypeOK, NEW p \in Runners, RunStep(p) \/ Fault(p)
  PROVE  registry' \subseteq registry \cup pend[p].reg
<1> DEFINE Goal == registry' \subseteq registry \cup pend[p].reg
<1> USE DEF db
<1>1. CASE Load(p)
  BY <1>1 DEF Load, TypeOK
<1>2. CASE SkipLocked(p)
  BY <1>2 DEF SkipLocked, TypeOK
<1>3. CASE Enter(p)
  BY <1>3 DEF Enter, ResolvedCheckpoint, LockAvailable, TypeOK
<1>4. CASE LimitSource(p)
  BY <1>4 DEF LimitSource, StageStatus, TypeOK
<1>5. CASE Collect(p)
  BY <1>5 DEF Collect, TypeOK
<1>6. CASE NoFailover(p)
  BY <1>6 DEF NoFailover, TypeOK
<1>7. CASE FailoverFails(p)
  BY <1>7 DEF FailoverFails, TypeOK
<1>8. CASE FailoverSucceeds(p)
  BY <1>8 DEF FailoverSucceeds, FinishRoute, ClearAttempt, TypeOK
<1>9. CASE LogAndContinue(p)
  BY <1>9 DEF LogAndContinue, TypeOK
<1>10. CASE PauseStream(p)
  BY <1>10 DEF PauseStream, StageStatus, TypeOK
<1>11. CASE DisableRoute(p)
  BY <1>11 DEF DisableRoute, StageDisabledRoute, TypeOK
<1>12. CASE StartRetry(p)
  BY <1>12 DEF StartRetry, TypeOK
<1>13. CASE RetrySucceeds(p)
  BY <1>13 DEF RetrySucceeds, StageRegistry, TypeOK
<1>14. CASE RetryFails(p)
  BY <1>14 DEF RetryFails, TypeOK
<1>15. CASE RetryExhausted(p)
  BY <1>15 DEF RetryExhausted, TypeOK
<1>16. CASE RecordFailure(p)
  BY <1>16 DEF RecordFailure, FinishRoute, ClearAttempt, TypeOK
<1>17. CASE RoutesDone(p)
  BY <1>17 DEF RoutesDone, TypeOK
<1>18. CASE Settle(p)
  BY <1>18 DEF Settle, StageCheckpoint, TypeOK
<1>19. CASE Flush(p)
  BY <1>19 DEF Flush, TypeOK
<1>20. CASE Release(p)
  BY <1>20 DEF Release, ClearRun, ClearAttempt, LockReleased, TypeOK
<1>21. CASE Raise(p)
  BY <1>21 DEF Raise, TypeOK
<1>22. CASE FlushFails(p)
  BY <1>22 DEF FlushFails, TypeOK
<1>23. CASE Crash(p)
  BY <1>23 DEF Crash, ClearRun, ClearAttempt, TypeOK
<1>24. ASSUME NEW r \in Routes, Withhold(p, r) PROVE Goal
  BY <1>24 DEF Withhold, FinishRoute, ClearAttempt, StageQuarantine, TypeOK
<1>25. ASSUME NEW r \in Routes, SkipDisabledDestination(p, r) PROVE Goal
  BY <1>25 DEF SkipDisabledDestination, FinishRoute, ClearAttempt, TypeOK
<1>26. ASSUME NEW r \in Routes, LimitDestination(p, r) PROVE Goal
  BY <1>26 DEF LimitDestination, FinishRoute, ClearAttempt, StageStatus, TypeOK
<1>27. ASSUME NEW r \in Routes, SendSucceeds(p, r) PROVE Goal
  BY <1>27 DEF SendSucceeds, FinishRoute, ClearAttempt, StageRegistry, TypeOK
<1>28. ASSUME NEW r \in Routes, SendFails(p, r) PROVE Goal
  BY <1>28 DEF SendFails, IsNext, TypeOK
<1>29. ASSUME NEW d \in DynamicRoutes, SkipDynamic(p, d) PROVE Goal
  BY <1>29 DEF SkipDynamic, TypeOK
<1>30. ASSUME NEW d \in DynamicRoutes, DynamicSendSucceeds(p, d) PROVE Goal
  BY <1>30 DEF DynamicSendSucceeds, TypeOK
<1>31. ASSUME NEW d \in DynamicRoutes, DynamicSendFails(p, d) PROVE Goal
  BY <1>31 DEF DynamicSendFails, TypeOK
<1> QED
  BY <1>1, <1>2, <1>3, <1>4, <1>5, <1>6, <1>7, <1>8, <1>9, <1>10, <1>11, <1>12, <1>13,
     <1>14, <1>15, <1>16, <1>17, <1>18, <1>19, <1>20, <1>21, <1>22, <1>23, <1>24,
        <1>25, <1>26, <1>27, <1>28, <1>29, <1>30, <1>31 DEF RunStep, Fault

\* ReceiptInvariant is inductive with TypeOK and RunnerInvariant, whatever the
\* dedup scope.
LEMMA ReceiptKept ==
  TypeOK /\ RunnerInvariant /\ ReceiptInvariant /\ [Next]_vars => ReceiptInvariant'
<1> SUFFICES ASSUME TypeOK, RunnerInvariant, ReceiptInvariant, [Next]_vars
             PROVE  ReceiptInvariant'
  OBVIOUS
<1>1. ASSUME UNCHANGED <<delivered, checkpoint, registry, locals>>
      PROVE  ReceiptInvariant'
  <2>1. ASSUME NEW p \in Runners PROVE ReceiptIsSound(p)'
    BY <1>1 DEF ReceiptInvariant, ReceiptIsSound, Received, Sending, InPipeline, locals
  <2> QED BY <1>1, <2>1 DEF ReceiptInvariant, SomeRouteDelivered, Received
<1>2. CASE UNCHANGED vars
  BY <1>1, <1>2 DEF vars, world, db
<1>3. CASE Environment
  <2>1. registry' = registry
    BY <1>3 DEF Environment, Produce, StartStream, SetRouteEnabled,
       SetDestinationEnabled, db
  <2> QED BY <1>1, <1>3, <2>1, EnvironmentFrame
<1>4. ASSUME NEW p \in Runners, RunStep(p) \/ Fault(p)
      PROVE  ReceiptInvariant'
  <2>1. \A e : Received(e) => Received(e)'
    BY <1>4, Footprint DEF HistoryGrows, Received
  <2>2. SomeRouteDelivered'
    <3>1. CASE checkpoint' = checkpoint
      BY <2>1, <3>1 DEF ReceiptInvariant, SomeRouteDelivered, Received
    <3>2. CASE Flush(p) /\ pend[p].cp # 0 /\ checkpoint' = pend[p].cp
      BY <3>2, FlushReceived
    <3> QED BY <1>4, <3>1, <3>2, Footprint DEF OnlyFlushMoves
  <2>3. \A e \in Events : e \in registry' => Received(e)'
    BY <1>4, <2>1, RegistryStep DEF ReceiptInvariant, ReceiptIsSound
  <2>4. ReceiptIsSound(p)'
    BY <1>4, ReceiptStep
  <2>5. ASSUME NEW q \in Runners, q # p
        PROVE  ReceiptIsSound(q)'
    <3>1. pc'[q] = pc[q] /\ ctx'[q] = ctx[q] /\ batch'[q] = batch[q] /\ pend'[q] = pend[q]
      BY <1>4, <2>5, Footprint DEF OthersUntouched
    <3> QED BY <2>1, <3>1 DEF ReceiptInvariant, ReceiptIsSound, Sending, InPipeline
  <2> QED BY <2>2, <2>3, <2>4, <2>5 DEF ReceiptInvariant
<1> QED BY <1>2, <1>3, <1>4 DEF Next

\* Whatever dedup drops, retries repeat and replay rows are lost, every event
\* behind the checkpoint reached some destination (_route_delivery_fan_out_outcome,
\* stream_dedup, _flush_pending_writes).
THEOREM CheckpointIsReceived == Spec => []SomeRouteDelivered
<1>1. Init => ReceiptInvariant
  BY BoundsAssumption DEF Init, ReceiptInvariant, SomeRouteDelivered, ReceiptIsSound, Sending,
     InPipeline, NoContext, NoWrites, Writes, Events
<1>2. TypeOK /\ RunnerInvariant /\ ReceiptInvariant /\ [Next]_vars => ReceiptInvariant'
  BY ReceiptKept
<1>3. ReceiptInvariant => SomeRouteDelivered
  BY DEF ReceiptInvariant
<1> QED
  BY <1>1, <1>2, <1>3, RunnersSound, PTL DEF Spec

=============================================================================
