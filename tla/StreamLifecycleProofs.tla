------------------------ MODULE StreamLifecycleProofs ------------------------
(***************************************************************************)
(* Proofs about StreamLifecycle, for every set of scheduler processes and  *)
(* request threads.                                                        *)
(***************************************************************************)
EXTENDS StreamLifecycle, TLAPS

\* What the actors' names have to do with each other.
LEMMA Actors ==
    /\ Nobody \notin Schedulers /\ Nobody \notin Controllers
    /\ Schedulers \cap Controllers = {}
    /\ "STOPPED" \notin RunStatuses /\ "DELETED" \notin RunStatuses
    /\ \A c \in Controllers : Operations[c] \subseteq Requests
  BY ActorsAssumption

LEMMA TypesStart == Init => TypeOK
<1> SUFFICES ASSUME Init PROVE TypeOK
  OBVIOUS
<1>1. Unread \in BOOLEAN \X Statuses
  BY DEF Unread, Statuses
<1>2. seen \in [Controllers -> BOOLEAN \X Statuses]
  BY <1>1 DEF Init
<1> QED
  BY <1>2 DEF Init, TypeOK, Statuses, Verdicts, Looping, Probes, Stopping, Points

\* Every step keeps the types and the locks with the threads that own them.
LEMMA TypesKept == TypeOK /\ [Next]_vars => TypeOK'
<1> SUFFICES ASSUME TypeOK, [Next]_vars PROVE TypeOK'
  OBVIOUS
<1> USE Actors DEF row, cache, threads, requests, Unread, TypeOK, Statuses, Verdicts,
      Looping, Probes, Stopping, Points, Tears, Beside
<1>0. CASE UNCHANGED vars
  BY <1>0 DEF vars
<1>1. ASSUME NEW s \in Schedulers, Fetch(s) PROVE TypeOK'
  BY <1>1 DEF Fetch, Runnable
<1>2. ASSUME NEW s \in Schedulers, Publish(s) PROVE TypeOK'
  BY <1>2 DEF Publish
<1>3. ASSUME NEW s \in Schedulers, List(s) PROVE TypeOK'
  BY <1>3 DEF List
<1>4. ASSUME NEW s \in Schedulers, EnsureWorker(s) PROVE TypeOK'
  <2>1. CASE worker[s] = "none"
    <3>1. /\ worker' = [worker EXCEPT ![s] = "spawned"]
          /\ stopEvent' = [stopEvent EXCEPT ![s] = FALSE]
          /\ listed' = [listed EXCEPT ![s] = FALSE]
          /\ UNCHANGED <<row, gate, fetched, leaving, owner, lock, pc, asked, seen>>
      BY <1>4, <2>1 DEF EnsureWorker, Goto, row, cache, requests
    <3>2. /\ listed' \in [Schedulers -> BOOLEAN]
          /\ stopEvent' \in [Schedulers -> BOOLEAN]
          /\ worker' \in [Schedulers -> {"none", "spawned"} \cup Looping]
      BY <3>1 DEF TypeOK
    <3>3. \A r \in Schedulers : worker'[r] \in Looping => worker[r] = worker'[r]
      BY <3>1 DEF TypeOK, Looping
    <3>4. \A r \in Schedulers : worker'[r] = "run" => lock = r
      BY <3>1 DEF TypeOK
    <3>5. \A r \in Schedulers : leaving[r] => worker'[r] \notin Looping
      BY <3>3 DEF TypeOK
    <3> QED
      BY <3>1, <3>2, <3>3, <3>4, <3>5 DEF TypeOK, row
  <2>2. CASE worker[s] # "none"
    BY <1>4, <2>2 DEF EnsureWorker, Goto, row, cache, threads, requests,
       Unread, TypeOK, Statuses, Verdicts, Looping, Probes
  <2> QED
    BY <2>1, <2>2
<1>5. ASSUME NEW s \in Schedulers, AcquireOwnership(s) PROVE TypeOK'
  BY <1>5 DEF AcquireOwnership, Goto, OwnershipFree
<1>6. ASSUME NEW s \in Schedulers, OwnershipBusy(s) PROVE TypeOK'
  BY <1>6 DEF OwnershipBusy, Goto
<1>7. ASSUME NEW s \in Schedulers, CheckGate(s) PROVE TypeOK'
  BY <1>7 DEF CheckGate, Goto
<1>8. ASSUME NEW s \in Schedulers, LoadContext(s) PROVE TypeOK'
  BY <1>8 DEF LoadContext, Goto, Exists
<1>9. ASSUME NEW s \in Schedulers, LoadFails(s) PROVE TypeOK'
  BY <1>9 DEF LoadFails, AfterException, Goto
<1>10. ASSUME NEW s \in Schedulers, StartRun(s) PROVE TypeOK'
  BY <1>10 DEF StartRun, Goto
<1>11. ASSUME NEW s \in Schedulers, SkipRun(s) PROVE TypeOK'
  BY <1>11 DEF SkipRun, Goto
<1>12. ASSUME NEW s \in Schedulers, EndRun(s) PROVE TypeOK'
  BY <1>12 DEF EndRun, AfterException, Goto, WritesStatus
<1>13. ASSUME NEW s \in Schedulers, WaitInterrupted(s) PROVE TypeOK'
  BY <1>13 DEF WaitInterrupted, Goto
<1>14. ASSUME NEW s \in Schedulers, WaitExpires(s) PROVE TypeOK'
  BY <1>14 DEF WaitExpires, Goto
<1>15. ASSUME NEW s \in Schedulers, ConfirmStopped(s) PROVE TypeOK'
  BY <1>15 DEF ConfirmStopped, Goto, ReadOnly
<1>16. ASSUME NEW s \in Schedulers, PopWorker(s) PROVE TypeOK'
  BY <1>16 DEF PopWorker, Goto
<1>17. ASSUME NEW s \in Schedulers, ReleaseOwnership(s) PROVE TypeOK'
  BY <1>17 DEF ReleaseOwnership
<1>18. ASSUME NEW s \in Schedulers, Crash(s) PROVE TypeOK'
  <2>1. Unread \in BOOLEAN \X Statuses
    BY DEF Unread, Statuses
  <2>2. seen' \in [Controllers -> BOOLEAN \X Statuses]
    BY <1>18, <2>1 DEF Crash, TypeOK
  <2>3. /\ gate' \in [Schedulers -> Verdicts]
        /\ fetched' \in [Schedulers -> Verdicts \cup {"none"}]
        /\ listed' \in [Schedulers -> BOOLEAN]
        /\ worker' \in [Schedulers -> {"none", "spawned"} \cup Looping]
        /\ leaving' \in [Schedulers -> BOOLEAN]
        /\ stopEvent' \in [Schedulers -> BOOLEAN]
        /\ owner' \in Schedulers \cup {Nobody}
        /\ lock' \in Schedulers \cup Controllers \cup {Nobody}
    BY <1>18 DEF Crash, TypeOK, Verdicts
  <2>4. /\ pc' \in [Controllers -> Points]
        /\ asked' \in [Controllers -> {"stop", "reconcile", "delete"}]
    BY <1>18 DEF Crash, TypeOK, Points
  <2>5. \A r \in Schedulers :
          /\ worker'[r] \in Looping => owner' = r
          /\ leaving'[r] => owner' = r /\ worker'[r] \notin Looping
          /\ worker'[r] = "run" => lock' = r
    BY <1>18 DEF Crash, TypeOK, Looping
  <2>6. \A c \in Controllers : pc'[c] = "run_once" => lock' = c
    BY <1>18 DEF Crash, TypeOK
  <2> QED
    BY <1>18, <2>2, <2>3, <2>4, <2>5, <2>6 DEF Crash, TypeOK, row
<1>19. ASSUME NEW c \in Controllers, StartRead(c) PROVE TypeOK'
  BY <1>19 DEF StartRead, At, Exists
<1>20. ASSUME NEW c \in Controllers, StartWrite(c) PROVE TypeOK'
  BY <1>20 DEF StartWrite, At, Answer, SetRow
<1>21. ASSUME NEW c \in Controllers, StopRequest(c) PROVE TypeOK'
  BY <1>21 DEF StopRequest, At, Exists
<1>22. ASSUME NEW c \in Controllers, Signal(c) PROVE TypeOK'
  BY <1>22 DEF Signal, At
<1>23. ASSUME NEW c \in Controllers, DeleteRequest(c) PROVE TypeOK'
  BY <1>23 DEF DeleteRequest, At, Exists, Active
<1>24. ASSUME NEW c \in Controllers, ReconcileLock(c) PROVE TypeOK'
  <2>1. CASE Exists
    BY <1>24, <2>1 DEF ReconcileLock, At
  <2>2. CASE ~Exists
    <3>1. Answer(c) /\ UNCHANGED <<row, cache, threads, owner, lock>>
      BY <1>24, <2>2 DEF ReconcileLock
    <3>2. Unread \in BOOLEAN \X Statuses
      OBVIOUS
    <3>3. seen' \in [Controllers -> BOOLEAN \X Statuses]
      BY <3>1, <3>2 DEF Answer
    <3> QED
      BY <3>1, <3>3 DEF Answer, At
  <2> QED
    BY <2>1, <2>2
<1>25. ASSUME NEW c \in Controllers, DeleteReread(c) PROVE TypeOK'
  <2>1. CASE Exists /\ status \notin Active
    BY <1>25, <2>1 DEF DeleteReread, At
  <2>2. CASE ~(Exists /\ status \notin Active)
    <3>1. Answer(c) /\ UNCHANGED <<row, cache, threads, owner, lock>>
      BY <1>25, <2>2 DEF DeleteReread
    <3>2. Unread \in BOOLEAN \X Statuses
      OBVIOUS
    <3>3. seen' \in [Controllers -> BOOLEAN \X Statuses]
      BY <3>1, <3>2 DEF Answer
    <3> QED
      BY <3>1, <3>3 DEF Answer, At
  <2> QED
    BY <2>1, <2>2
<1>26. ASSUME NEW c \in Controllers, ProbePasses(c) PROVE TypeOK'
  BY <1>26 DEF ProbePasses, At, OwnerGone
<1>27. ASSUME NEW c \in Controllers, ProbeFails(c) PROVE TypeOK'
  BY <1>27 DEF ProbeFails, At, Answer
<1>28. ASSUME NEW c \in Controllers, StopConfirmed(c) PROVE TypeOK'
  BY <1>28 DEF StopConfirmed, At, Answer, SetRow, Exists
<1>29. ASSUME NEW c \in Controllers, Reconciled(c) PROVE TypeOK'
  BY <1>29 DEF Reconciled, At, SetRow, Exists
<1>30. ASSUME NEW c \in Controllers, Delete(c) PROVE TypeOK'
  BY <1>30 DEF Delete, At, Answer, SetRow, Exists
<1>31. ASSUME NEW c \in Controllers, StopFails(c) PROVE TypeOK'
  BY <1>31 DEF StopFails, At, Answer, SetRow
<1>32. ASSUME NEW c \in Controllers, DeleteFails(c) PROVE TypeOK'
  BY <1>32 DEF DeleteFails, At, Answer
<1>33. ASSUME NEW c \in Controllers, SaveConfig(c) PROVE TypeOK'
  BY <1>33 DEF SaveConfig, SetRow, Exists
<1>34. ASSUME NEW c \in Controllers, RunOnce(c) PROVE TypeOK'
  BY <1>34 DEF RunOnce, At
<1>35. ASSUME NEW c \in Controllers, EndRunOnce(c) PROVE TypeOK'
  BY <1>35 DEF EndRunOnce, At, WritesStatus
<1> QED
  BY <1>0, <1>1, <1>2, <1>3, <1>4, <1>5, <1>6, <1>7, <1>8, <1>9, <1>10, <1>11,
     <1>12, <1>13, <1>14, <1>15, <1>16, <1>17, <1>18, <1>19, <1>20, <1>21,
     <1>22, <1>23, <1>24, <1>25, <1>26, <1>27, <1>28, <1>29, <1>30, <1>31,
     <1>32, <1>33, <1>34, <1>35
     DEF Next, CacheStep, SupervisorStep, WorkerStep, RequestStep

\* Worker threads own the worker lock, runs of the scheduler the run lock, and
\* every variable keeps its shape.
THEOREM LifecycleTypes == Spec => []TypeOK
  BY TypesStart, TypesKept, PTL DEF Spec

-----------------------------------------------------------------------------
LEMMA StopKept ==
  ASSUME TypeOK', StopInvariant, [Next]_vars
  PROVE  StopInvariant'
<1> USE Actors DEF StopInvariant, OperatorInvariant, PastOwner,
      StoppedIsDisabled, ConfirmedStopIsQuiet, Quiet, Stopping, Looping, Probes, Points,
      TypeOK, row, cache, threads, requests, Tears, Beside
<1>0. CASE UNCHANGED vars
  BY <1>0 DEF vars
<1>1. ASSUME NEW s \in Schedulers, Fetch(s) PROVE StopInvariant'
  BY <1>1 DEF Fetch, Runnable
<1>2. ASSUME NEW s \in Schedulers, Publish(s) PROVE StopInvariant'
  BY <1>2 DEF Publish
<1>3. ASSUME NEW s \in Schedulers, List(s) PROVE StopInvariant'
  BY <1>3 DEF List
<1>4. ASSUME NEW s \in Schedulers, EnsureWorker(s) PROVE StopInvariant'
  BY <1>4 DEF EnsureWorker, Goto
<1>5. ASSUME NEW s \in Schedulers, AcquireOwnership(s) PROVE StopInvariant'
  BY <1>5 DEF AcquireOwnership, Goto, OwnershipFree
<1>6. ASSUME NEW s \in Schedulers, OwnershipBusy(s) PROVE StopInvariant'
  BY <1>6 DEF OwnershipBusy, Goto
<1>7. ASSUME NEW s \in Schedulers, CheckGate(s) PROVE StopInvariant'
  BY <1>7 DEF CheckGate, Goto
<1>8. ASSUME NEW s \in Schedulers, LoadContext(s) PROVE StopInvariant'
  BY <1>8 DEF LoadContext, Goto, Exists
<1>9. ASSUME NEW s \in Schedulers, LoadFails(s) PROVE StopInvariant'
  BY <1>9 DEF LoadFails, AfterException, Goto
<1>10. ASSUME NEW s \in Schedulers, StartRun(s) PROVE StopInvariant'
  BY <1>10 DEF StartRun, Goto
<1>11. ASSUME NEW s \in Schedulers, SkipRun(s) PROVE StopInvariant'
  BY <1>11 DEF SkipRun, Goto
<1>12. ASSUME NEW s \in Schedulers, EndRun(s) PROVE StopInvariant'
  BY <1>12 DEF EndRun, AfterException, Goto, WritesStatus
<1>13. ASSUME NEW s \in Schedulers, WaitInterrupted(s) PROVE StopInvariant'
  BY <1>13 DEF WaitInterrupted, Goto
<1>14. ASSUME NEW s \in Schedulers, WaitExpires(s) PROVE StopInvariant'
  BY <1>14 DEF WaitExpires, Goto
<1>15. ASSUME NEW s \in Schedulers, ConfirmStopped(s) PROVE StopInvariant'
  BY <1>15 DEF ConfirmStopped, Goto, ReadOnly
<1>16. ASSUME NEW s \in Schedulers, PopWorker(s) PROVE StopInvariant'
  BY <1>16 DEF PopWorker, Goto
<1>17. ASSUME NEW s \in Schedulers, ReleaseOwnership(s) PROVE StopInvariant'
  BY <1>17 DEF ReleaseOwnership
<1>18. ASSUME NEW s \in Schedulers, Crash(s) PROVE StopInvariant'
  BY <1>18 DEF Crash
<1>19. ASSUME NEW c \in Controllers, StartRead(c) PROVE StopInvariant'
  BY <1>19 DEF StartRead, At, Exists
<1>20. ASSUME NEW c \in Controllers, StartWrite(c) PROVE StopInvariant'
  BY <1>20 DEF StartWrite, At, Answer, SetRow
<1>21. ASSUME NEW c \in Controllers, StopRequest(c) PROVE StopInvariant'
  BY <1>21 DEF StopRequest, At, Exists
<1>22. ASSUME NEW c \in Controllers, Signal(c) PROVE StopInvariant'
  BY <1>22 DEF Signal, At
<1>23. ASSUME NEW c \in Controllers, DeleteRequest(c) PROVE StopInvariant'
  BY <1>23 DEF DeleteRequest, At, Exists, Active
<1>24. ASSUME NEW c \in Controllers, ReconcileLock(c) PROVE StopInvariant'
  BY <1>24 DEF ReconcileLock, At, Answer, Exists
<1>25. ASSUME NEW c \in Controllers, DeleteReread(c) PROVE StopInvariant'
  BY <1>25 DEF DeleteReread, At, Answer, Exists, Active
<1>26. ASSUME NEW c \in Controllers, ProbePasses(c) PROVE StopInvariant'
  BY <1>26 DEF ProbePasses, At, OwnerGone
<1>27. ASSUME NEW c \in Controllers, ProbeFails(c) PROVE StopInvariant'
  BY <1>27 DEF ProbeFails, At, Answer
<1>28. ASSUME NEW c \in Controllers, StopConfirmed(c) PROVE StopInvariant'
  BY <1>28 DEF StopConfirmed, At, Answer, SetRow, Exists
<1>29. ASSUME NEW c \in Controllers, Reconciled(c) PROVE StopInvariant'
  <2>1. /\ enabled' = enabled /\ worker' = worker /\ torn' \in BOOLEAN
        /\ torn' => torn
        /\ torn => torn'
    BY <1>29 DEF Reconciled, SetRow, Exists
  <2>2. CASE torn
    BY <2>1, <2>2
  <2>3. CASE ~torn
    <3>1. ~enabled /\ Quiet
      BY <1>29, <2>3 DEF Reconciled
    <3>2. ASSUME NEW d \in Controllers PROVE OperatorInvariant(d)'
      BY <1>29, <2>1, <2>3, <3>1 DEF Reconciled, At
    <3> QED
      BY <2>1, <3>1, <3>2
  <2> QED
    BY <2>2, <2>3
<1>30. ASSUME NEW c \in Controllers, Delete(c) PROVE StopInvariant'
  BY <1>30 DEF Delete, At, Answer, SetRow, Exists
<1>31. ASSUME NEW c \in Controllers, StopFails(c) PROVE StopInvariant'
  <2>1. CASE ~Exists
    BY <1>31, <2>1 DEF StopFails, At, Answer, SetRow
  <2>2. CASE Exists /\ torn
    BY <1>31, <2>2 DEF StopFails, At, Answer, SetRow
  <2>3. CASE Exists /\ ~torn
    <3>1. ~enabled
      BY <1>31, <2>3 DEF StopFails
    <3>2. ~enabled' /\ status' = "STOP_FAILED" /\ worker' = worker
      BY <1>31, <2>3 DEF StopFails, SetRow
    <3>3. ASSUME NEW d \in Controllers PROVE OperatorInvariant(d)'
      <4>1. pc'[d] = "idle" \/ (pc'[d] = pc[d] /\ asked'[d] = asked[d])
        BY <1>31 DEF StopFails, At, Answer
      <4> QED
        BY <2>3, <3>1, <3>2, <4>1
    <3> QED
      BY <3>2, <3>3
  <2> QED
    BY <2>1, <2>2, <2>3
<1>32. ASSUME NEW c \in Controllers, DeleteFails(c) PROVE StopInvariant'
  BY <1>32 DEF DeleteFails, At, Answer
<1>33. ASSUME NEW c \in Controllers, SaveConfig(c) PROVE StopInvariant'
  <2>1. PICK on \in BOOLEAN : SetRow(c, on, status)
    BY <1>33 DEF SaveConfig
  <2>2. CASE torn'
    BY <1>33, <2>2 DEF SaveConfig
  <2>3. CASE ~torn'
    <3>1. ~torn /\ ~Tears(c, on)
      BY <1>33, <2>1, <2>3 DEF SaveConfig, SetRow, Exists
    <3>2. CASE on = enabled
      BY <1>33, <2>1, <3>1, <3>2 DEF SaveConfig, SetRow, Exists
    <3>3. CASE on # enabled
      BY <1>33, <2>1, <3>1, <3>3 DEF SaveConfig, SetRow, Exists
    <3> QED
      BY <3>2, <3>3
  <2> QED
    BY <2>2, <2>3
<1>34. ASSUME NEW c \in Controllers, RunOnce(c) PROVE StopInvariant'
  BY <1>34 DEF RunOnce, At
<1>35. ASSUME NEW c \in Controllers, EndRunOnce(c) PROVE StopInvariant'
  BY <1>35 DEF EndRunOnce, At, WritesStatus
<1> QED
  BY <1>0, <1>1, <1>2, <1>3, <1>4, <1>5, <1>6, <1>7, <1>8, <1>9, <1>10, <1>11,
     <1>12, <1>13, <1>14, <1>15, <1>16, <1>17, <1>18, <1>19, <1>20, <1>21,
     <1>22, <1>23, <1>24, <1>25, <1>26, <1>27, <1>28, <1>29, <1>30, <1>31,
     <1>32, <1>33, <1>34, <1>35
     DEF Next, CacheStep, SupervisorStep, WorkerStep, RequestStep

LEMMA StopAlways == Spec => []StopInvariant
<1>1. Init => StopInvariant
  BY TypesStart DEF Init, StopInvariant, OperatorInvariant, PastOwner,
     StoppedIsDisabled, ConfirmedStopIsQuiet, Quiet, Stopping, Probes
<1>2. StopInvariant /\ [Next]_vars => StopInvariant'
  BY StopKept, TypesKept DEF StopInvariant
<1> QED
  BY <1>1, <1>2, PTL DEF Spec

\* A confirmed stop leaves no run of a scheduler behind, for any number of
\* request threads, scheduler processes, crashes and failed requests, until one
\* request flips the flag beside another.
THEOREM StopIsQuiet == Spec => []ConfirmedStopIsQuiet
<1>1. StopInvariant => ConfirmedStopIsQuiet
  BY DEF StopInvariant
<1> QED
  BY <1>1, StopAlways, PTL

\* The row is enabled and STOPPED only after one request flipped the flag beside
\* another: in the middle of a stop, from an outdated read, or by a save alone.
THEOREM StoppedStaysDisabled == Spec => []StoppedIsDisabled
<1>1. StopInvariant => StoppedIsDisabled
  BY DEF StopInvariant
<1> QED
  BY <1>1, StopAlways, PTL

=============================================================================
