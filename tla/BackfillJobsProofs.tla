-------------------------- MODULE BackfillJobsProofs --------------------------
(***************************************************************************)
(* Proofs about BackfillJobs, for every set of processes and jobs.         *)
(***************************************************************************)
EXTENDS BackfillJobs, TLAPS

LEMMA TypesKept == TypeOK /\ [Next]_vars => TypeOK'
<1> SUFFICES ASSUME TypeOK, [Next]_vars PROVE TypeOK'
  OBVIOUS
<1> USE BackfillAssumption DEF TypeOK, Statuses, Active, Terminal, Locking, Working, NoJob, coordinator, request, faults, vars
<1>0. CASE UNCHANGED vars
  BY <1>0
<1>1. ASSUME NEW p \in Processes, NEW j \in Jobs, Create(p, j) PROVE TypeOK'
  BY <1>1 DEF Create, Goto
<1>2. ASSUME NEW p \in Processes, NEW j \in Jobs, StartRequest(p, j) PROVE TypeOK'
  BY <1>2 DEF StartRequest, Read, Goto
<1>3. ASSUME NEW p \in Processes, NEW j \in Jobs, CancelRequest(p, j) PROVE TypeOK'
  BY <1>3 DEF CancelRequest, Read, Goto
<1>4. ASSUME NEW p \in Processes, Lock(p) PROVE TypeOK'
  BY <1>4 DEF Lock, LockFree
<1>5. ASSUME NEW p \in Processes, StartRefused(p) PROVE TypeOK'
  BY <1>5 DEF StartRefused, MayStart, OtherActive, Return, Goto
<1>6. ASSUME NEW p \in Processes, Admit(p) PROVE TypeOK'
  BY <1>6 DEF Admit, MayStart, OtherActive, Goto
<1>7. ASSUME NEW p \in Processes, Start(p) PROVE TypeOK'
  BY <1>7 DEF Start, Write, Goto
<1>8. ASSUME NEW p \in Processes, Claim(p) PROVE TypeOK'
  BY <1>8 DEF Claim, Return, Read, Goto
<1>9. ASSUME NEW p \in Processes, RunReturns(p) PROVE TypeOK'
  <2> DEFINE C == status[job[p]] = "CANCELLING" \/ job[p] \in cancelled[p]
  <2>1. CASE C
    <3>1. pc' = [pc EXCEPT ![p] = "ack"]
      BY <1>9, <2>1 DEF RunReturns, Goto
    <3>2. /\ seen' = [seen EXCEPT ![p] = status[job[p]]]
          /\ job' = [job EXCEPT ![p] = job[p]]
      BY <1>9, <2>1 DEF RunReturns, Read
    <3>3. UNCHANGED <<status, lock, todo, owned, cancelled, failures, stranded>>
      BY <1>9, <2>1 DEF RunReturns
    <3>4. job[p] \in Jobs
      BY <1>9 DEF RunReturns
    <3> QED
      BY <3>1, <3>2, <3>3, <3>4
  <2>2. CASE ~C /\ status[job[p]] = "RUNNING"
    BY <1>9, <2>2 DEF RunReturns, Return, Read, Goto, Disown
  <2>3. CASE ~C /\ status[job[p]] # "RUNNING"
    BY <1>9, <2>3 DEF RunReturns, Return, Read, Goto, Disown
  <2> QED
    BY <2>1, <2>2, <2>3
<1>10. ASSUME NEW p \in Processes, RunRaises(p) PROVE TypeOK'
  BY <1>10 DEF RunRaises, Return, Read, Goto, Disown
<1>11. ASSUME NEW p \in Processes, Complete(p) PROVE TypeOK'
  BY <1>11 DEF Complete, Outcomes, Write, Return, Goto, Disown
<1>12. ASSUME NEW p \in Processes, FailJob(p) PROVE TypeOK'
  BY <1>12 DEF FailJob, Write, Return, Goto, Disown
<1>13. ASSUME NEW p \in Processes, Acknowledge(p) PROVE TypeOK'
  BY <1>13 DEF Acknowledge, Write, Return, Goto, Forget
<1>14. ASSUME NEW p \in Processes, CancelPending(p) PROVE TypeOK'
  BY <1>14 DEF CancelPending, Write, Return, Goto, Forget
<1>15. ASSUME NEW p \in Processes, CancelRunning(p) PROVE TypeOK'
  BY <1>15 DEF CancelRunning, Write, Goto
<1>16. ASSUME NEW p \in Processes, Marked(p) PROVE TypeOK'
  BY <1>16 DEF Marked, Read, Goto
<1>17. ASSUME NEW p \in Processes, Finalize(p) PROVE TypeOK'
  BY <1>17 DEF Finalize, Write, Return, Goto, Forget
<1>18. ASSUME NEW p \in Processes, ListActive(p) PROVE TypeOK'
  BY <1>18 DEF ListActive, NextJob, Return, Read, Goto
<1>19. ASSUME NEW p \in Processes, Reconcile(p) PROVE TypeOK'
  BY <1>19 DEF Reconcile, NextJob, Return, Read, Goto, Write, Orphaned
<1>20. ASSUME NEW p \in Processes, Restart(p) PROVE TypeOK'
  BY <1>20 DEF Restart, Goto
<1>21. ASSUME NEW p \in Processes, Crash(p) PROVE TypeOK'
  BY <1>21 DEF Crash, Goto
<1>22. ASSUME NEW p \in Processes, RequestFails(p) PROVE TypeOK'
  <2>0. stranded' \subseteq Jobs
    <3>1. stranded' = stranded \cup {j \in Jobs : status[j] \in Active /\ Holds(p, j)}
      BY <1>22 DEF RequestFails
    <3> QED
      BY <3>1
  <2>1. failures' \in 0..MaxFailures
    BY <1>22 DEF RequestFails
  <2>2. /\ pc' = [pc EXCEPT ![p] = "idle"]
        /\ job' = [job EXCEPT ![p] = NoJob]
        /\ seen' = [seen EXCEPT ![p] = "none"]
        /\ todo' = [todo EXCEPT ![p] = {}]
        /\ owned' = [owned EXCEPT ![p] = @ \ {job[p]}]
        /\ lock' = lock \ {p}
        /\ UNCHANGED <<status, cancelled>>
    BY <1>22 DEF RequestFails, Disown, Goto
  <2> QED
    BY <2>0, <2>1, <2>2
<1> QED
  BY <1>0, <1>1, <1>2, <1>3, <1>4, <1>5, <1>6, <1>7, <1>8, <1>9, <1>10, <1>11,
     <1>12, <1>13, <1>14, <1>15, <1>16, <1>17, <1>18, <1>19, <1>20, <1>21, <1>22
     DEF Next, Request, Step

LEMMA TypesStart == Init => TypeOK
  BY BackfillAssumption DEF Init, TypeOK, Statuses, Locking, Working, NoJob

\* Every reachable state is well-typed.
THEOREM BackfillTypes == Spec => []TypeOK
  BY TypesStart, TypesKept, PTL DEF Spec

-----------------------------------------------------------------------------
(* The advisory lock *)

\* At most one process holds the lock, and a process that was admitted holds it.
LockInv ==
    /\ \A p, q \in lock : p = q
    /\ \A p \in Processes : pc[p] = "admitted" => p \in lock

LEMMA LocksKept ==
  ASSUME TypeOK, LockInv, [Next]_vars
  PROVE  LockInv'
<1> USE DEF TypeOK, LockInv, Locking, Working, coordinator, request, faults, vars
<1>0. CASE UNCHANGED vars
  BY <1>0
<1>1. ASSUME NEW p \in Processes, NEW j \in Jobs, Create(p, j) PROVE LockInv'
  BY <1>1 DEF Create, Goto
<1>2. ASSUME NEW p \in Processes, NEW j \in Jobs, StartRequest(p, j) PROVE LockInv'
  BY <1>2 DEF StartRequest, Read, Goto
<1>3. ASSUME NEW p \in Processes, NEW j \in Jobs, CancelRequest(p, j) PROVE LockInv'
  BY <1>3 DEF CancelRequest, Read, Goto
<1>4. ASSUME NEW p \in Processes, Lock(p) PROVE LockInv'
  BY <1>4 DEF Lock, LockFree
<1>5. ASSUME NEW p \in Processes, StartRefused(p) PROVE LockInv'
  BY <1>5 DEF StartRefused, MayStart, OtherActive, Return, Goto
<1>6. ASSUME NEW p \in Processes, Admit(p) PROVE LockInv'
  BY <1>6 DEF Admit, MayStart, OtherActive, Goto
<1>7. ASSUME NEW p \in Processes, Start(p) PROVE LockInv'
  BY <1>7 DEF Start, Write, Goto
<1>8. ASSUME NEW p \in Processes, Claim(p) PROVE LockInv'
  BY <1>8 DEF Claim, Return, Read, Goto
<1>9. ASSUME NEW p \in Processes, RunReturns(p) PROVE LockInv'
  BY <1>9 DEF RunReturns, Return, Read, Goto, Disown
<1>10. ASSUME NEW p \in Processes, RunRaises(p) PROVE LockInv'
  BY <1>10 DEF RunRaises, Return, Read, Goto, Disown
<1>11. ASSUME NEW p \in Processes, Complete(p) PROVE LockInv'
  BY <1>11 DEF Complete, Outcomes, Write, Return, Goto, Disown
<1>12. ASSUME NEW p \in Processes, FailJob(p) PROVE LockInv'
  BY <1>12 DEF FailJob, Write, Return, Goto, Disown
<1>13. ASSUME NEW p \in Processes, Acknowledge(p) PROVE LockInv'
  BY <1>13 DEF Acknowledge, Write, Return, Goto, Forget
<1>14. ASSUME NEW p \in Processes, CancelPending(p) PROVE LockInv'
  BY <1>14 DEF CancelPending, Write, Return, Goto, Forget
<1>15. ASSUME NEW p \in Processes, CancelRunning(p) PROVE LockInv'
  BY <1>15 DEF CancelRunning, Write, Goto
<1>16. ASSUME NEW p \in Processes, Marked(p) PROVE LockInv'
  BY <1>16 DEF Marked, Read, Goto
<1>17. ASSUME NEW p \in Processes, Finalize(p) PROVE LockInv'
  BY <1>17 DEF Finalize, Write, Return, Goto, Forget
<1>18. ASSUME NEW p \in Processes, ListActive(p) PROVE LockInv'
  BY <1>18 DEF ListActive, NextJob, Return, Read, Goto
<1>19. ASSUME NEW p \in Processes, Reconcile(p) PROVE LockInv'
  BY <1>19 DEF Reconcile, NextJob, Return, Read, Goto, Write, Orphaned
<1>20. ASSUME NEW p \in Processes, Restart(p) PROVE LockInv'
  BY <1>20 DEF Restart, Goto
<1>21. ASSUME NEW p \in Processes, Crash(p) PROVE LockInv'
  BY <1>21 DEF Crash, Goto
<1>22. ASSUME NEW p \in Processes, RequestFails(p) PROVE LockInv'
  BY <1>22 DEF RequestFails, Disown, Goto
<1> QED
  BY <1>0, <1>1, <1>2, <1>3, <1>4, <1>5, <1>6, <1>7, <1>8, <1>9, <1>10, <1>11,
     <1>12, <1>13, <1>14, <1>15, <1>16, <1>17, <1>18, <1>19, <1>20, <1>21, <1>22
     DEF Next, Request, Step

\* While a process is admitted, no other job is active.
AdmittedInv ==
    \A p \in Processes : pc[p] = "admitted" =>
        \A i \in Jobs : i # job[p] => status[i] \notin Active

LEMMA AdmittedKept ==
  ASSUME TypeOK, LockInv, AdmittedInv, [Next]_vars
  PROVE  AdmittedInv'
<1> USE DEF TypeOK, LockInv, AdmittedInv, Active, Locking, Working, coordinator, request, faults, vars
<1>0. CASE UNCHANGED vars
  BY <1>0
<1>1. ASSUME NEW p \in Processes, NEW j \in Jobs, Create(p, j) PROVE AdmittedInv'
  BY <1>1 DEF Create, Goto
<1>2. ASSUME NEW p \in Processes, NEW j \in Jobs, StartRequest(p, j) PROVE AdmittedInv'
  BY <1>2 DEF StartRequest, Read, Goto
<1>3. ASSUME NEW p \in Processes, NEW j \in Jobs, CancelRequest(p, j) PROVE AdmittedInv'
  BY <1>3 DEF CancelRequest, Read, Goto
<1>4. ASSUME NEW p \in Processes, Lock(p) PROVE AdmittedInv'
  BY <1>4 DEF Lock, LockFree
<1>5. ASSUME NEW p \in Processes, StartRefused(p) PROVE AdmittedInv'
  BY <1>5 DEF StartRefused, MayStart, OtherActive, Return, Goto
<1>6. ASSUME NEW p \in Processes, Admit(p) PROVE AdmittedInv'
  BY <1>6 DEF Admit, MayStart, OtherActive, Goto
<1>7. ASSUME NEW p \in Processes, Start(p) PROVE AdmittedInv'
  BY <1>7 DEF Start, Write, Goto
<1>8. ASSUME NEW p \in Processes, Claim(p) PROVE AdmittedInv'
  BY <1>8 DEF Claim, Return, Read, Goto
<1>9. ASSUME NEW p \in Processes, RunReturns(p) PROVE AdmittedInv'
  BY <1>9 DEF RunReturns, Return, Read, Goto, Disown
<1>10. ASSUME NEW p \in Processes, RunRaises(p) PROVE AdmittedInv'
  BY <1>10 DEF RunRaises, Return, Read, Goto, Disown
<1>11. ASSUME NEW p \in Processes, Complete(p) PROVE AdmittedInv'
  BY <1>11 DEF Complete, Outcomes, Write, Return, Goto, Disown
<1>12. ASSUME NEW p \in Processes, FailJob(p) PROVE AdmittedInv'
  BY <1>12 DEF FailJob, Write, Return, Goto, Disown
<1>13. ASSUME NEW p \in Processes, Acknowledge(p) PROVE AdmittedInv'
  BY <1>13 DEF Acknowledge, Write, Return, Goto, Forget
<1>14. ASSUME NEW p \in Processes, CancelPending(p) PROVE AdmittedInv'
  BY <1>14 DEF CancelPending, Write, Return, Goto, Forget
<1>15. ASSUME NEW p \in Processes, CancelRunning(p) PROVE AdmittedInv'
  BY <1>15 DEF CancelRunning, Write, Goto
<1>16. ASSUME NEW p \in Processes, Marked(p) PROVE AdmittedInv'
  BY <1>16 DEF Marked, Read, Goto
<1>17. ASSUME NEW p \in Processes, Finalize(p) PROVE AdmittedInv'
  BY <1>17 DEF Finalize, Write, Return, Goto, Forget
<1>18. ASSUME NEW p \in Processes, ListActive(p) PROVE AdmittedInv'
  BY <1>18 DEF ListActive, NextJob, Return, Read, Goto
<1>19. ASSUME NEW p \in Processes, Reconcile(p) PROVE AdmittedInv'
  BY <1>19 DEF Reconcile, NextJob, Return, Read, Goto, Write, Orphaned
<1>20. ASSUME NEW p \in Processes, Restart(p) PROVE AdmittedInv'
  BY <1>20 DEF Restart, Goto
<1>21. ASSUME NEW p \in Processes, Crash(p) PROVE AdmittedInv'
  BY <1>21 DEF Crash, Goto
<1>22. ASSUME NEW p \in Processes, RequestFails(p) PROVE AdmittedInv'
  BY <1>22 DEF RequestFails, Disown, Goto
<1> QED
  BY <1>0, <1>1, <1>2, <1>3, <1>4, <1>5, <1>6, <1>7, <1>8, <1>9, <1>10, <1>11,
     <1>12, <1>13, <1>14, <1>15, <1>16, <1>17, <1>18, <1>19, <1>20, <1>21, <1>22
     DEF Next, Request, Step

LEMMA RunningKept ==
  ASSUME TypeOK, AdmittedInv, OneRunning, [Next]_vars
  PROVE  OneRunning'
<1> USE DEF TypeOK, AdmittedInv, OneRunning, Active, coordinator, request, faults, vars
<1>0. CASE UNCHANGED vars
  BY <1>0
<1>1. ASSUME NEW p \in Processes, NEW j \in Jobs, Create(p, j) PROVE OneRunning'
  BY <1>1 DEF Create, Goto
<1>2. ASSUME NEW p \in Processes, NEW j \in Jobs, StartRequest(p, j) PROVE OneRunning'
  BY <1>2 DEF StartRequest, Read, Goto
<1>3. ASSUME NEW p \in Processes, NEW j \in Jobs, CancelRequest(p, j) PROVE OneRunning'
  BY <1>3 DEF CancelRequest, Read, Goto
<1>4. ASSUME NEW p \in Processes, Lock(p) PROVE OneRunning'
  BY <1>4 DEF Lock, LockFree
<1>5. ASSUME NEW p \in Processes, StartRefused(p) PROVE OneRunning'
  BY <1>5 DEF StartRefused, MayStart, OtherActive, Return, Goto
<1>6. ASSUME NEW p \in Processes, Admit(p) PROVE OneRunning'
  BY <1>6 DEF Admit, MayStart, OtherActive, Goto
<1>7. ASSUME NEW p \in Processes, Start(p) PROVE OneRunning'
  BY <1>7 DEF Start, Write, Goto
<1>8. ASSUME NEW p \in Processes, Claim(p) PROVE OneRunning'
  BY <1>8 DEF Claim, Return, Read, Goto
<1>9. ASSUME NEW p \in Processes, RunReturns(p) PROVE OneRunning'
  BY <1>9 DEF RunReturns, Return, Read, Goto, Disown
<1>10. ASSUME NEW p \in Processes, RunRaises(p) PROVE OneRunning'
  BY <1>10 DEF RunRaises, Return, Read, Goto, Disown
<1>11. ASSUME NEW p \in Processes, Complete(p) PROVE OneRunning'
  BY <1>11 DEF Complete, Outcomes, Write, Return, Goto, Disown
<1>12. ASSUME NEW p \in Processes, FailJob(p) PROVE OneRunning'
  BY <1>12 DEF FailJob, Write, Return, Goto, Disown
<1>13. ASSUME NEW p \in Processes, Acknowledge(p) PROVE OneRunning'
  BY <1>13 DEF Acknowledge, Write, Return, Goto, Forget
<1>14. ASSUME NEW p \in Processes, CancelPending(p) PROVE OneRunning'
  BY <1>14 DEF CancelPending, Write, Return, Goto, Forget
<1>15. ASSUME NEW p \in Processes, CancelRunning(p) PROVE OneRunning'
  BY <1>15 DEF CancelRunning, Write, Goto
<1>16. ASSUME NEW p \in Processes, Marked(p) PROVE OneRunning'
  BY <1>16 DEF Marked, Read, Goto
<1>17. ASSUME NEW p \in Processes, Finalize(p) PROVE OneRunning'
  BY <1>17 DEF Finalize, Write, Return, Goto, Forget
<1>18. ASSUME NEW p \in Processes, ListActive(p) PROVE OneRunning'
  BY <1>18 DEF ListActive, NextJob, Return, Read, Goto
<1>19. ASSUME NEW p \in Processes, Reconcile(p) PROVE OneRunning'
  BY <1>19 DEF Reconcile, NextJob, Return, Read, Goto, Write, Orphaned
<1>20. ASSUME NEW p \in Processes, Restart(p) PROVE OneRunning'
  BY <1>20 DEF Restart, Goto
<1>21. ASSUME NEW p \in Processes, Crash(p) PROVE OneRunning'
  BY <1>21 DEF Crash, Goto
<1>22. ASSUME NEW p \in Processes, RequestFails(p) PROVE OneRunning'
  BY <1>22 DEF RequestFails, Disown, Goto
<1> QED
  BY <1>0, <1>1, <1>2, <1>3, <1>4, <1>5, <1>6, <1>7, <1>8, <1>9, <1>10, <1>11,
     <1>12, <1>13, <1>14, <1>15, <1>16, <1>17, <1>18, <1>19, <1>20, <1>21, <1>22
     DEF Next, Request, Step

LockedInv == TypeOK /\ LockInv /\ AdmittedInv /\ OneRunning

LEMMA LockedHolds == Spec => []LockedInv
<1>1. Init => LockedInv
  BY TypesStart DEF Init, LockedInv, LockInv, AdmittedInv, OneRunning
<1>2. LockedInv /\ [Next]_vars => LockedInv'
  BY TypesKept, LocksKept, AdmittedKept, RunningKept DEF LockedInv
<1> QED
  BY <1>1, <1>2, PTL DEF Spec

\* However stale the sessions' copies are, at most one job of the stream is
\* RUNNING (start_backfill_job 239-280).
THEOREM RunningIsUnique == Spec => []OneRunning
<1>1. LockedInv => OneRunning
  BY DEF LockedInv
<1> QED
  BY <1>1, LockedHolds, PTL

LEMMA StartStep ==
  ASSUME LockedInv, [Next]_vars, NEW i \in Jobs, NEW k \in Jobs,
         i # k, status[i] # "RUNNING", status'[i] = "RUNNING"
  PROVE  status[k] \notin Active
<1> DEFINE Goal == status[k] \notin Active
<1> USE DEF LockedInv, TypeOK, AdmittedInv, coordinator, request, faults, vars
<1>0. CASE UNCHANGED vars
  BY <1>0
<1>1. ASSUME NEW p \in Processes, NEW j \in Jobs, Create(p, j) PROVE Goal
  BY <1>1 DEF Create, Goto
<1>2. ASSUME NEW p \in Processes, NEW j \in Jobs, StartRequest(p, j) PROVE Goal
  BY <1>2 DEF StartRequest, Read, Goto
<1>3. ASSUME NEW p \in Processes, NEW j \in Jobs, CancelRequest(p, j) PROVE Goal
  BY <1>3 DEF CancelRequest, Read, Goto
<1>4. ASSUME NEW p \in Processes, Lock(p) PROVE Goal
  BY <1>4 DEF Lock, LockFree
<1>5. ASSUME NEW p \in Processes, StartRefused(p) PROVE Goal
  BY <1>5 DEF StartRefused, MayStart, OtherActive, Return, Goto
<1>6. ASSUME NEW p \in Processes, Admit(p) PROVE Goal
  BY <1>6 DEF Admit, MayStart, OtherActive, Goto
<1>7. ASSUME NEW p \in Processes, Start(p) PROVE Goal
  BY <1>7 DEF Start, Write, Goto
<1>8. ASSUME NEW p \in Processes, Claim(p) PROVE Goal
  BY <1>8 DEF Claim, Return, Read, Goto
<1>9. ASSUME NEW p \in Processes, RunReturns(p) PROVE Goal
  BY <1>9 DEF RunReturns, Return, Read, Goto, Disown
<1>10. ASSUME NEW p \in Processes, RunRaises(p) PROVE Goal
  BY <1>10 DEF RunRaises, Return, Read, Goto, Disown
<1>11. ASSUME NEW p \in Processes, Complete(p) PROVE Goal
  BY <1>11 DEF Complete, Outcomes, Write, Return, Goto, Disown
<1>12. ASSUME NEW p \in Processes, FailJob(p) PROVE Goal
  BY <1>12 DEF FailJob, Write, Return, Goto, Disown
<1>13. ASSUME NEW p \in Processes, Acknowledge(p) PROVE Goal
  BY <1>13 DEF Acknowledge, Write, Return, Goto, Forget
<1>14. ASSUME NEW p \in Processes, CancelPending(p) PROVE Goal
  BY <1>14 DEF CancelPending, Write, Return, Goto, Forget
<1>15. ASSUME NEW p \in Processes, CancelRunning(p) PROVE Goal
  BY <1>15 DEF CancelRunning, Write, Goto
<1>16. ASSUME NEW p \in Processes, Marked(p) PROVE Goal
  BY <1>16 DEF Marked, Read, Goto
<1>17. ASSUME NEW p \in Processes, Finalize(p) PROVE Goal
  BY <1>17 DEF Finalize, Write, Return, Goto, Forget
<1>18. ASSUME NEW p \in Processes, ListActive(p) PROVE Goal
  BY <1>18 DEF ListActive, NextJob, Return, Read, Goto
<1>19. ASSUME NEW p \in Processes, Reconcile(p) PROVE Goal
  BY <1>19 DEF Reconcile, NextJob, Return, Read, Goto, Write, Orphaned
<1>20. ASSUME NEW p \in Processes, Restart(p) PROVE Goal
  BY <1>20 DEF Restart, Goto
<1>21. ASSUME NEW p \in Processes, Crash(p) PROVE Goal
  BY <1>21 DEF Crash, Goto
<1>22. ASSUME NEW p \in Processes, RequestFails(p) PROVE Goal
  BY <1>22 DEF RequestFails, Disown, Goto
<1> QED
  BY <1>0, <1>1, <1>2, <1>3, <1>4, <1>5, <1>6, <1>7, <1>8, <1>9, <1>10, <1>11,
     <1>12, <1>13, <1>14, <1>15, <1>16, <1>17, <1>18, <1>19, <1>20, <1>21, <1>22
     DEF Next, Request, Step

\* The count of other active jobs is still true when the start commits
\* (count_active_backfills_on_stream under the advisory lock).
THEOREM StartIsAlone == Spec => StartsAlone
<1>1. LockedInv /\ [Next]_vars =>
        [\A i, j \in Jobs :
            (i # j /\ status[i] # "RUNNING" /\ status'[i] = "RUNNING") =>
                status[j] \notin Active]_vars
  BY StartStep
<1> QED
  BY <1>1, LockedHolds, PTL DEF Spec, StartsAlone

-----------------------------------------------------------------------------
(* What a session has seen *)

\* Whoever is about to write has seen its job not ended, and a worker that is
\* about to complete its job has seen it RUNNING.
SeenInv ==
    \A p \in Processes :
        /\ pc[p] = "admitted" => seen[p] = "PENDING"
        /\ pc[p] = "complete" => seen[p] = "RUNNING"
        /\ pc[p] = "fail" => seen[p] \in Active

LEMMA SeenKept ==
  ASSUME TypeOK, SeenInv, [Next]_vars
  PROVE  SeenInv'
<1> USE DEF TypeOK, SeenInv, Active, Locking, Working, coordinator, request, faults, vars
<1>0. CASE UNCHANGED vars
  BY <1>0
<1>1. ASSUME NEW p \in Processes, NEW j \in Jobs, Create(p, j) PROVE SeenInv'
  BY <1>1 DEF Create, Goto
<1>2. ASSUME NEW p \in Processes, NEW j \in Jobs, StartRequest(p, j) PROVE SeenInv'
  BY <1>2 DEF StartRequest, Read, Goto
<1>3. ASSUME NEW p \in Processes, NEW j \in Jobs, CancelRequest(p, j) PROVE SeenInv'
  BY <1>3 DEF CancelRequest, Read, Goto
<1>4. ASSUME NEW p \in Processes, Lock(p) PROVE SeenInv'
  BY <1>4 DEF Lock, LockFree
<1>5. ASSUME NEW p \in Processes, StartRefused(p) PROVE SeenInv'
  BY <1>5 DEF StartRefused, MayStart, OtherActive, Return, Goto
<1>6. ASSUME NEW p \in Processes, Admit(p) PROVE SeenInv'
  BY <1>6 DEF Admit, MayStart, OtherActive, Goto
<1>7. ASSUME NEW p \in Processes, Start(p) PROVE SeenInv'
  BY <1>7 DEF Start, Write, Goto
<1>8. ASSUME NEW p \in Processes, Claim(p) PROVE SeenInv'
  BY <1>8 DEF Claim, Return, Read, Goto
<1>9. ASSUME NEW p \in Processes, RunReturns(p) PROVE SeenInv'
  BY <1>9 DEF RunReturns, Return, Read, Goto, Disown
<1>10. ASSUME NEW p \in Processes, RunRaises(p) PROVE SeenInv'
  BY <1>10 DEF RunRaises, Return, Read, Goto, Disown
<1>11. ASSUME NEW p \in Processes, Complete(p) PROVE SeenInv'
  BY <1>11 DEF Complete, Outcomes, Write, Return, Goto, Disown
<1>12. ASSUME NEW p \in Processes, FailJob(p) PROVE SeenInv'
  BY <1>12 DEF FailJob, Write, Return, Goto, Disown
<1>13. ASSUME NEW p \in Processes, Acknowledge(p) PROVE SeenInv'
  BY <1>13 DEF Acknowledge, Write, Return, Goto, Forget
<1>14. ASSUME NEW p \in Processes, CancelPending(p) PROVE SeenInv'
  BY <1>14 DEF CancelPending, Write, Return, Goto, Forget
<1>15. ASSUME NEW p \in Processes, CancelRunning(p) PROVE SeenInv'
  BY <1>15 DEF CancelRunning, Write, Goto
<1>16. ASSUME NEW p \in Processes, Marked(p) PROVE SeenInv'
  BY <1>16 DEF Marked, Read, Goto
<1>17. ASSUME NEW p \in Processes, Finalize(p) PROVE SeenInv'
  BY <1>17 DEF Finalize, Write, Return, Goto, Forget
<1>18. ASSUME NEW p \in Processes, ListActive(p) PROVE SeenInv'
  BY <1>18 DEF ListActive, NextJob, Return, Read, Goto
<1>19. ASSUME NEW p \in Processes, Reconcile(p) PROVE SeenInv'
  BY <1>19 DEF Reconcile, NextJob, Return, Read, Goto, Write, Orphaned
<1>20. ASSUME NEW p \in Processes, Restart(p) PROVE SeenInv'
  BY <1>20 DEF Restart, Goto
<1>21. ASSUME NEW p \in Processes, Crash(p) PROVE SeenInv'
  BY <1>21 DEF Crash, Goto
<1>22. ASSUME NEW p \in Processes, RequestFails(p) PROVE SeenInv'
  BY <1>22 DEF RequestFails, Disown, Goto
<1> QED
  BY <1>0, <1>1, <1>2, <1>3, <1>4, <1>5, <1>6, <1>7, <1>8, <1>9, <1>10, <1>11,
     <1>12, <1>13, <1>14, <1>15, <1>16, <1>17, <1>18, <1>19, <1>20, <1>21, <1>22
     DEF Next, Request, Step

LEMMA SeenHolds == Spec => []SeenInv
<1>1. Init => SeenInv
  BY DEF Init, SeenInv
<1>2. TypeOK /\ SeenInv /\ [Next]_vars => SeenInv'
  BY SeenKept
<1> QED
  BY <1>1, <1>2, BackfillTypes, PTL DEF Spec

LEMMA EndedStep ==
  ASSUME TypeOK, SeenInv, [Next]_vars, NEW k \in Jobs,
         status[k] \in Terminal, status'[k] # status[k]
  PROVE  \E p \in Processes : Moves(p) /\ job[p] = k /\ seen[p] \notin Terminal
<1> DEFINE Goal == \E p \in Processes : Moves(p) /\ job[p] = k /\ seen[p] \notin Terminal
<1> USE DEF Moves, TypeOK, SeenInv, Active, Terminal, coordinator, request, faults, vars
<1>0. CASE UNCHANGED vars
  BY <1>0
<1>1. ASSUME NEW p \in Processes, NEW j \in Jobs, Create(p, j) PROVE Goal
  BY <1>1 DEF Create, Goto
<1>2. ASSUME NEW p \in Processes, NEW j \in Jobs, StartRequest(p, j) PROVE Goal
  BY <1>2 DEF StartRequest, Read, Goto
<1>3. ASSUME NEW p \in Processes, NEW j \in Jobs, CancelRequest(p, j) PROVE Goal
  BY <1>3 DEF CancelRequest, Read, Goto
<1>4. ASSUME NEW p \in Processes, Lock(p) PROVE Goal
  BY <1>4 DEF Lock, LockFree
<1>5. ASSUME NEW p \in Processes, StartRefused(p) PROVE Goal
  BY <1>5 DEF StartRefused, MayStart, OtherActive, Return, Goto
<1>6. ASSUME NEW p \in Processes, Admit(p) PROVE Goal
  BY <1>6 DEF Admit, MayStart, OtherActive, Goto
<1>7. ASSUME NEW p \in Processes, Start(p) PROVE Goal
  BY <1>7 DEF Start, Write, Goto
<1>8. ASSUME NEW p \in Processes, Claim(p) PROVE Goal
  BY <1>8 DEF Claim, Return, Read, Goto
<1>9. ASSUME NEW p \in Processes, RunReturns(p) PROVE Goal
  BY <1>9 DEF RunReturns, Return, Read, Goto, Disown
<1>10. ASSUME NEW p \in Processes, RunRaises(p) PROVE Goal
  BY <1>10 DEF RunRaises, Return, Read, Goto, Disown
<1>11. ASSUME NEW p \in Processes, Complete(p) PROVE Goal
  BY <1>11 DEF Complete, Outcomes, Write, Return, Goto, Disown
<1>12. ASSUME NEW p \in Processes, FailJob(p) PROVE Goal
  BY <1>12 DEF FailJob, Write, Return, Goto, Disown
<1>13. ASSUME NEW p \in Processes, Acknowledge(p) PROVE Goal
  BY <1>13 DEF Acknowledge, Write, Return, Goto, Forget
<1>14. ASSUME NEW p \in Processes, CancelPending(p) PROVE Goal
  BY <1>14 DEF CancelPending, Write, Return, Goto, Forget
<1>15. ASSUME NEW p \in Processes, CancelRunning(p) PROVE Goal
  BY <1>15 DEF CancelRunning, Write, Goto
<1>16. ASSUME NEW p \in Processes, Marked(p) PROVE Goal
  BY <1>16 DEF Marked, Read, Goto
<1>17. ASSUME NEW p \in Processes, Finalize(p) PROVE Goal
  BY <1>17 DEF Finalize, Write, Return, Goto, Forget
<1>18. ASSUME NEW p \in Processes, ListActive(p) PROVE Goal
  BY <1>18 DEF ListActive, NextJob, Return, Read, Goto
<1>19. ASSUME NEW p \in Processes, Reconcile(p) PROVE Goal
  BY <1>19 DEF Reconcile, NextJob, Return, Read, Goto, Write, Orphaned
<1>20. ASSUME NEW p \in Processes, Restart(p) PROVE Goal
  BY <1>20 DEF Restart, Goto
<1>21. ASSUME NEW p \in Processes, Crash(p) PROVE Goal
  BY <1>21 DEF Crash, Goto
<1>22. ASSUME NEW p \in Processes, RequestFails(p) PROVE Goal
  BY <1>22 DEF RequestFails, Disown, Goto
<1> QED
  BY <1>0, <1>1, <1>2, <1>3, <1>4, <1>5, <1>6, <1>7, <1>8, <1>9, <1>10, <1>11,
     <1>12, <1>13, <1>14, <1>15, <1>16, <1>17, <1>18, <1>19, <1>20, <1>21, <1>22
     DEF Next, Request, Step

\* Nobody who has seen a job ended changes it.
THEOREM EndedStays == Spec => EndedIsLeftAlone
<1>1. TypeOK /\ SeenInv /\ [Next]_vars =>
        [\A j \in Jobs :
            (status[j] \in Terminal /\ status'[j] # status[j]) =>
                \E p \in Processes : Moves(p) /\ job[p] = j /\ seen[p] \notin Terminal]_vars
  BY EndedStep
<1> QED
  BY <1>1, BackfillTypes, SeenHolds, PTL DEF Spec, EndedIsLeftAlone

LEMMA CancelStep ==
  ASSUME TypeOK, SeenInv, [Next]_vars, NEW k \in Jobs,
         status[k] = "CANCELLING", status'[k] \notin {"CANCELLING", "CANCELLED"}
  PROVE  \E p \in Processes :
            /\ Moves(p) /\ job[p] = k
            /\ seen[p] # "CANCELLING" \/ pc[p] = "fail"
<1> DEFINE Goal == \E p \in Processes :
                      /\ Moves(p) /\ job[p] = k
                      /\ seen[p] # "CANCELLING" \/ pc[p] = "fail"
<1> USE DEF Moves, TypeOK, SeenInv, Active, Terminal, coordinator, request, faults, vars
<1>0. CASE UNCHANGED vars
  BY <1>0
<1>1. ASSUME NEW p \in Processes, NEW j \in Jobs, Create(p, j) PROVE Goal
  BY <1>1 DEF Create, Goto
<1>2. ASSUME NEW p \in Processes, NEW j \in Jobs, StartRequest(p, j) PROVE Goal
  BY <1>2 DEF StartRequest, Read, Goto
<1>3. ASSUME NEW p \in Processes, NEW j \in Jobs, CancelRequest(p, j) PROVE Goal
  BY <1>3 DEF CancelRequest, Read, Goto
<1>4. ASSUME NEW p \in Processes, Lock(p) PROVE Goal
  BY <1>4 DEF Lock, LockFree
<1>5. ASSUME NEW p \in Processes, StartRefused(p) PROVE Goal
  BY <1>5 DEF StartRefused, MayStart, OtherActive, Return, Goto
<1>6. ASSUME NEW p \in Processes, Admit(p) PROVE Goal
  BY <1>6 DEF Admit, MayStart, OtherActive, Goto
<1>7. ASSUME NEW p \in Processes, Start(p) PROVE Goal
  BY <1>7 DEF Start, Write, Goto
<1>8. ASSUME NEW p \in Processes, Claim(p) PROVE Goal
  BY <1>8 DEF Claim, Return, Read, Goto
<1>9. ASSUME NEW p \in Processes, RunReturns(p) PROVE Goal
  BY <1>9 DEF RunReturns, Return, Read, Goto, Disown
<1>10. ASSUME NEW p \in Processes, RunRaises(p) PROVE Goal
  BY <1>10 DEF RunRaises, Return, Read, Goto, Disown
<1>11. ASSUME NEW p \in Processes, Complete(p) PROVE Goal
  BY <1>11 DEF Complete, Outcomes, Write, Return, Goto, Disown
<1>12. ASSUME NEW p \in Processes, FailJob(p) PROVE Goal
  BY <1>12 DEF FailJob, Write, Return, Goto, Disown
<1>13. ASSUME NEW p \in Processes, Acknowledge(p) PROVE Goal
  BY <1>13 DEF Acknowledge, Write, Return, Goto, Forget
<1>14. ASSUME NEW p \in Processes, CancelPending(p) PROVE Goal
  BY <1>14 DEF CancelPending, Write, Return, Goto, Forget
<1>15. ASSUME NEW p \in Processes, CancelRunning(p) PROVE Goal
  BY <1>15 DEF CancelRunning, Write, Goto
<1>16. ASSUME NEW p \in Processes, Marked(p) PROVE Goal
  BY <1>16 DEF Marked, Read, Goto
<1>17. ASSUME NEW p \in Processes, Finalize(p) PROVE Goal
  BY <1>17 DEF Finalize, Write, Return, Goto, Forget
<1>18. ASSUME NEW p \in Processes, ListActive(p) PROVE Goal
  BY <1>18 DEF ListActive, NextJob, Return, Read, Goto
<1>19. ASSUME NEW p \in Processes, Reconcile(p) PROVE Goal
  BY <1>19 DEF Reconcile, NextJob, Return, Read, Goto, Write, Orphaned
<1>20. ASSUME NEW p \in Processes, Restart(p) PROVE Goal
  BY <1>20 DEF Restart, Goto
<1>21. ASSUME NEW p \in Processes, Crash(p) PROVE Goal
  BY <1>21 DEF Crash, Goto
<1>22. ASSUME NEW p \in Processes, RequestFails(p) PROVE Goal
  BY <1>22 DEF RequestFails, Disown, Goto
<1> QED
  BY <1>0, <1>1, <1>2, <1>3, <1>4, <1>5, <1>6, <1>7, <1>8, <1>9, <1>10, <1>11,
     <1>12, <1>13, <1>14, <1>15, <1>16, <1>17, <1>18, <1>19, <1>20, <1>21, <1>22
     DEF Next, Request, Step

\* A job that is being cancelled ends otherwise only by a writer that read it
\* before the cancel, or whose run raised.
THEOREM CancelsAreHeeded == Spec => CancelIsHeeded
<1>1. TypeOK /\ SeenInv /\ [Next]_vars =>
        [\A j \in Jobs :
            (status[j] = "CANCELLING" /\ status'[j] \notin {"CANCELLING", "CANCELLED"}) =>
                \E p \in Processes :
                    /\ Moves(p) /\ job[p] = j
                    /\ seen[p] # "CANCELLING" \/ pc[p] = "fail"]_vars
  BY CancelStep
<1> QED
  BY <1>1, BackfillTypes, SeenHolds, PTL DEF Spec, CancelIsHeeded

=============================================================================
