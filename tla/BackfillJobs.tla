---------------------------- MODULE BackfillJobs ----------------------------
(***************************************************************************)
(* The backfill jobs of one stream and the requests that create, start and *)
(* cancel them: app/backfill/service.py, worker.py, runtime.py and         *)
(* repository.py.  The handlers are coroutines that never await, so a      *)
(* process serves one such request at a time and a started job is worked   *)
(* on inside its own start request; other API processes run beside it.     *)
(*                                                                         *)
(* A session reads a job once and keeps what it read until it commits:     *)
(* SELECT ... FOR UPDATE locks the row but does not refresh it.  `seen` is *)
(* the status the session holds, `status` the one in the table.            *)
(***************************************************************************)
EXTENDS Naturals, FiniteSets

CONSTANTS
    Processes,      \* API worker processes
    Jobs,           \* ids of backfill_jobs, in the order of their creation
    Dry,            \* jobs without a replay window and without dry_run_complete
    MaxFailures     \* bound: crashes and failed requests

ASSUME BackfillAssumption ==
    /\ Jobs \subseteq Nat
    /\ Dry \subseteq Jobs
    /\ MaxFailures \in Nat

VARIABLES
    status,         \* status column of each job
    lock,           \* processes holding the stream's advisory lock (none or one)
    pc,             \* where each process is
    job,            \* the job its request is about
    seen,           \* the status of that job in its session
    todo,           \* jobs its start-up recovery has not come to
    owned,          \* the coordinator's _owned_jobs
    cancelled,      \* the coordinator's _cancel_requested
    failures,       \* crashes and failed requests so far
    stranded        \* history: active jobs whose request or recovery failed

coordinator == <<owned, cancelled>>
request == <<pc, job, seen, todo>>
faults == <<failures, stranded>>
vars == <<status, lock, request, coordinator, faults>>

NoJob == 0
Active == {"RUNNING", "CANCELLING"}
Terminal == {"COMPLETED", "FAILED", "CANCELLED"}
Statuses == {"none", "PENDING"} \cup Active \cup Terminal

\* Places where the request waits for the advisory lock.
Locking == {"start", "cancel", "finalize", "reconcile"}
\* Places inside BackfillWorker.start_job.
Working == {"running", "complete", "fail", "ack"}

\* Jobs, locks and requests keep their shape: a job only ever has one of its six
\* statuses, and a request past its first read has a job.
TypeOK ==
    /\ status \in [Jobs -> Statuses]
    /\ lock \in SUBSET Processes
    /\ pc \in [Processes ->
          {"idle", "admitted", "started", "marked", "boot", "down"} \cup Locking \cup Working]
    /\ job \in [Processes -> Jobs \cup {NoJob}]
    /\ seen \in [Processes -> Statuses]
    /\ todo \in [Processes -> SUBSET Jobs]
    /\ owned \in [Processes -> SUBSET Jobs]
    /\ cancelled \in [Processes -> SUBSET Jobs]
    /\ failures \in 0..MaxFailures
    /\ stranded \subseteq Jobs
    /\ \A p \in Processes : pc[p] \notin {"idle", "boot", "down"} => job[p] \in Jobs

Init ==
    /\ status = [j \in Jobs |-> "none"]
    /\ lock = {}
    /\ pc = [p \in Processes |-> "idle"]
    /\ job = [p \in Processes |-> NoJob]
    /\ seen = [p \in Processes |-> "none"]
    /\ todo = [p \in Processes |-> {}]
    /\ owned = [p \in Processes |-> {}]
    /\ cancelled = [p \in Processes |-> {}]
    /\ failures = 0
    /\ stranded = {}

Goto(p, l) == pc' = [pc EXCEPT ![p] = l]

\* The session reads job j.
Read(p, j) ==
    /\ job' = [job EXCEPT ![p] = j]
    /\ seen' = [seen EXCEPT ![p] = status[j]]

\* The request is over.
Return(p) ==
    /\ Goto(p, "idle")
    /\ job' = [job EXCEPT ![p] = NoJob]
    /\ seen' = [seen EXCEPT ![p] = "none"]
    /\ UNCHANGED todo

\* The session writes s to its job and commits, which releases its locks.
Write(p, s) ==
    /\ status' = [status EXCEPT ![job[p]] = s]
    /\ lock' = lock \ {p}

\* clear_job_session
Forget(p) ==
    /\ owned' = [owned EXCEPT ![p] = @ \ {job[p]}]
    /\ cancelled' = [cancelled EXCEPT ![p] = @ \ {job[p]}]

\* release_job_owner
Disown(p) ==
    /\ owned' = [owned EXCEPT ![p] = @ \ {job[p]}]
    /\ UNCHANGED cancelled

LockFree == lock = {}

\* pg_advisory_xact_lock, then the row's lock.
Lock(p) ==
    /\ pc[p] \in Locking /\ p \notin lock /\ LockFree
    /\ lock' = lock \cup {p}
    /\ UNCHANGED <<status, request, coordinator, faults>>

\* An unlocked update of the job waits while another session holds the row.
RowFree(p) == \A q \in lock : q = p \/ job[q] # job[p]

-----------------------------------------------------------------------------
(* Create and start *)

\* A job is registered; a replay request goes on to start it in the same
\* session.
Create(p, j) ==
    /\ pc[p] = "idle" /\ status[j] = "none"
    /\ \A i \in Jobs : i < j => status[i] # "none"
    /\ status' = [status EXCEPT ![j] = "PENDING"]
    /\ \/ UNCHANGED request
       \/ /\ j \notin Dry
          /\ Goto(p, "start")
          /\ job' = [job EXCEPT ![p] = j]
          /\ seen' = [seen EXCEPT ![p] = "PENDING"]
          /\ UNCHANGED todo
    /\ UNCHANGED <<lock, coordinator, faults>>

StartRequest(p, j) ==
    /\ pc[p] = "idle" /\ status[j] # "none"
    /\ Read(p, j)
    /\ Goto(p, "start")
    /\ UNCHANGED <<status, lock, todo, coordinator, faults>>

\* Mutant: a start is taken whatever the status.
AnyStatus(p) == TRUE

MayStart(p) == seen[p] = "PENDING"

\* Mutant: jobs that are being cancelled do not count.
OtherRunning(p) == \E i \in Jobs \ {job[p]} : status[i] = "RUNNING"

\* count_active_backfills_on_stream
OtherActive(p) == \E i \in Jobs \ {job[p]} : status[i] \in Active

\* The status is not PENDING, or another job is active.
StartRefused(p) ==
    /\ pc[p] = "start" /\ p \in lock
    /\ (~MayStart(p) \/ OtherActive(p))
    /\ lock' = lock \ {p}
    /\ Return(p)
    /\ UNCHANGED <<status, coordinator, faults>>

\* The job may start: the status is set, and the transaction still open.
Admit(p) ==
    /\ pc[p] = "start" /\ p \in lock
    /\ MayStart(p) /\ ~OtherActive(p)
    /\ Goto(p, "admitted")
    /\ UNCHANGED <<status, lock, job, seen, todo, coordinator, faults>>

Start(p) ==
    /\ pc[p] = "admitted"
    /\ Write(p, "RUNNING")
    /\ Goto(p, "started")
    /\ UNCHANGED <<job, seen, todo, coordinator, faults>>

-----------------------------------------------------------------------------
(* The worker *)

\* The job is read again and claimed; an ended job is left, a cancelled one is
\* acknowledged, an unusable window fails.
Claim(p) ==
    LET j == job[p]
        Cancelling == status[j] = "CANCELLING" \/ j \in cancelled[p]
    IN  /\ pc[p] = "started"
        /\ \/ /\ status[j] \notin Active
              /\ Return(p)
              /\ UNCHANGED coordinator
           \/ /\ status[j] \in Active
              /\ Read(p, j)
              /\ owned' = [owned EXCEPT ![p] = @ \cup {j}]
              /\ \/ Cancelling /\ Goto(p, "ack")
                 \/ ~Cancelling /\ Goto(p, "running")
                 \/ ~Cancelling /\ j \notin Dry /\ Goto(p, "fail")
              /\ UNCHANGED <<todo, cancelled>>
        /\ UNCHANGED <<status, lock, faults>>

\* Mutant: the worker asks its own process's flag only.
FlagOnly(p) ==
    LET j == job[p]
    IN  /\ pc[p] = "running"
        /\ Read(p, j)
        /\ Goto(p, IF j \in cancelled[p] THEN "ack" ELSE "complete")
        /\ UNCHANGED <<status, lock, todo, coordinator, faults>>

\* The run (StreamRunner, or the dry markers) is over and the job read again.
RunReturns(p) ==
    LET j == job[p]
        Cancelling == status[j] = "CANCELLING" \/ j \in cancelled[p]
    IN  /\ pc[p] = "running"
        /\ \/ /\ (Cancelling \/ status[j] = "RUNNING")
              /\ Read(p, j)
              /\ Goto(p, IF Cancelling THEN "ack" ELSE "complete")
              /\ UNCHANGED <<todo, coordinator>>
           \/ /\ ~Cancelling /\ status[j] # "RUNNING"
              /\ Return(p)
              /\ Disown(p)
        /\ UNCHANGED <<status, lock, faults>>

\* The run raises: an active job is failed.
RunRaises(p) ==
    LET j == job[p]
    IN  /\ pc[p] = "running" /\ j \notin Dry
        /\ \/ /\ status[j] \in Active
              /\ Read(p, j)
              /\ Goto(p, "fail")
              /\ UNCHANGED <<todo, coordinator>>
           \/ /\ status[j] \notin Active
              /\ Return(p)
              /\ Disown(p)
        /\ UNCHANGED <<status, lock, faults>>

\* Mutant: the run's outcome is written as the status.
OutcomeAsStatus(p) == {"COMPLETED", "skipped_lock"}

\* COMPLETED, or FAILED when the stream's run lock was held; a dry job stays as
\* it is.
Outcomes(p) == IF job[p] \in Dry THEN {status[job[p]]} ELSE {"COMPLETED", "FAILED"}

Complete(p) ==
    /\ pc[p] = "complete" /\ RowFree(p)
    /\ \E s \in Outcomes(p) : Write(p, s)
    /\ Return(p)
    /\ Disown(p)
    /\ UNCHANGED faults

FailJob(p) ==
    /\ pc[p] = "fail" /\ RowFree(p)
    /\ Write(p, "FAILED")
    /\ Return(p)
    /\ Disown(p)
    /\ UNCHANGED faults

\* _cancel_terminal
Acknowledge(p) ==
    /\ pc[p] = "ack" /\ RowFree(p)
    /\ Write(p, IF seen[p] \in Active THEN "CANCELLED" ELSE status[job[p]])
    /\ Return(p)
    /\ Forget(p)
    /\ UNCHANGED faults

-----------------------------------------------------------------------------
(* Cancel *)

\* A job in a terminal status is refused.
CancelRequest(p, j) ==
    /\ pc[p] = "idle" /\ status[j] \in {"PENDING"} \cup Active
    /\ Read(p, j)
    /\ IF status[j] = "CANCELLING"
         THEN /\ cancelled' = [cancelled EXCEPT ![p] = @ \cup {j}]
              /\ Goto(p, IF j \in owned[p] THEN "idle" ELSE "finalize")
         ELSE UNCHANGED cancelled /\ Goto(p, "cancel")
    /\ UNCHANGED <<status, lock, todo, owned, faults>>

CancelPending(p) ==
    /\ pc[p] = "cancel" /\ p \in lock /\ seen[p] = "PENDING"
    /\ Write(p, "CANCELLED")
    /\ Return(p)
    /\ Forget(p)
    /\ UNCHANGED faults

CancelRunning(p) ==
    /\ pc[p] = "cancel" /\ p \in lock /\ seen[p] = "RUNNING"
    /\ Write(p, "CANCELLING")
    /\ cancelled' = [cancelled EXCEPT ![p] = @ \cup {job[p]}]
    /\ Goto(p, "marked")
    /\ UNCHANGED <<job, seen, todo, owned, faults>>

\* The job is read again; the process does not work on it itself.
Marked(p) ==
    /\ pc[p] = "marked"
    /\ Read(p, job[p])
    /\ Goto(p, IF job[p] \in owned[p] THEN "idle" ELSE "finalize")
    /\ UNCHANGED <<status, lock, todo, coordinator, faults>>

\* _finalize_cancelling_without_owner
Finalize(p) ==
    /\ pc[p] = "finalize" /\ p \in lock
    /\ \/ seen[p] = "CANCELLING" /\ Write(p, "CANCELLED") /\ Forget(p)
       \/ seen[p] # "CANCELLING" /\ lock' = lock \ {p} /\ UNCHANGED <<status, coordinator>>
    /\ Return(p)
    /\ UNCHANGED faults

-----------------------------------------------------------------------------
(* Start-up recovery: reconcile_orphaned_backfill_jobs *)

\* The process goes to the next job of S, in the order of the ids.
NextJob(p, S) ==
    \/ /\ S = {}
       /\ Return(p)
    \/ \E j \in S :
         /\ \A i \in S : j <= i
         /\ Read(p, j)
         /\ todo' = [todo EXCEPT ![p] = S \ {j}]
         /\ Goto(p, "reconcile")

\* list_active_backfill_jobs
ListActive(p) ==
    /\ pc[p] = "boot"
    /\ NextJob(p, {j \in Jobs : status[j] \in Active})
    /\ UNCHANGED <<status, lock, coordinator, faults>>

\* Mutant: a job in CANCELLING is left as it is.
FailRunning(s) == IF s = "RUNNING" THEN "FAILED" ELSE s

Orphaned(s) == IF s = "RUNNING" THEN "FAILED" ELSE "CANCELLED"

Reconcile(p) ==
    /\ pc[p] = "reconcile" /\ p \in lock
    /\ \/ seen[p] \in Active /\ Write(p, Orphaned(seen[p]))
       \/ seen[p] \notin Active /\ lock' = lock \ {p} /\ UNCHANGED status
    /\ NextJob(p, todo[p])
    /\ UNCHANGED <<coordinator, faults>>

-----------------------------------------------------------------------------
(* Faults *)

\* The process dies: its transaction is rolled back, its coordinator is gone.
Crash(p) ==
    /\ pc[p] # "down" /\ failures < MaxFailures
    /\ Goto(p, "down")
    /\ job' = [job EXCEPT ![p] = NoJob]
    /\ seen' = [seen EXCEPT ![p] = "none"]
    /\ todo' = [todo EXCEPT ![p] = {}]
    /\ owned' = [owned EXCEPT ![p] = {}]
    /\ cancelled' = [cancelled EXCEPT ![p] = {}]
    /\ lock' = lock \ {p}
    /\ failures' = failures + 1
    /\ UNCHANGED <<status, stranded>>

Restart(p) ==
    /\ pc[p] = "down"
    /\ Goto(p, "boot")
    /\ UNCHANGED <<status, lock, job, seen, todo, coordinator, faults>>

\* Jobs in the hands of p: the one it works on or finalizes, or the ones its
\* recovery has not come to.
Holds(p, j) ==
    \/ pc[p] = "boot"
    \/ pc[p] = "reconcile" /\ j \in {job[p]} \cup todo[p]
    \/ pc[p] \in {"started", "marked", "finalize"} \cup Working /\ j = job[p]

\* The database fails under the request, or under the recovery, which a process
\* starts without: the transaction is rolled back, the worker gives the job up
\* in start_job's finally, and no row is written.
RequestFails(p) ==
    /\ pc[p] \notin {"idle", "down"} /\ failures < MaxFailures
    /\ stranded' = stranded \cup {j \in Jobs : status[j] \in Active /\ Holds(p, j)}
    /\ lock' = lock \ {p}
    /\ Goto(p, "idle")
    /\ job' = [job EXCEPT ![p] = NoJob]
    /\ seen' = [seen EXCEPT ![p] = "none"]
    /\ todo' = [todo EXCEPT ![p] = {}]
    /\ Disown(p)
    /\ failures' = failures + 1
    /\ UNCHANGED status

Request(p) == \E j \in Jobs : Create(p, j) \/ StartRequest(p, j) \/ CancelRequest(p, j)

Step(p) ==
    \/ Lock(p)
    \/ StartRefused(p) \/ Admit(p) \/ Start(p)
    \/ Claim(p) \/ RunReturns(p) \/ RunRaises(p)
    \/ Complete(p) \/ FailJob(p) \/ Acknowledge(p)
    \/ CancelPending(p) \/ CancelRunning(p) \/ Marked(p) \/ Finalize(p)
    \/ ListActive(p) \/ Reconcile(p) \/ Restart(p)

Next == \E p \in Processes : Request(p) \/ Step(p) \/ Crash(p) \/ RequestFails(p)

Spec == Init /\ [][Next]_vars

\* A request goes on until it returns, PostgreSQL's lock queues are served in
\* order, and a process that died is started again (restart: unless-stopped).
FairSpec == Spec /\ \A p \in Processes : SF_vars(Step(p))

-----------------------------------------------------------------------------
(* Properties *)

\* At most one job of the stream is RUNNING: what StartsAlone comes to.
OneRunning == \A i, j \in Jobs : status[i] = "RUNNING" /\ status[j] = "RUNNING" => i = j

\* A job becomes RUNNING only while no other job of the stream is RUNNING or
\* CANCELLING: the count is still true when the start commits.
StartsAlone ==
    [][\A i, j \in Jobs :
         (i # j /\ status[i] # "RUNNING" /\ status'[i] = "RUNNING") =>
            status[j] \notin Active]_vars

\* The step is one of p's request or recovery.
Moves(p) == pc'[p] # pc[p] \/ todo'[p] # todo[p]

\* Whoever changes an ended job read it before it ended: nobody who has seen it
\* ended touches it (lines 246, 301, 330, 363-372; worker.py 139-140).
EndedIsLeftAlone ==
    [][\A j \in Jobs :
         (status[j] \in Terminal /\ status'[j] # status[j]) =>
            \E p \in Processes : Moves(p) /\ job[p] = j /\ seen[p] \notin Terminal]_vars

\* A job that is being cancelled ends as CANCELLED.  Whoever writes something
\* else read the job before the cancel was committed, or reports a run that
\* raised: a worker that finds CANCELLING in the row, from whichever process
\* the cancel came, does not complete the job (worker.py 82, 136).
CancelIsHeeded ==
    [][\A j \in Jobs :
         (status[j] = "CANCELLING" /\ status'[j] \notin {"CANCELLING", "CANCELLED"}) =>
            \E p \in Processes :
               /\ Moves(p) /\ job[p] = j
               /\ seen[p] # "CANCELLING" \/ pc[p] = "fail"]_vars

\* A job that is being cancelled gets out of CANCELLING, and a job with a
\* replay window ends, also when the process that would do it dies; only a
\* request or a recovery that the database failed under leaves its jobs behind.
EveryJobEnds ==
    \A j \in Jobs :
        /\ status[j] = "CANCELLING" ~> status[j] # "CANCELLING" \/ j \in stranded
        /\ (status[j] \in Active /\ j \notin Dry) ~> status[j] \in Terminal \/ j \in stranded

=============================================================================
