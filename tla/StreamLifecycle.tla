--------------------------- MODULE StreamLifecycle ---------------------------
(***************************************************************************)
(* Starting, stopping and deleting one stream: the stream row that         *)
(* requests write (app/runtime/control_service.py, app/streams/router.py), *)
(* the scheduler processes that poll the stream while the row is enabled   *)
(* and RUNNING (app/scheduler), and the two ownership locks that stop and  *)
(* delete look at.  What a run does is in StreamRunner and how a lock      *)
(* works in RuntimeLock; here a run is the interval in which the run lock  *)
(* is held, and ends by writing a status.                                  *)
(***************************************************************************)
EXTENDS FiniteSets

CONSTANTS
    Schedulers,   \* processes that run a Scheduler
    Controllers,  \* threads that serve API requests
    Home,         \* [Controllers -> Schedulers \cup {Elsewhere}] their process
    Operations,   \* [Controllers -> SUBSET Requests] what each of them serves
    RunStatuses,  \* statuses a run may leave behind (PAUSED, RATE_LIMITED_...)
    Faults        \* subset of {"crash", "exception"}

Nobody == "nobody"
Elsewhere == "elsewhere"
\* DELETED stands for a row that is gone; enabled keeps its last value.
Statuses == {"STOPPED", "RUNNING", "STOPPING", "STOP_FAILED", "DELETED"} \cup RunStatuses
Requests == {"start", "stop", "delete", "run_once", "save"}
Unread == <<FALSE, "STOPPED">>
Verdicts == {"runnable", "not_runnable"}

ASSUME ActorsAssumption ==
    /\ Schedulers \cap Controllers = {}
    /\ Nobody \notin Schedulers \cup Controllers
    /\ Elsewhere \notin Schedulers
    /\ Home \in [Controllers -> Schedulers \cup {Elsewhere}]
    /\ Operations \in [Controllers -> SUBSET Requests]
    /\ RunStatuses \cap {"STOPPED", "DELETED"} = {}

VARIABLES
    enabled, status,  \* the stream row
    gate,             \* EnabledStateCache: the published verdict per process
    fetched,          \* a verdict that was read but is not published yet
    listed,           \* the supervisor has the stream in its list of ids
    worker,           \* the thread in Scheduler._workers, "none" without entry
    leaving,          \* a thread that left _workers and still owns the stream
    stopEvent,        \* the stream's event in _stream_stop_events is set
    owner,            \* whose worker lock it is
    lock,             \* who holds the run lock
    pc,               \* where each request is
    asked,            \* what its probes are for
    seen,             \* the row as start_stream read it
    torn              \* history: the flag was flipped beside another request,
                      \* and no stop has had the row to itself since

row == <<enabled, status, torn>>
cache == <<gate, fetched>>
threads == <<listed, worker, leaving, stopEvent>>
requests == <<pc, asked, seen>>
vars == <<row, cache, threads, owner, lock, requests>>

Looping == {"loop", "load", "ready", "run", "wait", "exit", "leave"}
Probes == {"probe_lock", "probe_owner", "probe_worker"}
\* A stop or a deletion is between its first look at the row and its answer.
Stopping == Probes \cup {"signal", "reconcile", "reread", "confirm"}
Points == Stopping \cup {"idle", "start", "run_once"}

\* Every variable keeps its shape; a looping or leaving worker thread owns the
\* worker lock, and whoever runs the stream the run lock.
TypeOK ==
    /\ enabled \in BOOLEAN
    /\ status \in Statuses
    /\ gate \in [Schedulers -> Verdicts]
    /\ fetched \in [Schedulers -> Verdicts \cup {"none"}]
    /\ listed \in [Schedulers -> BOOLEAN]
    /\ worker \in [Schedulers -> {"none", "spawned"} \cup Looping]
    /\ leaving \in [Schedulers -> BOOLEAN]
    /\ stopEvent \in [Schedulers -> BOOLEAN]
    /\ owner \in Schedulers \cup {Nobody}
    /\ lock \in Schedulers \cup Controllers \cup {Nobody}
    /\ pc \in [Controllers -> Points]
    /\ asked \in [Controllers -> {"stop", "reconcile", "delete"}]
    /\ seen \in [Controllers -> BOOLEAN \X Statuses]
    /\ torn \in BOOLEAN
    /\ \A s \in Schedulers : worker[s] \in Looping => owner = s
    /\ \A s \in Schedulers : leaving[s] => owner = s /\ worker[s] \notin Looping
    /\ \A s \in Schedulers : worker[s] = "run" => lock = s
    /\ \A c \in Controllers : pc[c] = "run_once" => lock = c

\* A created stream is disabled and STOPPED.
Init ==
    /\ enabled = FALSE
    /\ status = "STOPPED"
    /\ gate = [s \in Schedulers |-> "not_runnable"]
    /\ fetched = [s \in Schedulers |-> "none"]
    /\ listed = [s \in Schedulers |-> FALSE]
    /\ worker = [s \in Schedulers |-> "none"]
    /\ leaving = [s \in Schedulers |-> FALSE]
    /\ stopEvent = [s \in Schedulers |-> FALSE]
    /\ owner = Nobody
    /\ lock = Nobody
    /\ pc = [c \in Controllers |-> "idle"]
    /\ asked = [c \in Controllers |-> "stop"]
    /\ seen = [c \in Controllers |-> Unread]
    /\ torn = FALSE

\* is_stream_scheduler_runnable
Runnable == enabled /\ status = "RUNNING"

Exists == status # "DELETED"
\* Another request thread is in the middle of a stop or a deletion.
Beside(c) == \E d \in Controllers \ {c} : pc[d] \in Stopping
\* Request c flips the flag beside such a thread, from a copy of the row that is
\* no longer true, or (a save) without the status that goes with it.
Tears(c, on) ==
    /\ on # enabled
    /\ \/ Beside(c)
       \/ pc[c] = "start" /\ seen[c] # <<enabled, status>>
       \/ pc[c] = "idle" /\ on /\ status = "STOPPED"
\* An UPDATE of a row that is gone changes nothing; the session's error ends
\* the request that issued it.
SetRow(c, on, to) ==
    IF Exists
    THEN enabled' = on /\ status' = to /\ torn' = (torn \/ Tears(c, on))
    ELSE UNCHANGED row

\* reconcile_stale_stream_runtime keeps the row locked while it probes; the
\* other writers wait.
RowFree ==
    \A c \in Controllers :
        ~(asked[c] = "reconcile" /\ pc[c] \in Probes \cup {"confirm"})

-----------------------------------------------------------------------------
(* The enabled-state cache of a scheduler process *)

\* _ensure_fresh: one thread reads the rows ...
Fetch(s) ==
    /\ fetched[s] = "none"
    /\ fetched' = [fetched EXCEPT ![s] = IF Runnable THEN "runnable" ELSE "not_runnable"]
    /\ UNCHANGED <<row, gate, threads, owner, lock, requests>>

\* ... and publishes them when it has the lock again.
Publish(s) ==
    /\ fetched[s] # "none"
    /\ gate' = [gate EXCEPT ![s] = fetched[s]]
    /\ fetched' = [fetched EXCEPT ![s] = "none"]
    /\ UNCHANGED <<row, threads, owner, lock, requests>>

-----------------------------------------------------------------------------
(* The supervisor and the worker thread of a scheduler process *)

Goto(s, step) == worker' = [worker EXCEPT ![s] = step]

\* get_enabled_stream_ids
List(s) ==
    /\ Runnable
    /\ listed' = [listed EXCEPT ![s] = TRUE]
    /\ UNCHANGED <<row, cache, worker, leaving, stopEvent, owner, lock, requests>>

\* _ensure_worker: without a live entry a new thread starts with a cleared event.
EnsureWorker(s) ==
    /\ listed[s]
    /\ listed' = [listed EXCEPT ![s] = FALSE]
    /\ IF worker[s] = "none"
       THEN Goto(s, "spawned") /\ stopEvent' = [stopEvent EXCEPT ![s] = FALSE]
       ELSE UNCHANGED <<worker, stopEvent>>
    /\ UNCHANGED <<row, cache, leaving, owner, lock, requests>>

OwnershipIgnored == TRUE
OwnershipFree == owner = Nobody
\* A request that probes a lock has it for a moment (RuntimeLock, ProbeLocks).
Probed(step) == \E c \in Controllers : pc[c] = step

AcquireOwnership(s) ==
    /\ worker[s] = "spawned"
    /\ OwnershipFree
    /\ owner' = s
    /\ Goto(s, "loop")
    /\ UNCHANGED <<row, cache, listed, leaving, stopEvent, lock, requests>>

\* The entry and the event are popped and the thread ends.
OwnershipBusy(s) ==
    /\ worker[s] = "spawned"
    /\ ~OwnershipFree \/ Probed("probe_owner")
    /\ Goto(s, "none")
    /\ stopEvent' = [stopEvent EXCEPT ![s] = FALSE]
    /\ UNCHANGED <<row, cache, listed, leaving, owner, lock, requests>>

\* The head of the loop: the stop event, then the cached gate.
CheckGate(s) ==
    /\ worker[s] = "loop"
    /\ Goto(s, IF ~stopEvent[s] /\ gate[s] = "runnable" THEN "load" ELSE "exit")
    /\ UNCHANGED <<row, cache, listed, leaving, stopEvent, owner, lock, requests>>

\* load_scheduler_stream_context asks the database again, but for enabled only.
\* A stream that is not found is no reason to leave the loop.
LoadContext(s) ==
    /\ worker[s] = "load"
    /\ Goto(s, IF ~Exists THEN "wait" ELSE IF enabled THEN "ready" ELSE "exit")
    /\ UNCHANGED <<row, cache, listed, leaving, stopEvent, owner, lock, requests>>

\* An exception ends the loop when it is about a disabled stream or its routes,
\* and only the cycle otherwise.
AfterException == {"exit", "wait"}

LoadFails(s) ==
    /\ "exception" \in Faults
    /\ worker[s] = "load"
    /\ \E step \in AfterException : Goto(s, step)
    /\ UNCHANGED <<row, cache, listed, leaving, stopEvent, owner, lock, requests>>

StartRun(s) ==
    /\ worker[s] = "ready"
    /\ lock = Nobody
    /\ lock' = s
    /\ Goto(s, "run")
    /\ UNCHANGED <<row, cache, listed, leaving, stopEvent, owner, requests>>

SkipRun(s) ==
    /\ worker[s] = "ready"
    /\ lock # Nobody \/ Probed("probe_lock")
    /\ Goto(s, "wait")
    /\ UNCHANGED <<row, cache, listed, leaving, stopEvent, owner, lock, requests>>

\* The flush of a run writes the status it staged, if any, and no other column.
WritesStatus ==
    /\ \/ UNCHANGED status
       \/ Exists /\ RowFree /\ status' \in RunStatuses
    /\ UNCHANGED <<enabled, torn>>

EndRun(s) ==
    /\ worker[s] = "run"
    /\ WritesStatus
    /\ lock' = Nobody
    /\ \E step \in {"wait"} \cup IF "exception" \in Faults THEN AfterException ELSE {} :
         Goto(s, step)
    /\ UNCHANGED <<cache, listed, leaving, stopEvent, owner, requests>>

\* _interruptible_wait returns False: the event is set or the gate has closed.
WaitInterrupted(s) ==
    /\ worker[s] = "wait"
    /\ stopEvent[s] \/ gate[s] = "not_runnable"
    /\ Goto(s, "exit")
    /\ UNCHANGED <<row, cache, listed, leaving, stopEvent, owner, lock, requests>>

WaitExpires(s) ==
    /\ worker[s] = "wait"
    /\ ~stopEvent[s]
    /\ Goto(s, "loop")
    /\ UNCHANGED <<row, cache, listed, leaving, stopEvent, owner, lock, requests>>

\* run_with_db opens a read-only transaction unless it is told to commit, and
\* _confirm_stopped_if_disabled does not tell it.
ReadOnly == TRUE

\* _confirm_stopped_if_disabled: its UPDATE fails in a read-only transaction
\* and the exception is logged.
ConfirmStopped(s) ==
    /\ worker[s] = "exit"
    /\ status' = IF ~ReadOnly /\ ~enabled /\ status \in {"STOPPING", "RUNNING"}
                 THEN "STOPPED" ELSE status
    /\ Goto(s, "leave")
    /\ UNCHANGED <<enabled, torn, cache, listed, leaving, stopEvent, owner, lock, requests>>

PopWorker(s) ==
    /\ worker[s] = "leave"
    /\ Goto(s, "none")
    /\ stopEvent' = [stopEvent EXCEPT ![s] = FALSE]
    /\ leaving' = [leaving EXCEPT ![s] = TRUE]
    /\ UNCHANGED <<row, cache, listed, owner, lock, requests>>

OwnershipKept(s) ==
    /\ leaving[s]
    /\ leaving' = [leaving EXCEPT ![s] = FALSE]
    /\ UNCHANGED <<row, cache, listed, worker, stopEvent, owner, lock, requests>>
ReleaseOwnership(s) ==
    /\ leaving[s]
    /\ leaving' = [leaving EXCEPT ![s] = FALSE]
    /\ owner' = Nobody
    /\ UNCHANGED <<row, cache, listed, worker, stopEvent, lock, requests>>

-----------------------------------------------------------------------------
(* API requests *)

At(c, step) == pc' = [pc EXCEPT ![c] = step]
Answer(c) ==
    /\ At(c, "idle")
    /\ asked' = [asked EXCEPT ![c] = "stop"]
    /\ seen' = [seen EXCEPT ![c] = Unread]

\* start_stream reads the row without locking it ...
StartRead(c) ==
    /\ "start" \in Operations[c]
    /\ pc[c] = "idle"
    /\ Exists
    /\ seen' = [seen EXCEPT ![c] = <<enabled, status>>]
    /\ At(c, "start")
    /\ UNCHANGED <<row, cache, threads, owner, lock, asked>>

\* ... and its UPDATE sets the columns that differ from what it read.
StartWrite(c) ==
    /\ pc[c] = "start"
    /\ RowFree
    /\ SetRow(c, enabled \/ ~seen[c][1],
              IF seen[c][2] = "RUNNING" THEN status ELSE "RUNNING")
    /\ Answer(c)
    /\ UNCHANGED <<cache, threads, owner, lock>>

\* _stream_runtime_is_terminal, the parts that requests of c's process see.
WorkerAlive(c) == Home[c] \in Schedulers /\ worker[Home[c]] # "none"
Terminal(c) == lock = Nobody /\ owner = Nobody /\ ~WorkerAlive(c)

StopRequestStatusOnly(c) ==
    /\ "stop" \in Operations[c]
    /\ pc[c] = "idle"
    /\ Exists /\ RowFree
    /\ status' = "STOPPING"
    /\ At(c, "signal")
    /\ UNCHANGED <<enabled, torn, cache, threads, owner, lock, asked, seen>>
\* stop_stream, first transaction; a stop that was confirmed is not repeated.
StopRequest(c) ==
    /\ "stop" \in Operations[c]
    /\ pc[c] = "idle"
    /\ Exists /\ RowFree
    /\ ~(~enabled /\ status = "STOPPED" /\ Terminal(c))
    /\ enabled' = FALSE
    /\ status' = "STOPPING"
    /\ torn' = (Beside(c) /\ (torn \/ enabled))
    /\ At(c, "signal")
    /\ UNCHANGED <<cache, threads, owner, lock, asked, seen>>

\* request_stream_stop reaches the scheduler of this process only.
Signal(c) ==
    /\ pc[c] = "signal"
    /\ stopEvent' = [s \in Schedulers |-> stopEvent[s] \/ s = Home[c]]
    /\ At(c, "probe_lock")
    /\ UNCHANGED <<row, cache, listed, worker, leaving, owner, lock, asked, seen>>

OwnerIgnored(c) == TRUE
OwnerGone(c) == owner = Nobody

\* delete_stream, its first read of the row: a stream that is switched off and
\* was not confirmed goes to reconcile_stale_stream_runtime first, one that is
\* enabled and active is refused.
Active == {"RUNNING", "STOPPING"}
DeleteRequest(c) ==
    /\ "delete" \in Operations[c]
    /\ pc[c] = "idle"
    /\ Exists /\ (enabled => status \notin Active)
    /\ At(c, IF status \in Active THEN "reconcile" ELSE "probe_lock")
    /\ asked' = [asked EXCEPT ![c] = IF status \in Active THEN "reconcile" ELSE "delete"]
    /\ UNCHANGED <<row, cache, threads, owner, lock, seen>>

\* reconcile_stale_stream_runtime locks the row, but goes on from the columns
\* the session has already loaded.
ReconcileLock(c) ==
    /\ pc[c] = "reconcile"
    /\ RowFree
    /\ IF Exists THEN At(c, "probe_lock") /\ UNCHANGED <<asked, seen>> ELSE Answer(c)
    /\ UNCHANGED <<row, cache, threads, owner, lock>>

\* The row is read again after the reconciliation.
DeleteReread(c) ==
    /\ pc[c] = "reread"
    /\ IF Exists /\ status \notin Active
       THEN At(c, "probe_lock") /\ UNCHANGED <<asked, seen>>
       ELSE Answer(c)
    /\ UNCHANGED <<row, cache, threads, owner, lock>>

\* Three reads, one after the other: the last evaluation of
\* _stream_runtime_is_terminal once a stop's wait is over, or the one of a
\* reconciliation; delete_stream asks in another order.
ProbePasses(c) ==
    /\ \/ /\ pc[c] = "probe_lock" /\ lock = Nobody
          /\ At(c, IF asked[c] = "delete" THEN "probe_worker" ELSE "probe_owner")
       \/ /\ pc[c] = "probe_owner" /\ OwnerGone(c)
          /\ At(c, IF asked[c] = "delete" THEN "confirm" ELSE "probe_worker")
       \/ /\ pc[c] = "probe_worker" /\ ~WorkerAlive(c)
          /\ At(c, IF asked[c] = "delete" THEN "probe_owner" ELSE "confirm")
    /\ UNCHANGED <<row, cache, threads, owner, lock, asked, seen>>

\* Something still runs: a stop answers "waiting" and a deletion is refused.
ProbeFails(c) ==
    /\ \/ pc[c] = "probe_lock" /\ lock # Nobody
       \/ pc[c] = "probe_owner" /\ ~OwnerGone(c)
       \/ pc[c] = "probe_worker" /\ WorkerAlive(c)
       \/ /\ pc[c] \in {"probe_lock", "probe_owner"}
          /\ \E d \in Controllers \ {c} : pc[d] = pc[c]
    /\ Answer(c)
    /\ UNCHANGED <<row, cache, threads, owner, lock>>

\* stop_stream, second transaction: the status alone.
StopConfirmed(c) ==
    /\ pc[c] = "confirm" /\ asked[c] = "stop"
    /\ RowFree
    /\ SetRow(c, enabled, "STOPPED")
    /\ Answer(c)
    /\ UNCHANGED <<cache, threads, owner, lock>>

\* The reconciliation found no owner; its commit unlocks the row.
Reconciled(c) ==
    /\ pc[c] = "confirm" /\ asked[c] = "reconcile"
    /\ SetRow(c, enabled, "STOPPED")
    /\ At(c, "reread")
    /\ asked' = [asked EXCEPT ![c] = "delete"]
    /\ UNCHANGED <<cache, threads, owner, lock, seen>>

\* delete_stream_and_dependencies
Delete(c) ==
    /\ pc[c] = "confirm" /\ asked[c] = "delete"
    /\ RowFree
    /\ SetRow(c, enabled, "DELETED")
    /\ Answer(c)
    /\ UNCHANGED <<cache, threads, owner, lock>>

StopFails(c) ==
    /\ "exception" \in Faults
    /\ pc[c] \in {"signal", "confirm"} \cup Probes /\ asked[c] = "stop"
    /\ RowFree
    /\ SetRow(c, FALSE, "STOP_FAILED")
    /\ Answer(c)
    /\ UNCHANGED <<cache, threads, owner, lock>>

\* A failed deletion is rolled back.
DeleteFails(c) ==
    /\ "exception" \in Faults
    /\ asked[c] # "stop"
    /\ Answer(c)
    /\ UNCHANGED <<row, cache, threads, owner, lock>>

\* A configuration save sets enabled and leaves the status.
SaveConfig(c) ==
    /\ "save" \in Operations[c]
    /\ pc[c] = "idle"
    /\ Exists /\ RowFree
    /\ \E on \in BOOLEAN : SetRow(c, on, status)
    /\ UNCHANGED <<cache, threads, owner, lock, requests>>

\* run-once runs a stream whatever its row says.
RunOnce(c) ==
    /\ "run_once" \in Operations[c]
    /\ pc[c] = "idle"
    /\ Exists
    /\ lock = Nobody
    /\ lock' = c
    /\ At(c, "run_once")
    /\ UNCHANGED <<row, cache, threads, owner, asked, seen>>

EndRunOnce(c) ==
    /\ pc[c] = "run_once"
    /\ WritesStatus
    /\ lock' = Nobody
    /\ At(c, "idle")
    /\ UNCHANGED <<cache, threads, owner, asked, seen>>

-----------------------------------------------------------------------------
\* A scheduler process dies with its threads and the requests it was serving.
Crash(s) ==
    LET dead == {c \in Controllers : Home[c] = s} IN
    /\ "crash" \in Faults
    /\ gate' = [gate EXCEPT ![s] = "not_runnable"]
    /\ fetched' = [fetched EXCEPT ![s] = "none"]
    /\ listed' = [listed EXCEPT ![s] = FALSE]
    /\ worker' = [worker EXCEPT ![s] = "none"]
    /\ leaving' = [leaving EXCEPT ![s] = FALSE]
    /\ stopEvent' = [stopEvent EXCEPT ![s] = FALSE]
    /\ owner' = IF owner = s THEN Nobody ELSE owner
    /\ lock' = IF lock \in dead \cup {s} THEN Nobody ELSE lock
    /\ pc' = [c \in Controllers |-> IF c \in dead THEN "idle" ELSE pc[c]]
    /\ asked' = [c \in Controllers |-> IF c \in dead THEN "stop" ELSE asked[c]]
    /\ seen' = [c \in Controllers |-> IF c \in dead THEN Unread ELSE seen[c]]
    /\ UNCHANGED row

CacheStep(s) == Fetch(s) \/ Publish(s)
SupervisorStep(s) == List(s) \/ EnsureWorker(s)
WorkerStep(s) ==
    \/ AcquireOwnership(s) \/ OwnershipBusy(s)
    \/ CheckGate(s) \/ LoadContext(s) \/ LoadFails(s)
    \/ StartRun(s) \/ SkipRun(s) \/ EndRun(s)
    \/ WaitInterrupted(s) \/ WaitExpires(s)
    \/ ConfirmStopped(s) \/ PopWorker(s)
RequestStep(c) ==
    \/ StartWrite(c) \/ Signal(c) \/ ReconcileLock(c) \/ DeleteReread(c)
    \/ ProbePasses(c) \/ ProbeFails(c)
    \/ StopConfirmed(c) \/ Reconciled(c) \/ Delete(c) \/ EndRunOnce(c)

Next ==
    \/ \E s \in Schedulers :
         \/ CacheStep(s) \/ SupervisorStep(s) \/ WorkerStep(s)
         \/ ReleaseOwnership(s) \/ Crash(s)
    \/ \E c \in Controllers :
         \/ RequestStep(c) \/ StopFails(c) \/ DeleteFails(c)
         \/ StartRead(c) \/ StopRequest(c) \/ DeleteRequest(c)
         \/ SaveConfig(c) \/ RunOnce(c)

Spec == Init /\ [][Next]_vars

\* The threads of a scheduler process keep going: the supervisor ticks every
\* few seconds, a cache entry expires after half a second, a worker waits for
\* nothing without a time limit, and a request runs to its answer.
FairSpec ==
    /\ Spec
    /\ \A s \in Schedulers : /\ WF_vars(CacheStep(s)) /\ WF_vars(List(s))
                             /\ WF_vars(EnsureWorker(s)) /\ WF_vars(WorkerStep(s))
                             /\ WF_vars(ReleaseOwnership(s))
    /\ \A c \in Controllers : WF_vars(RequestStep(c))

-----------------------------------------------------------------------------
(* Properties *)

Quiet == \A s \in Schedulers : worker[s] \notin {"ready", "run"}

\* Once a stop is confirmed, or a stream that was switched off is deleted, no
\* scheduler has a run under way or about to start, and none starts: the
\* terminal check of stop_stream, the probes of delete_stream and the row's
\* flag close every way into a run.  However many requests are served at once,
\* this ends only where one has flipped the flag beside another (Tears), and it
\* holds again from the next stop that has the row to itself.
ConfirmedStopIsQuiet ==
    ~torn /\ ~enabled /\ status \in {"STOPPED", "DELETED"} => Quiet

\* Starts, stops and deletions leave the row enabled and RUNNING, or disabled
\* and on its way to STOPPED.  stop_stream's second transaction and
\* reconcile_stale_stream_runtime write the status alone, and a start, a save
\* or a run may write in between: the row is enabled and STOPPED only after one
\* of them has flipped the flag beside another request (Tears).
StoppedIsDisabled == ~torn /\ status = "STOPPED" => ~enabled

\* Why both hold as long as the row is not torn: it stays disabled while a stop
\* or a reconciliation is under way, and past its look at the worker lock a
\* stream that is off is quiet already.
PastOwner(c) ==
    \/ pc[c] = "confirm"
    \/ pc[c] = "probe_worker" /\ asked[c] # "delete"
OperatorInvariant(c) ==
    /\ pc[c] \in Stopping /\ asked[c] # "delete" => ~enabled
    /\ pc[c] = "reconcile" => asked[c] = "reconcile"
    /\ PastOwner(c) /\ ~enabled => Quiet
StopInvariant ==
    /\ TypeOK
    /\ ~torn => \A c \in Controllers : OperatorInvariant(c)
    /\ ConfirmedStopIsQuiet
    /\ StoppedIsDisabled

\* A stream that stays enabled and RUNNING keeps being run.
RunnableIsRun == []<>(~Runnable) \/ []<>(lock # Nobody)

\* A stream that stays disabled, or is gone, is let go by every scheduler
\* process, also by those that no stop event reaches.
DisabledIsReleased == []<>(enabled /\ Exists) \/ <>[](owner = Nobody /\ lock \notin Schedulers)

\* A stop that answered "waiting" is confirmed when the worker has exited.
StopIsConfirmed == status = "STOPPING" ~> status # "STOPPING"

=============================================================================
