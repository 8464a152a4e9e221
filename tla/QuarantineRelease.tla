-------------------------- MODULE QuarantineRelease --------------------------
(***************************************************************************)
(* The quarantined batches of one stream and the requests that release or  *)
(* discard them, one or several at a time: app/quarantine/service.py,      *)
(* release_delivery.py and their callers.  A request is one transaction:   *)
(* it locks each of its rows without waiting, sends a released batch to    *)
(* the row's routes while it holds the lock, and commits statuses and the  *)
(* stream's checkpoint together at its end.  A row that is locked already  *)
(* aborts the transaction, and what a bulk request does afterwards is      *)
(* rolled back.                                                            *)
(***************************************************************************)
EXTENDS Integers, FiniteSets

CONSTANTS
    Workers,        \* API worker processes
    Rows,           \* rows of stream_quarantine_events
    Routes,         \* routes of the stream
    Required,       \* routes whose failure_policy is not LOG_AND_CONTINUE
    Off,            \* routes that are switched off, or their destinations are
    RoutesOf,       \* RoutesOf[i]: the routes row i is released to
    Position,       \* Position[i]: the checkpoint value of row i's last event
    MaxPosition     \* bound: positions of the stream

ASSUME ReleaseAssumption ==
    /\ Required \subseteq Routes
    /\ RoutesOf \in [Rows -> SUBSET Routes]
    /\ Position \in [Rows -> 1..MaxPosition]
    /\ MaxPosition \in Nat

VARIABLES
    status,         \* status column of each row
    checkpoint,     \* the stream's checkpoint
    rowLock,        \* the transactions holding each row's lock (none or one)
    pc,             \* where each worker's request is
    kind,           \* what the request does
    todo,           \* rows it has not come to
    cur,            \* the row it is releasing
    left,           \* routes it has not sent that row to
    sendOk,         \* any_send_ok
    requiredOk,     \* all_required_ok
    staged,         \* rows whose new status the transaction holds
    stagedCp,       \* the checkpoint it holds, or 0
    aborted,        \* the database has aborted the transaction
    accepted        \* row and route: releases the destinations accepted

database == <<status, checkpoint>>
request == <<pc, kind, todo, cur, left, sendOk, requiredOk>>
txn == <<staged, stagedCp, aborted>>
vars == <<database, rowLock, request, txn, accepted>>

None == "no row"

\* Rows, checkpoint and requests keep their shape: the checkpoint stays a position
\* of the stream, and a request that is sending has a row to send.
TypeOK ==
    /\ status \in [Rows -> {"quarantined", "released", "discarded"}]
    /\ checkpoint \in 0..MaxPosition
    /\ rowLock \in [Rows -> SUBSET Workers]
    /\ pc \in [Workers -> {"idle", "next", "sending"}]
    /\ kind \in [Workers -> {"release", "discard"}]
    /\ todo \in [Workers -> SUBSET Rows]
    /\ cur \in [Workers -> Rows \cup {None}]
    /\ left \in [Workers -> SUBSET Routes]
    /\ sendOk \in [Workers -> BOOLEAN]
    /\ requiredOk \in [Workers -> BOOLEAN]
    /\ staged \in [Workers -> SUBSET Rows]
    /\ stagedCp \in [Workers -> 0..MaxPosition]
    /\ aborted \in [Workers -> BOOLEAN]
    /\ accepted \subseteq Rows \X Routes
    /\ \A w \in Workers : pc[w] = "sending" => cur[w] \in Rows

Init ==
    /\ status = [i \in Rows |-> "quarantined"]
    /\ checkpoint = 0
    /\ rowLock = [i \in Rows |-> {}]
    /\ pc = [w \in Workers |-> "idle"]
    /\ kind = [w \in Workers |-> "release"]
    /\ todo = [w \in Workers |-> {}]
    /\ cur = [w \in Workers |-> None]
    /\ left = [w \in Workers |-> {}]
    /\ sendOk = [w \in Workers |-> FALSE]
    /\ requiredOk = [w \in Workers |-> TRUE]
    /\ staged = [w \in Workers |-> {}]
    /\ stagedCp = [w \in Workers |-> 0]
    /\ aborted = [w \in Workers |-> FALSE]
    /\ accepted = {}

\* The transaction and the request end: all row locks go.
End(w) ==
    /\ rowLock' = [i \in Rows |-> rowLock[i] \ {w}]
    /\ pc' = [pc EXCEPT ![w] = "idle"]
    /\ kind' = [kind EXCEPT ![w] = "release"]
    /\ todo' = [todo EXCEPT ![w] = {}]
    /\ cur' = [cur EXCEPT ![w] = None]
    /\ left' = [left EXCEPT ![w] = {}]
    /\ sendOk' = [sendOk EXCEPT ![w] = FALSE]
    /\ requiredOk' = [requiredOk EXCEPT ![w] = TRUE]
    /\ staged' = [staged EXCEPT ![w] = {}]
    /\ stagedCp' = [stagedCp EXCEPT ![w] = 0]
    /\ aborted' = [aborted EXCEPT ![w] = FALSE]

\* One row is dealt with, without a delivery.
Skip(w, i) ==
    /\ todo' = [todo EXCEPT ![w] = @ \ {i}]
    /\ UNCHANGED <<pc, kind, cur, left, sendOk, requiredOk>>

-----------------------------------------------------------------------------
(* A request and its rows *)

\* A release or a discard of some rows, in any order.
Start(w) ==
    /\ pc[w] = "idle"
    /\ \E k \in {"release", "discard"}, S \in SUBSET Rows \ {{}} :
         /\ kind' = [kind EXCEPT ![w] = k]
         /\ todo' = [todo EXCEPT ![w] = S]
    /\ pc' = [pc EXCEPT ![w] = "next"]
    /\ UNCHANGED <<database, rowLock, cur, left, sendOk, requiredOk, txn, accepted>>

\* The request is about to lock row i.
AtRow(w, i) == pc[w] = "next" /\ ~aborted[w] /\ i \in todo[w]

Unlocked(w, i) == rowLock[i] \subseteq {w}

\* Mutant: the lock is taken for the decision only.
LockNotKept(w, i) == UNCHANGED rowLock

TakeLock(w, i) == rowLock' = [rowLock EXCEPT ![i] = {w}]

\* The row is settled already: an error for this row; its lock stays.
Refuse(w, i) ==
    /\ AtRow(w, i) /\ Unlocked(w, i)
    /\ status[i] # "quarantined"
    /\ TakeLock(w, i)
    /\ Skip(w, i)
    /\ UNCHANGED <<database, txn, accepted>>

DiscardRow(w, i) ==
    /\ AtRow(w, i) /\ Unlocked(w, i)
    /\ kind[w] = "discard" /\ status[i] = "quarantined"
    /\ TakeLock(w, i)
    /\ staged' = [staged EXCEPT ![w] = @ \cup {i}]
    /\ Skip(w, i)
    /\ UNCHANGED <<database, stagedCp, aborted, accepted>>

\* The stream's routes are loaded; those that are off are passed over.
LoadRow(w, i) ==
    /\ AtRow(w, i) /\ Unlocked(w, i)
    /\ kind[w] = "release" /\ status[i] = "quarantined"
    /\ TakeLock(w, i)
    /\ todo' = [todo EXCEPT ![w] = @ \ {i}]
    /\ left' = [left EXCEPT ![w] = RoutesOf[i] \ Off]
    /\ cur' = [cur EXCEPT ![w] = i]
    /\ pc' = [pc EXCEPT ![w] = "sending"]
    /\ UNCHANGED <<database, kind, sendOk, requiredOk, txn, accepted>>

\* Mutant: the request waits for the row.
BusyWaits(w, i) == FALSE /\ UNCHANGED vars

\* FOR UPDATE NOWAIT fails: an error for this row, and the database aborts the
\* transaction.
RowBusy(w, i) ==
    /\ AtRow(w, i) /\ ~Unlocked(w, i)
    /\ aborted' = [aborted EXCEPT ![w] = TRUE]
    /\ Skip(w, i)
    /\ UNCHANGED <<database, rowLock, staged, stagedCp, accepted>>

\* The next statement of a bulk request in an aborted transaction raises.
Break(w) ==
    /\ pc[w] = "next" /\ aborted[w] /\ todo[w] # {}
    /\ End(w)
    /\ UNCHANGED <<database, accepted>>

-----------------------------------------------------------------------------
(* A release's deliveries *)

\* Mutant: a route that fails is never required.
NeverRequired(r) == FALSE

IsRequired(r) == r \in Required

SendSucceeds(w, r) ==
    /\ pc[w] = "sending" /\ r \in left[w]
    /\ left' = [left EXCEPT ![w] = @ \ {r}]
    /\ sendOk' = [sendOk EXCEPT ![w] = TRUE]
    /\ accepted' = accepted \cup {<<cur[w], r>>}
    /\ UNCHANGED <<database, rowLock, pc, kind, todo, cur, requiredOk, txn>>

\* The sender raises, whether or not the destination took the batch.
SendFails(w, r) ==
    /\ pc[w] = "sending" /\ r \in left[w]
    /\ left' = [left EXCEPT ![w] = @ \ {r}]
    /\ requiredOk' = [requiredOk EXCEPT ![w] = @ /\ ~IsRequired(r)]
    /\ \/ accepted' = accepted \cup {<<cur[w], r>>}
       \/ accepted' = accepted
    /\ UNCHANGED <<database, rowLock, pc, kind, todo, cur, sendOk, txn>>

\* Mutant: a release counts as delivered unless a required route failed.
DeliveredIfNoneFailed(w) == requiredOk[w]

\* Some send succeeded and every failed one was absorbed.
Delivered(w) == sendOk[w] /\ requiredOk[w]

\* The row's delivery is over.
NextRow(w) ==
    /\ pc' = [pc EXCEPT ![w] = "next"]
    /\ cur' = [cur EXCEPT ![w] = None]
    /\ sendOk' = [sendOk EXCEPT ![w] = FALSE]
    /\ requiredOk' = [requiredOk EXCEPT ![w] = TRUE]
    /\ UNCHANGED <<rowLock, kind, todo, left>>

\* Mutant: the checkpoint is the event after the row's last one.
CheckpointPastRow(w) ==
    /\ stagedCp' = [stagedCp EXCEPT ![w] = Position[cur[w]] + 1]
    /\ UNCHANGED checkpoint

\* Mutant: the checkpoint is written at once.
CheckpointAtOnce(w) == checkpoint' = Position[cur[w]] /\ UNCHANGED stagedCp

StageCheckpoint(w) ==
    /\ stagedCp' = [stagedCp EXCEPT ![w] = Position[cur[w]]]
    /\ UNCHANGED checkpoint

\* Checkpoint and status are written, in the transaction.
ReleaseRow(w) ==
    /\ pc[w] = "sending" /\ left[w] = {}
    /\ Delivered(w)
    /\ staged' = [staged EXCEPT ![w] = @ \cup {cur[w]}]
    /\ StageCheckpoint(w)
    /\ NextRow(w)
    /\ UNCHANGED <<status, aborted, accepted>>

\* No route was on, the delivery failed, or the checkpoint could not be
\* written: the row stays as it is.
ReleaseFails(w) ==
    /\ pc[w] = "sending" /\ left[w] = {}
    /\ NextRow(w)
    /\ UNCHANGED <<database, txn, accepted>>

\* Every row was dealt with: the request commits.  The commit of an aborted
\* transaction is a rollback that raises nothing.
Commit(w) ==
    /\ pc[w] = "next" /\ todo[w] = {}
    /\ status' = [i \in Rows |->
          IF i \in staged[w] /\ ~aborted[w]
            THEN (IF kind[w] = "release" THEN "released" ELSE "discarded")
            ELSE status[i]]
    /\ checkpoint' = IF stagedCp[w] # 0 /\ ~aborted[w] THEN stagedCp[w] ELSE checkpoint
    /\ End(w)
    /\ UNCHANGED accepted

-----------------------------------------------------------------------------
\* A run of the stream commits its own checkpoint (StreamRunner).
RunCommits ==
    /\ checkpoint' \in (checkpoint + 1)..MaxPosition
    /\ UNCHANGED <<status, rowLock, request, txn, accepted>>

\* The process dies, the commit fails, or an exception leaves the handler (a
\* disabled stream cannot be loaded): everything is rolled back.
Crash(w) ==
    /\ pc[w] # "idle"
    /\ End(w)
    /\ UNCHANGED <<database, accepted>>

Step(w) ==
    \/ \E i \in Rows : Refuse(w, i) \/ DiscardRow(w, i) \/ LoadRow(w, i) \/ RowBusy(w, i)
    \/ \E r \in Routes : SendSucceeds(w, r) \/ SendFails(w, r)
    \/ ReleaseRow(w) \/ ReleaseFails(w) \/ Break(w) \/ Commit(w)

Next ==
    \/ \E w \in Workers : Start(w) \/ Step(w) \/ Crash(w)
    \/ RunCommits

Spec == Init /\ [][Next]_vars

\* A request that was started goes on: it waits for no lock.
FairSpec == Spec /\ \A w \in Workers : WF_vars(Step(w))

-----------------------------------------------------------------------------
(* Properties *)

\* A released batch was accepted by some route, and every required route of
\* the row that is on accepted it
\* (deliver_protected_events_to_routes 54-116, execute_quarantine_release 318).
ReleasedReachesRequired ==
    \A i \in Rows : status[i] = "released" =>
        /\ \E r \in RoutesOf[i] : <<i, r>> \in accepted
        /\ \A r \in (RoutesOf[i] \cap Required) \ Off : <<i, r>> \in accepted

\* A batch is sent only while its committed status is "quarantined": the row
\* lock is kept from the check of the status to the end of the transaction, so
\* no discard or second release comes in between (lines 279-402).
SettledIsNotSent ==
    [][\A i \in Rows, r \in Routes :
         <<i, r>> \in accepted' \ accepted => status[i] = "quarantined"]_vars

\* The checkpoint moves back only together with the release of the row it moves
\* to: what a release wrote goes with its transaction (lines 343-396).
BackOnlyWithRelease ==
    [][checkpoint' < checkpoint =>
         \E i \in Rows : /\ status[i] = "quarantined" /\ status'[i] = "released"
                         /\ checkpoint' = Position[i]]_vars

\* Requests for several rows in any order never wait for each other: NOWAIT
\* turns every conflict into an answer (_lock_quarantine_row).
EveryRequestEnds == \A w \in Workers : pc[w] # "idle" ~> pc[w] = "idle"

\* A row as a held batch.
Held(i) == INSTANCE HeldBatch WITH
    state <- IF status[i] = "released" THEN "delivered"
             ELSE IF status[i] = "discarded" THEN "discarded" ELSE "open",
    accepted <- \E r \in Routes : <<i, r>> \in accepted

\* Each row keeps what is promised of a held batch: it is settled once, and as
\* released only after a destination accepted it, across rollbacks and bulk
\* requests (execute_quarantine_release, bulk_release_quarantine_events).
ImplementsHeldBatch ==
    /\ \A i \in Rows : Held(i)!Init
    /\ [][\A i \in Rows : Held(i)!Next \/ UNCHANGED Held(i)!vars]_vars

=============================================================================
