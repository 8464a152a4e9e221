---------------------------- MODULE ReplayService ----------------------------
(***************************************************************************)
(* One row of stream_replay_events (a batch whose delivery failed) and the *)
(* requests that replay or discard it: app/replay/service.py and its       *)
(* callers.  A replay locks the row without waiting, commits a durable     *)
(* claim with an idempotency key, sends with no lock held, locks the row   *)
(* again and settles it.  Requests run in the API worker processes, one at *)
(* a time in each; a process may die at any point.  A claim older than     *)
(* REPLAY_CLAIM_STALE_AFTER_SECONDS may be taken over.                     *)
(***************************************************************************)
EXTENDS Integers, FiniteSets

CONSTANTS
    Workers,        \* API worker processes
    Prefetching,    \* those that serve the governance page, whose handler
                    \* loads the row before it is locked
    MaxKeys         \* bound: idempotency keys issued in a behaviour

ASSUME ReplayAssumption ==
    /\ Prefetching \subseteq Workers
    /\ MaxKeys \in Nat \ {0}

VARIABLES
    status,         \* status column
    attempt,        \* delivery_attempt in delivery_context_json
    fresh,          \* the attempt's claimed_at is within the limit
    retryCount,     \* retry_count column
    rowLock,        \* workers holding the row lock (none or one)
    pc,             \* where each worker's request is
    view,           \* the row as the worker's session holds it
    mine,           \* the attempt the worker claimed
    got,            \* the destination accepted this worker's send
    sendOk,         \* how this worker's send returned
    issued,         \* keys issued so far
    accepted,       \* keys under which the destination accepted the batch
    repeated,       \* keys under which it accepted the batch again
    overrun,        \* some claim ran out while its send was under way
    misled,         \* some claim was decided on an outdated copy of the row
    faulty          \* processes still die now and then

database == <<status, attempt, fresh, retryCount>>
request == <<pc, view, mine, got, sendOk>>
history == <<issued, accepted, repeated, overrun, misled>>
vars == <<database, rowLock, request, history, faulty>>

Statuses == {"pending", "replaying", "replayed", "failed", "discarded"}
Terminal == {"replayed", "discarded"}
Attempts == [key : 0..MaxKeys, uncertain : BOOLEAN]
Rows == [status : Statuses, key : 0..MaxKeys, fresh : BOOLEAN]
NoAttempt == [key |-> 0, uncertain |-> FALSE]
NoView == [status |-> "pending", key |-> 0, fresh |-> FALSE]
InFlight == {"sending", "sent", "settling"}

\* The row, the requests and the keys keep their shape: in particular the status
\* column only ever holds one of the five replay statuses, and a key is accepted
\* again only after it was accepted.
TypeOK ==
    /\ status \in Statuses
    /\ attempt \in Attempts
    /\ fresh \in BOOLEAN
    /\ retryCount \in Nat
    /\ rowLock \subseteq Workers
    /\ pc \in [Workers -> {"idle", "loaded", "deciding", "discarding"} \cup InFlight]
    /\ view \in [Workers -> Rows]
    /\ mine \in [Workers -> Attempts]
    /\ got \in [Workers -> BOOLEAN]
    /\ sendOk \in [Workers -> BOOLEAN]
    /\ issued \in 0..MaxKeys
    /\ accepted \subseteq 0..MaxKeys
    /\ repeated \subseteq accepted
    /\ overrun \in BOOLEAN
    /\ misled \in BOOLEAN
    /\ faulty \in BOOLEAN

Init ==
    /\ status = "pending"
    /\ attempt = NoAttempt
    /\ fresh = FALSE
    /\ retryCount = 0
    /\ rowLock = {}
    /\ pc = [w \in Workers |-> "idle"]
    /\ view = [w \in Workers |-> NoView]
    /\ mine = [w \in Workers |-> NoAttempt]
    /\ got = [w \in Workers |-> FALSE]
    /\ sendOk = [w \in Workers |-> FALSE]
    /\ issued = 0
    /\ accepted = {}
    /\ repeated = {}
    /\ overrun = FALSE
    /\ misled = FALSE
    /\ faulty = TRUE

Row == [status |-> status, key |-> attempt.key, fresh |-> fresh]

Goto(w, step) == pc' = [pc EXCEPT ![w] = step]

\* The request is over: its session is closed and what it knew is gone.
Finish(w) ==
    /\ pc' = [pc EXCEPT ![w] = "idle"]
    /\ view' = [view EXCEPT ![w] = NoView]
    /\ mine' = [mine EXCEPT ![w] = NoAttempt]
    /\ got' = [got EXCEPT ![w] = FALSE]
    /\ sendOk' = [sendOk EXCEPT ![w] = FALSE]

-----------------------------------------------------------------------------
(* Replay: the claim *)

\* A request to replay the row arrives.  The governance pages load the row
\* first, to remember its retry count or to find a pending one.
Start(w) ==
    /\ pc[w] = "idle"
    /\ view' = IF w \in Prefetching THEN [view EXCEPT ![w] = Row] ELSE view
    /\ Goto(w, "loaded")
    /\ UNCHANGED <<database, rowLock, mine, got, sendOk, history, faulty>>

\* SELECT ... FOR UPDATE NOWAIT.  A row the session already holds keeps the
\* attributes it was loaded with.
Lock(w) ==
    /\ pc[w] = "loaded"
    /\ rowLock = {}
    /\ rowLock' = {w}
    /\ view' = IF w \in Prefetching THEN view ELSE [view EXCEPT ![w] = Row]
    /\ Goto(w, "deciding")
    /\ UNCHANGED <<database, mine, got, sendOk, history, faulty>>

\* The row is locked: ReplayInProgressError.
LockBusy(w) ==
    /\ pc[w] = "loaded"
    /\ rowLock # {}
    /\ Finish(w)
    /\ UNCHANGED <<database, rowLock, history, faulty>>

\* Mutant: a claim keeps nobody out.
NeverFresh(row) == FALSE

\* Mutant: a claim never runs out.
AlwaysFresh(row) == TRUE

ClaimIsFresh(row) == row.fresh

MayClaim(row) ==
    \/ row.status \in {"pending", "failed"}
    \/ row.status = "replaying" /\ ~ClaimIsFresh(row)

\* The row is settled or freshly claimed; or its payload, destination or
\* rate limit forbids the replay, which no state here decides.
Refuse(w) ==
    /\ pc[w] = "deciding"
    /\ rowLock' = {}
    /\ Finish(w)
    /\ UNCHANGED <<database, history, faulty>>

\* Mutant: a takeover gets a key of its own.
KeyOfTakeoverIsNew(row) == issued + 1

\* A stale claim's key is used again; any other claim gets a new one.
KeyFor(row) == IF row.status = "replaying" THEN row.key ELSE issued + 1

\* Mutant: a takeover does not say that it is one.
NeverUncertain(row) == FALSE

Uncertain(row) == row.status = "replaying"

\* The claim is committed, which releases the lock and expires the session's
\* row.  The UPDATE leaves the status column out when the session's value
\* for it is "replaying" already.
Claim(w) ==
    /\ pc[w] = "deciding"
    /\ MayClaim(view[w])
    /\ KeyFor(view[w]) <= MaxKeys
    /\ issued' = IF KeyFor(view[w]) > issued THEN issued + 1 ELSE issued
    /\ mine' = [mine EXCEPT ![w] =
                    [key |-> KeyFor(view[w]), uncertain |-> Uncertain(view[w])]]
    /\ attempt' = mine'[w]
    /\ status' = IF view[w].status = "replaying" THEN status ELSE "replaying"
    /\ fresh' = TRUE
    /\ misled' = (misled \/ view[w] # Row)
    /\ rowLock' = {}
    /\ view' = [view EXCEPT ![w] = NoView]
    /\ Goto(w, "sending")
    /\ UNCHANGED <<retryCount, got, sendOk, accepted, repeated, overrun, faulty>>

-----------------------------------------------------------------------------
(* Replay: the delivery, with no lock held *)

\* The destination takes the batch; the sender may never hear of it.
Accept(w) ==
    /\ pc[w] = "sending"
    /\ ~got[w]
    /\ got' = [got EXCEPT ![w] = TRUE]
    /\ accepted' = accepted \cup {mine[w].key}
    /\ repeated' = repeated \cup ({mine[w].key} \cap accepted)
    /\ UNCHANGED <<database, rowLock, pc, view, mine, sendOk, issued, overrun,
                   misled, faulty>>

SendSucceeds(w) ==
    /\ pc[w] = "sending"
    /\ got[w]
    /\ sendOk' = [sendOk EXCEPT ![w] = TRUE]
    /\ Goto(w, "sent")
    /\ UNCHANGED <<database, rowLock, view, mine, got, history, faulty>>

\* The sender raises, whether or not the destination took the batch.
SendFails(w) ==
    /\ pc[w] = "sending"
    /\ sendOk' = [sendOk EXCEPT ![w] = FALSE]
    /\ Goto(w, "sent")
    /\ UNCHANGED <<database, rowLock, view, mine, got, history, faulty>>

-----------------------------------------------------------------------------
(* Replay: the settlement *)

Relock(w) ==
    /\ pc[w] = "sent"
    /\ rowLock = {}
    /\ rowLock' = {w}
    /\ Goto(w, "settling")
    /\ UNCHANGED <<database, view, mine, got, sendOk, history, faulty>>

\* Another request holds the row: this one ends and leaves it "replaying".
RelockBusy(w) ==
    /\ pc[w] = "sent"
    /\ rowLock # {}
    /\ Finish(w)
    /\ UNCHANGED <<database, rowLock, history, faulty>>

\* Mutant: the settlement writes over a row settled meanwhile.
SettlesAnything == TRUE

\* Discarded or replayed during the delivery: an error, nothing written.
Settles == status \notin Terminal

\* Mutant: the log's word for a failure goes into the status column.
OutcomeOfLog(w) == IF sendOk[w] THEN "replayed" ELSE "FAILED"

\* Mutant: a send that raised counts as a delivery.
OutcomeIgnoresError(w) == "replayed"

Outcome(w) == IF sendOk[w] THEN "replayed" ELSE "failed"

Settle(w) ==
    /\ pc[w] = "settling"
    /\ IF Settles
         THEN /\ status' = Outcome(w)
              /\ attempt' = [key |-> mine[w].key,
                             uncertain |-> mine[w].uncertain \/ ~sendOk[w]]
              /\ retryCount' = retryCount + 1
         ELSE UNCHANGED <<status, attempt, retryCount>>
    /\ rowLock' = {}
    /\ Finish(w)
    /\ UNCHANGED <<fresh, history, faulty>>

-----------------------------------------------------------------------------
(* Discard, time and faults *)

LockForDiscard(w) ==
    /\ pc[w] = "idle"
    /\ rowLock = {}
    /\ rowLock' = {w}
    /\ Goto(w, "discarding")
    /\ UNCHANGED <<database, view, mine, got, sendOk, history, faulty>>

Discard(w) ==
    /\ pc[w] = "discarding"
    /\ status' = IF status \in Terminal THEN status ELSE "discarded"
    /\ rowLock' = {}
    /\ Finish(w)
    /\ UNCHANGED <<attempt, fresh, retryCount, history, faulty>>

\* The limit passes since the last claim.
Age ==
    /\ fresh
    /\ fresh' = FALSE
    /\ view' = [w \in Workers |-> [status |-> view[w].status, key |-> view[w].key,
                                   fresh |-> FALSE]]
    /\ overrun' = (overrun \/ \E w \in Workers : pc[w] \in InFlight)
    /\ UNCHANGED <<status, attempt, retryCount, rowLock, pc, mine, got, sendOk,
                   issued, accepted, repeated, misled, faulty>>

\* The process dies (or the commit fails): the database releases its locks.
Crash(w) ==
    /\ faulty
    /\ pc[w] # "idle"
    /\ rowLock' = rowLock \ {w}
    /\ Finish(w)
    /\ UNCHANGED <<database, history, faulty>>

\* From here on no process dies: the premise of the liveness property.
Calm ==
    /\ faulty
    /\ faulty' = FALSE
    /\ UNCHANGED <<database, rowLock, request, history>>

Request(w) == Lock(w) \/ LockBusy(w) \/ Refuse(w) \/ Claim(w)

Delivery(w) ==
    \/ Accept(w) \/ SendSucceeds(w) \/ SendFails(w)
    \/ Relock(w) \/ RelockBusy(w) \/ Settle(w)

Next ==
    \/ \E w \in Workers :
        \/ Start(w) \/ Request(w) \/ Delivery(w)
        \/ LockForDiscard(w) \/ Discard(w) \/ Crash(w)
    \/ Age
    \/ Calm

Spec == Init /\ [][Next]_vars

(***************************************************************************)
(* Fairness.  Time passes, operators keep asking for the replay, a request *)
(* that was started is carried through, its payload, destination and rate  *)
(* limit do not refuse it for ever, and processes do not die for ever.     *)
(***************************************************************************)
Fairness ==
    /\ WF_vars(Age)
    /\ WF_vars(Calm)
    /\ WF_vars(\E w \in Workers : Start(w))
    /\ \A w \in Workers :
        /\ WF_vars(Request(w) \/ Delivery(w) \/ Discard(w))
        /\ SF_vars(Claim(w))

FairSpec == Spec /\ Fairness

-----------------------------------------------------------------------------
(* Properties *)

\* However requests, takeovers and late answers interleave, the destination
\* sees at most one idempotency key more than retry_count says were settled,
\* and no more than that once the row is replayed: a takeover after a crash
\* uses the interrupted attempt's key (execute_replay_event 398-406, 510, 563).
KeysBoundedByRetries ==
    ~misled =>
        Cardinality(accepted) <= retryCount + (IF status = "replayed" THEN 0 ELSE 1)

\* Unless a send outlasts its claim, two requests are never between claim and
\* settlement at the same time: the fresh claim keeps others out while no
\* lock is held (execute_replay_event 399-400).
OneSender ==
    ~overrun /\ ~misled => \A v, w \in Workers :
                    pc[v] \in InFlight /\ pc[w] \in InFlight => v = w

\* Unless a send outlasts its claim, a row whose current key the destination
\* accepted twice says prior_delivery_uncertain (module contract, line 8).
DuplicateIsFlagged ==
    ~overrun /\ ~misled /\ attempt.key \in repeated => attempt.uncertain

\* A row is replayed only when the destination accepted the batch, whatever
\* sends were reported as failed, repeated or overtaken (lines 508, 562).
ReplayedMeansAccepted == status = "replayed" => accepted # {}

\* A settled row is never touched again, unless a handler decided on a copy of
\* the row that it had loaded before it had the lock: "replayed events cannot
\* be replayed again", "discarded replay events cannot be replayed" (380-389).
TerminalIsFinal ==
    [][~misled' /\ status \in Terminal => status' = status]_vars

\* When only one process is left that touches the row, and operators keep
\* asking, the row is settled, whatever claims crashes and lock conflicts
\* left behind: a claim runs out and is taken over (lines 399-404, 491).  The
\* bound on keys ends a behaviour whose sends all failed.
UndisturbedIsSettled ==
    \A w \in Workers :
        <>[](\A v \in Workers \ {w} : pc[v] = "idle")
            => <>(\/ status \in Terminal
                  \/ status = "failed" /\ issued = MaxKeys)

\* The row as a held batch.
Held == INSTANCE HeldBatch WITH
    state <- IF status = "replayed" THEN "delivered"
             ELSE IF status = "discarded" THEN "discarded" ELSE "open",
    accepted <- accepted # {}

\* Without handlers that load the row before they lock it, the claims, sends and
\* settlements of execute_replay_event keep what is promised of a held batch.
ImplementsHeldBatch == Held!Spec

=============================================================================
