------------------------- MODULE ReplayServiceProofs -------------------------
(***************************************************************************)
(* Proofs about ReplayService, for every set of worker processes.  The     *)
(* properties hold until a handler has decided on a copy of the row that   *)
(* it loaded before it locked the row.                                     *)
(***************************************************************************)
EXTENDS ReplayService, FiniteSetTheorems, TLAPS

Holding == {"deciding", "settling", "discarding"}

\* Every step keeps the types, whatever the handlers prefetch.
LEMMA TypesKept == TypeOK /\ [Next]_vars => TypeOK'
<1> SUFFICES ASSUME TypeOK, [Next]_vars PROVE TypeOK'
  OBVIOUS
<1> USE ReplayAssumption
<1> USE DEF TypeOK, InFlight, Attempts, Rows, Statuses, NoAttempt, NoView, Goto,
        Finish, database, request, history, vars
<1>0. CASE UNCHANGED vars
  BY <1>0
<1>1. ASSUME NEW w \in Workers, Start(w) PROVE TypeOK'
  BY <1>1 DEF Start, Row
<1>2. ASSUME NEW w \in Workers, Lock(w) PROVE TypeOK'
  BY <1>2 DEF Lock, Row
<1>3. ASSUME NEW w \in Workers, LockBusy(w) PROVE TypeOK'
  BY <1>3 DEF LockBusy
<1>4. ASSUME NEW w \in Workers, Refuse(w) PROVE TypeOK'
  BY <1>4 DEF Refuse
<1>5. ASSUME NEW w \in Workers, Claim(w) PROVE TypeOK'
  <2>1. KeyFor(view[w]) \in 0..MaxKeys /\ issued' \in 0..MaxKeys
    BY <1>5 DEF Claim, KeyFor
  <2>2. Uncertain(view[w]) \in BOOLEAN
    BY DEF Uncertain
  <2>3. mine' \in [Workers -> Attempts] /\ attempt' \in Attempts
    BY <1>5, <2>1, <2>2 DEF Claim
  <2> QED
    BY <1>5, <2>1, <2>3 DEF Claim
<1>6. ASSUME NEW w \in Workers, Accept(w) PROVE TypeOK'
  <2>1. mine[w].key \in 0..MaxKeys
    OBVIOUS
  <2> QED
    BY <1>6, <2>1 DEF Accept
<1>7. ASSUME NEW w \in Workers, SendSucceeds(w) PROVE TypeOK'
  BY <1>7 DEF SendSucceeds
<1>8. ASSUME NEW w \in Workers, SendFails(w) PROVE TypeOK'
  BY <1>8 DEF SendFails
<1>9. ASSUME NEW w \in Workers, Relock(w) PROVE TypeOK'
  BY <1>9 DEF Relock
<1>10. ASSUME NEW w \in Workers, RelockBusy(w) PROVE TypeOK'
  BY <1>10 DEF RelockBusy
<1>11. ASSUME NEW w \in Workers, Settle(w) PROVE TypeOK'
  <2>1. (mine[w].uncertain \/ ~sendOk[w]) \in BOOLEAN /\ mine[w].key \in 0..MaxKeys
    OBVIOUS
  <2>2. [key |-> mine[w].key, uncertain |-> mine[w].uncertain \/ ~sendOk[w]] \in Attempts
    BY <2>1
  <2> DEFINE settled == [key |-> mine[w].key, uncertain |-> mine[w].uncertain \/ ~sendOk[w]]
  <2>3. status' \in Statuses /\ retryCount' \in Nat /\ attempt' \in {attempt, settled}
    BY <1>11 DEF Settle, Outcome
  <2> HIDE DEF settled
  <2>4. attempt' \in Attempts
    BY <2>2, <2>3 DEF settled
  <2> QED
    BY <1>11, <2>3, <2>4 DEF Settle
<1>12. ASSUME NEW w \in Workers, LockForDiscard(w) PROVE TypeOK'
  BY <1>12 DEF LockForDiscard
<1>13. ASSUME NEW w \in Workers, Discard(w) PROVE TypeOK'
  BY <1>13 DEF Discard
<1>14. ASSUME NEW w \in Workers, Crash(w) PROVE TypeOK'
  BY <1>14 DEF Crash
<1>15. CASE Age
  BY <1>15 DEF Age
<1>16. CASE Calm
  BY <1>16 DEF Calm
<1> QED
  BY <1>0, <1>1, <1>2, <1>3, <1>4, <1>5, <1>6, <1>7, <1>8, <1>9, <1>10, <1>11,
     <1>12, <1>13, <1>14, <1>15, <1>16 DEF Next, Request, Delivery

LEMMA TypesStart == Init => TypeOK
<1> SUFFICES ASSUME Init PROVE TypeOK
  OBVIOUS
<1> USE ReplayAssumption DEF Init
<1>1. attempt \in Attempts /\ mine \in [Workers -> Attempts]
  BY DEF Attempts, NoAttempt
<1>2. view \in [Workers -> Rows]
  BY DEF Rows, NoView, Statuses
<1>3. /\ pc \in [Workers -> {"idle", "loaded", "deciding", "discarding"} \cup InFlight]
      /\ got \in [Workers -> BOOLEAN] /\ sendOk \in [Workers -> BOOLEAN]
  OBVIOUS
<1>4. /\ status \in Statuses /\ retryCount \in Nat /\ issued \in 0..MaxKeys
      /\ rowLock \subseteq Workers /\ accepted \subseteq 0..MaxKeys
      /\ repeated \subseteq accepted
  BY DEF Statuses
<1>5. fresh \in BOOLEAN /\ overrun \in BOOLEAN /\ faulty \in BOOLEAN
  OBVIOUS
<1> QED
  BY <1>1, <1>2, <1>3, <1>4, <1>5 DEF TypeOK

\* Every reachable state is well-typed.
THEOREM ReplayTypes == Spec => []TypeOK
  BY TypesStart, TypesKept, PTL DEF Spec

-----------------------------------------------------------------------------
(* The row lock *)

\* A request that decides, settles or discards holds the row lock.
LockInv == \A w \in Workers : pc[w] \in Holding => rowLock = {w}

LEMMA LockKept ==
  ASSUME TypeOK, LockInv, [Next]_vars
  PROVE  LockInv'
<1> USE DEF LockInv, Holding, TypeOK, InFlight, Attempts, Rows, Row, Goto,
        Finish, database, request, history, vars
<1>0. CASE UNCHANGED vars
  BY <1>0
<1>1. ASSUME NEW w \in Workers, Start(w) PROVE LockInv'
  BY <1>1 DEF Start
<1>2. ASSUME NEW w \in Workers, Lock(w) PROVE LockInv'
  BY <1>2 DEF Lock
<1>3. ASSUME NEW w \in Workers, LockBusy(w) PROVE LockInv'
  BY <1>3 DEF LockBusy
<1>4. ASSUME NEW w \in Workers, Refuse(w) PROVE LockInv'
  BY <1>4 DEF Refuse
<1>5. ASSUME NEW w \in Workers, Claim(w) PROVE LockInv'
  BY <1>5 DEF Claim
<1>6. ASSUME NEW w \in Workers, Accept(w) PROVE LockInv'
  BY <1>6 DEF Accept
<1>7. ASSUME NEW w \in Workers, SendSucceeds(w) PROVE LockInv'
  BY <1>7 DEF SendSucceeds
<1>8. ASSUME NEW w \in Workers, SendFails(w) PROVE LockInv'
  BY <1>8 DEF SendFails
<1>9. ASSUME NEW w \in Workers, Relock(w) PROVE LockInv'
  BY <1>9 DEF Relock
<1>10. ASSUME NEW w \in Workers, RelockBusy(w) PROVE LockInv'
  BY <1>10 DEF RelockBusy
<1>11. ASSUME NEW w \in Workers, Settle(w) PROVE LockInv'
  BY <1>11 DEF Settle, Settles, Outcome, Terminal
<1>12. ASSUME NEW w \in Workers, LockForDiscard(w) PROVE LockInv'
  BY <1>12 DEF LockForDiscard
<1>13. ASSUME NEW w \in Workers, Discard(w) PROVE LockInv'
  BY <1>13 DEF Discard, Terminal
<1>14. ASSUME NEW w \in Workers, Crash(w) PROVE LockInv'
  BY <1>14 DEF Crash
<1>15. CASE Age
  BY <1>15 DEF Age
<1>16. CASE Calm
  BY <1>16 DEF Calm
<1> QED
  BY <1>0, <1>1, <1>2, <1>3, <1>4, <1>5, <1>6, <1>7, <1>8, <1>9, <1>10, <1>11,
     <1>12, <1>13, <1>14, <1>15, <1>16 DEF Next, Request, Delivery

-----------------------------------------------------------------------------
(* Idempotency keys *)

\* Keys are issued one per settlement: a new one only for a row that is
\* pending or failed.
KeyInv == ~misled =>
    /\ accepted \subseteq 1..issued
    /\ attempt.key \in 0..issued
    /\ status = "replaying" => attempt.key # 0
    /\ \A w \in Workers :
        /\ mine[w].key \in 0..issued
        /\ pc[w] \in InFlight => mine[w].key # 0
    /\ issued <= retryCount + (IF status \in {"replaying", "discarded"} THEN 1 ELSE 0)

\* A claim is allowed on an open row, or on one whose claim has run out.
LEMMA MayClaimMeans ==
  ASSUME NEW row, MayClaim(row)
  PROVE  row.status \in {"pending", "failed"} \/ (row.status = "replaying" /\ ~row.fresh)
  BY DEF MayClaim, ClaimIsFresh

LEMMA KeysKept ==
  ASSUME TypeOK, LockInv, KeyInv, [Next]_vars
  PROVE  KeyInv'
<1> USE DEF LockInv, KeyInv, Holding, TypeOK, InFlight, Attempts, Rows, Row, Goto,
        Statuses, NoAttempt, Finish, database, request, history, vars
<1>0. CASE UNCHANGED vars
  BY <1>0
<1>1. ASSUME NEW w \in Workers, Start(w) PROVE KeyInv'
  BY <1>1 DEF Start
<1>2. ASSUME NEW w \in Workers, Lock(w) PROVE KeyInv'
  BY <1>2 DEF Lock
<1>3. ASSUME NEW w \in Workers, LockBusy(w) PROVE KeyInv'
  BY <1>3 DEF LockBusy
<1>4. ASSUME NEW w \in Workers, Refuse(w) PROVE KeyInv'
  BY <1>4 DEF Refuse
<1>5. ASSUME NEW w \in Workers, Claim(w) PROVE KeyInv'
  <2> SUFFICES ASSUME ~misled, view[w] = Row PROVE KeyInv'
    BY <1>5 DEF Claim
  <2>1. view[w].status = status /\ view[w].key = attempt.key
    OBVIOUS
  <2>2. status \in {"pending", "failed", "replaying"} /\ status' = "replaying"
    BY <1>5, <2>1, MayClaimMeans DEF Claim
  <2>3. /\ KeyFor(view[w]) = IF status = "replaying" THEN attempt.key ELSE issued + 1
        /\ issued' = IF status = "replaying" THEN issued ELSE issued + 1
    BY <1>5, <2>1 DEF Claim, KeyFor
  <2>4. /\ attempt'.key = KeyFor(view[w])
        /\ \A v \in Workers : mine'[v].key = IF v = w THEN KeyFor(view[w]) ELSE mine[v].key
    BY <1>5 DEF Claim
  <2>5. /\ accepted' = accepted /\ retryCount' = retryCount
        /\ pc' = [pc EXCEPT ![w] = "sending"]
    BY <1>5 DEF Claim
  <2>6. KeyFor(view[w]) \in 1..issued'
    BY <2>3
  <2>7. issued' <= retryCount + 1 /\ issued <= issued' /\ issued' \in Nat
    BY <2>2, <2>3
  <2> QED
    BY <2>2, <2>4, <2>5, <2>6, <2>7
<1>6. ASSUME NEW w \in Workers, Accept(w) PROVE KeyInv'
  <2> SUFFICES ASSUME ~misled PROVE KeyInv'
    BY <1>6 DEF Accept
  <2>1. mine[w].key \in 1..issued
    BY <1>6 DEF Accept
  <2> QED
    BY <1>6, <2>1 DEF Accept
<1>7. ASSUME NEW w \in Workers, SendSucceeds(w) PROVE KeyInv'
  BY <1>7 DEF SendSucceeds
<1>8. ASSUME NEW w \in Workers, SendFails(w) PROVE KeyInv'
  BY <1>8 DEF SendFails
<1>9. ASSUME NEW w \in Workers, Relock(w) PROVE KeyInv'
  BY <1>9 DEF Relock
<1>10. ASSUME NEW w \in Workers, RelockBusy(w) PROVE KeyInv'
  BY <1>10 DEF RelockBusy
<1>11. ASSUME NEW w \in Workers, Settle(w) PROVE KeyInv'
  BY <1>11 DEF Settle, Settles, Outcome, Terminal
<1>12. ASSUME NEW w \in Workers, LockForDiscard(w) PROVE KeyInv'
  BY <1>12 DEF LockForDiscard
<1>13. ASSUME NEW w \in Workers, Discard(w) PROVE KeyInv'
  BY <1>13 DEF Discard, Terminal
<1>14. ASSUME NEW w \in Workers, Crash(w) PROVE KeyInv'
  BY <1>14 DEF Crash
<1>15. CASE Age
  BY <1>15 DEF Age
<1>16. CASE Calm
  BY <1>16 DEF Calm
<1> QED
  BY <1>0, <1>1, <1>2, <1>3, <1>4, <1>5, <1>6, <1>7, <1>8, <1>9, <1>10, <1>11,
     <1>12, <1>13, <1>14, <1>15, <1>16 DEF Next, Request, Delivery

\* A key accepted is a key issued, so there are at most retry_count + 1.
LEMMA KeysImply == TypeOK /\ KeyInv => KeysBoundedByRetries
<1> SUFFICES ASSUME TypeOK, KeyInv, ~misled PROVE KeysBoundedByRetries
  BY DEF KeysBoundedByRetries
<1>1. issued \in Nat /\ retryCount \in Nat
  BY DEF TypeOK
<1>2. IsFiniteSet(1..issued) /\ Cardinality(1..issued) = issued
  BY <1>1, FS_Interval
<1>3. Cardinality(accepted) <= issued /\ Cardinality(accepted) \in Nat
  BY <1>2, FS_Subset, FS_CardinalityType DEF KeyInv
<1> QED
  BY <1>1, <1>3 DEF KeysBoundedByRetries, KeyInv

SafetyInv == TypeOK /\ LockInv /\ KeyInv

LEMMA SafetyStart == Init => LockInv /\ KeyInv
  BY DEF Init, LockInv, KeyInv, Holding, InFlight, NoAttempt

LEMMA SafetyHolds ==
  Spec => []SafetyInv
<1>1. Init => SafetyInv
  BY TypesStart, SafetyStart DEF SafetyInv
<1>2. SafetyInv /\ [Next]_vars => SafetyInv'
  BY TypesKept, LockKept, KeysKept DEF SafetyInv
<1> QED
  BY <1>1, <1>2, PTL DEF Spec

\* For any number of worker processes, takeovers and late answers, the
\* destination sees at most one idempotency key more than settled attempts
\* (execute_replay_event 398-406).
THEOREM KeysAreBounded ==
  Spec => []KeysBoundedByRetries
<1>1. SafetyInv => KeysBoundedByRetries
  BY KeysImply DEF SafetyInv
<1> QED
  BY <1>1, SafetyHolds, PTL

-----------------------------------------------------------------------------
(* One sender *)

\* Until a claim runs out during its send, the request that is sending is
\* the one whose attempt the row holds, and the claim is fresh.
SenderInv ==
    ~overrun /\ ~misled => \A w \in Workers : pc[w] \in InFlight =>
        /\ fresh
        /\ status \in {"replaying", "discarded"}
        /\ mine[w] = attempt
        /\ \A v \in Workers : pc[v] \in InFlight => v = w
        /\ ~got[w] /\ attempt.key \in accepted => attempt.uncertain

FlagInv == SenderInv /\ DuplicateIsFlagged

LEMMA SenderKept ==
  ASSUME SafetyInv, FlagInv, [Next]_vars
  PROVE  FlagInv'
<1> USE DEF SafetyInv, FlagInv, SenderInv, DuplicateIsFlagged, LockInv, KeyInv,
        Holding, TypeOK, InFlight, Attempts, Rows, Row, Goto, Statuses, NoAttempt,
        Finish, database, request, history, vars
<1>0. CASE UNCHANGED vars
  BY <1>0
<1>1. ASSUME NEW w \in Workers, Start(w) PROVE FlagInv'
  BY <1>1 DEF Start
<1>2. ASSUME NEW w \in Workers, Lock(w) PROVE FlagInv'
  BY <1>2 DEF Lock
<1>3. ASSUME NEW w \in Workers, LockBusy(w) PROVE FlagInv'
  BY <1>3 DEF LockBusy
<1>4. ASSUME NEW w \in Workers, Refuse(w) PROVE FlagInv'
  BY <1>4 DEF Refuse
<1>5. ASSUME NEW w \in Workers, Claim(w) PROVE FlagInv'
  <2> SUFFICES ASSUME ~overrun, ~misled, view[w] = Row PROVE FlagInv'
    BY <1>5 DEF Claim
  <2>1. view[w].status = status /\ view[w].key = attempt.key /\ view[w].fresh = fresh
    OBVIOUS
  <2>2. /\ status \in {"pending", "failed"} \/ (status = "replaying" /\ ~fresh)
        /\ status' = "replaying" /\ fresh'
    <3>1. /\ MayClaim(view[w]) /\ fresh' = TRUE
          /\ status' = IF view[w].status = "replaying" THEN status ELSE "replaying"
      BY <1>5 DEF Claim
    <3> QED
      BY <2>1, <3>1, MayClaimMeans
  <2>3. \A v \in Workers : pc[v] \notin InFlight
    BY <2>2
  <2>4. /\ attempt' = mine'[w]
        /\ mine'[w] = [key |-> KeyFor(view[w]), uncertain |-> Uncertain(view[w])]
    BY <1>5 DEF Claim
  <2>5. attempt'.key \in accepted => attempt'.uncertain
    <3>1. CASE status = "replaying"
      <4>1. Uncertain(view[w]) = TRUE
        BY <2>1, <3>1 DEF Uncertain
      <4> QED
        BY <2>4, <4>1
    <3>2. CASE status # "replaying"
      <4>1. attempt'.key = issued + 1
        BY <2>1, <2>4, <3>2 DEF KeyFor
      <4> QED
        BY <4>1
    <3> QED
      BY <3>1, <3>2
  <2>6. accepted' = accepted /\ repeated' = repeated
    BY <1>5 DEF Claim
  <2>7. \A v \in Workers : pc'[v] \in InFlight => v = w
    BY <1>5, <2>3 DEF Claim
  <2> QED
    BY <2>2, <2>4, <2>5, <2>6, <2>7
<1>6. ASSUME NEW w \in Workers, Accept(w) PROVE FlagInv'
  BY <1>6 DEF Accept
<1>7. ASSUME NEW w \in Workers, SendSucceeds(w) PROVE FlagInv'
  BY <1>7 DEF SendSucceeds
<1>8. ASSUME NEW w \in Workers, SendFails(w) PROVE FlagInv'
  BY <1>8 DEF SendFails
<1>9. ASSUME NEW w \in Workers, Relock(w) PROVE FlagInv'
  BY <1>9 DEF Relock
<1>10. ASSUME NEW w \in Workers, RelockBusy(w) PROVE FlagInv'
  BY <1>10 DEF RelockBusy
<1>11. ASSUME NEW w \in Workers, Settle(w) PROVE FlagInv'
  BY <1>11 DEF Settle, Settles, Outcome, Terminal
<1>12. ASSUME NEW w \in Workers, LockForDiscard(w) PROVE FlagInv'
  BY <1>12 DEF LockForDiscard
<1>13. ASSUME NEW w \in Workers, Discard(w) PROVE FlagInv'
  BY <1>13 DEF Discard, Terminal
<1>14. ASSUME NEW w \in Workers, Crash(w) PROVE FlagInv'
  BY <1>14 DEF Crash
<1>15. CASE Age
  BY <1>15 DEF Age
<1>16. CASE Calm
  BY <1>16 DEF Calm
<1> QED
  BY <1>0, <1>1, <1>2, <1>3, <1>4, <1>5, <1>6, <1>7, <1>8, <1>9, <1>10, <1>11,
     <1>12, <1>13, <1>14, <1>15, <1>16 DEF Next, Request, Delivery

LEMMA SenderHolds ==
  Spec => []FlagInv
<1>1. Init => FlagInv
  BY DEF Init, FlagInv, SenderInv, DuplicateIsFlagged, InFlight, NoAttempt
<1>2. SafetyInv /\ FlagInv /\ [Next]_vars => FlagInv'
  BY SenderKept
<1> QED
  BY <1>1, <1>2, SafetyHolds, PTL DEF Spec

\* As long as no send outlasts its claim, at most one request is between the
\* claim and the settlement of a row (execute_replay_event 399-400).
THEOREM SendersExclude ==
  Spec => []OneSender
<1>1. FlagInv => OneSender
  BY DEF FlagInv, SenderInv, OneSender
<1> QED
  BY <1>1, SenderHolds, PTL

\* As long as no send outlasts its claim, a batch delivered twice under one
\* key is flagged on its row (the contract at the head of the service).
THEOREM DuplicatesAreFlagged ==
  Spec => []DuplicateIsFlagged
<1>1. FlagInv => DuplicateIsFlagged
  BY DEF FlagInv
<1> QED
  BY <1>1, SenderHolds, PTL

-----------------------------------------------------------------------------
(* The held batch *)

\* A request whose send returned well was accepted under its key.
OutcomeInv ==
    \A w \in Workers :
        /\ got[w] => pc[w] \in InFlight /\ accepted # {}
        /\ pc[w] \in {"sent", "settling"} /\ sendOk[w] => got[w]

LEMMA OutcomeKept ==
  ASSUME TypeOK, OutcomeInv, [Next]_vars
  PROVE  OutcomeInv'
<1> USE DEF OutcomeInv, TypeOK, InFlight, Goto, Finish, database, request,
        history, vars
<1>0. CASE UNCHANGED vars
  BY <1>0
<1>1. ASSUME NEW w \in Workers, Start(w) PROVE OutcomeInv'
  BY <1>1 DEF Start
<1>2. ASSUME NEW w \in Workers, Lock(w) PROVE OutcomeInv'
  BY <1>2 DEF Lock
<1>3. ASSUME NEW w \in Workers, LockBusy(w) PROVE OutcomeInv'
  BY <1>3 DEF LockBusy
<1>4. ASSUME NEW w \in Workers, Refuse(w) PROVE OutcomeInv'
  BY <1>4 DEF Refuse
<1>5. ASSUME NEW w \in Workers, Claim(w) PROVE OutcomeInv'
  BY <1>5 DEF Claim, KeyFor, Uncertain, MayClaim, ClaimIsFresh
<1>6. ASSUME NEW w \in Workers, Accept(w) PROVE OutcomeInv'
  BY <1>6 DEF Accept
<1>7. ASSUME NEW w \in Workers, SendSucceeds(w) PROVE OutcomeInv'
  BY <1>7 DEF SendSucceeds
<1>8. ASSUME NEW w \in Workers, SendFails(w) PROVE OutcomeInv'
  BY <1>8 DEF SendFails
<1>9. ASSUME NEW w \in Workers, Relock(w) PROVE OutcomeInv'
  BY <1>9 DEF Relock
<1>10. ASSUME NEW w \in Workers, RelockBusy(w) PROVE OutcomeInv'
  BY <1>10 DEF RelockBusy
<1>11. ASSUME NEW w \in Workers, Settle(w) PROVE OutcomeInv'
  BY <1>11 DEF Settle, Settles, Outcome, Terminal
<1>12. ASSUME NEW w \in Workers, LockForDiscard(w) PROVE OutcomeInv'
  BY <1>12 DEF LockForDiscard
<1>13. ASSUME NEW w \in Workers, Discard(w) PROVE OutcomeInv'
  BY <1>13 DEF Discard, Terminal
<1>14. ASSUME NEW w \in Workers, Crash(w) PROVE OutcomeInv'
  BY <1>14 DEF Crash
<1>15. CASE Age
  BY <1>15 DEF Age
<1>16. CASE Calm
  BY <1>16 DEF Calm
<1> QED
  BY <1>0, <1>1, <1>2, <1>3, <1>4, <1>5, <1>6, <1>7, <1>8, <1>9, <1>10, <1>11,
     <1>12, <1>13, <1>14, <1>15, <1>16 DEF Next, Request, Delivery

\* Handlers that lock before they look are never misled.
ViewInv ==
    /\ ~misled
    /\ \A w \in Workers : pc[w] = "deciding" => view[w] = Row

LEMMA ViewKept ==
  ASSUME Prefetching = {}, TypeOK, LockInv, ViewInv, [Next]_vars
  PROVE  ViewInv'
<1> USE DEF ViewInv, LockInv, Holding, TypeOK, InFlight, Attempts, Rows, Row, Goto,
        Finish, database, request, history, vars
<1>0. CASE UNCHANGED vars
  BY <1>0
<1>1. ASSUME NEW w \in Workers, Start(w) PROVE ViewInv'
  BY <1>1 DEF Start
<1>2. ASSUME NEW w \in Workers, Lock(w) PROVE ViewInv'
  BY <1>2 DEF Lock
<1>3. ASSUME NEW w \in Workers, LockBusy(w) PROVE ViewInv'
  BY <1>3 DEF LockBusy
<1>4. ASSUME NEW w \in Workers, Refuse(w) PROVE ViewInv'
  BY <1>4 DEF Refuse
<1>5. ASSUME NEW w \in Workers, Claim(w) PROVE ViewInv'
  BY <1>5 DEF Claim
<1>6. ASSUME NEW w \in Workers, Accept(w) PROVE ViewInv'
  BY <1>6 DEF Accept
<1>7. ASSUME NEW w \in Workers, SendSucceeds(w) PROVE ViewInv'
  BY <1>7 DEF SendSucceeds
<1>8. ASSUME NEW w \in Workers, SendFails(w) PROVE ViewInv'
  BY <1>8 DEF SendFails
<1>9. ASSUME NEW w \in Workers, Relock(w) PROVE ViewInv'
  BY <1>9 DEF Relock
<1>10. ASSUME NEW w \in Workers, RelockBusy(w) PROVE ViewInv'
  BY <1>10 DEF RelockBusy
<1>11. ASSUME NEW w \in Workers, Settle(w) PROVE ViewInv'
  BY <1>11 DEF Settle
<1>12. ASSUME NEW w \in Workers, LockForDiscard(w) PROVE ViewInv'
  BY <1>12 DEF LockForDiscard
<1>13. ASSUME NEW w \in Workers, Discard(w) PROVE ViewInv'
  BY <1>13 DEF Discard
<1>14. ASSUME NEW w \in Workers, Crash(w) PROVE ViewInv'
  BY <1>14 DEF Crash
<1>15. CASE Age
  <2>1. ASSUME NEW w \in Workers, pc[w] = "deciding" PROVE view'[w] = Row'
    <3>1. view[w].status = status /\ view[w].key = attempt.key
      BY <2>1
    <3>2. view'[w] = [status |-> view[w].status, key |-> view[w].key, fresh |-> FALSE]
      BY <1>15, Zenon DEF Age
    <3>3. status' = status /\ attempt' = attempt /\ fresh' = FALSE
      BY <1>15 DEF Age
    <3> QED
      BY <3>1, <3>2, <3>3, Zenon
  <2> QED
    BY <1>15, <2>1 DEF Age
<1>16. CASE Calm
  BY <1>16 DEF Calm
<1> QED
  BY <1>0, <1>1, <1>2, <1>3, <1>4, <1>5, <1>6, <1>7, <1>8, <1>9, <1>10, <1>11,
     <1>12, <1>13, <1>14, <1>15, <1>16 DEF Next, Request, Delivery
\* Every step of the row is a step of a held batch, or none.
LEMMA HeldStep ==
  ASSUME SafetyInv, ViewInv, OutcomeInv, [Next]_vars
  PROVE  [Held!Next]_(Held!vars)
<1> DEFINE Step == [Held!Next]_(Held!vars)
<1> USE DEF SafetyInv, ViewInv, OutcomeInv, LockInv, TypeOK, InFlight, Holding, Goto, Finish,
        Statuses, Row, Rows, Terminal, database, request, history, vars,
        Held!Next, Held!vars, Held!Accept, Held!Deliver, Held!Discard
<1>0. CASE UNCHANGED vars
  BY <1>0
<1>1. ASSUME NEW w \in Workers, Start(w) PROVE Step
  BY <1>1 DEF Start
<1>2. ASSUME NEW w \in Workers, Lock(w) PROVE Step
  BY <1>2 DEF Lock
<1>3. ASSUME NEW w \in Workers, LockBusy(w) PROVE Step
  BY <1>3 DEF LockBusy
<1>4. ASSUME NEW w \in Workers, Refuse(w) PROVE Step
  BY <1>4 DEF Refuse
<1>5. ASSUME NEW w \in Workers, Claim(w) PROVE Step
  <2>1. view[w].status = status /\ MayClaim(view[w])
    BY <1>5 DEF Claim
  <2>2. status \in {"pending", "failed", "replaying"} /\ status' = "replaying"
    BY <1>5, <2>1, MayClaimMeans DEF Claim
  <2>3. accepted' = accepted
    BY <1>5 DEF Claim
  <2> QED
    BY <2>2, <2>3
<1>6. ASSUME NEW w \in Workers, Accept(w) PROVE Step
  BY <1>6 DEF Accept
<1>7. ASSUME NEW w \in Workers, SendSucceeds(w) PROVE Step
  BY <1>7 DEF SendSucceeds
<1>8. ASSUME NEW w \in Workers, SendFails(w) PROVE Step
  BY <1>8 DEF SendFails
<1>9. ASSUME NEW w \in Workers, Relock(w) PROVE Step
  BY <1>9 DEF Relock
<1>10. ASSUME NEW w \in Workers, RelockBusy(w) PROVE Step
  BY <1>10 DEF RelockBusy
<1>11. ASSUME NEW w \in Workers, Settle(w) PROVE Step
  BY <1>11 DEF Settle, Settles, Outcome, Terminal
<1>12. ASSUME NEW w \in Workers, LockForDiscard(w) PROVE Step
  BY <1>12 DEF LockForDiscard
<1>13. ASSUME NEW w \in Workers, Discard(w) PROVE Step
  BY <1>13 DEF Discard, Terminal
<1>14. ASSUME NEW w \in Workers, Crash(w) PROVE Step
  BY <1>14 DEF Crash
<1>15. CASE Age
  BY <1>15 DEF Age
<1>16. CASE Calm
  BY <1>16 DEF Calm
<1> QED
  BY <1>0, <1>1, <1>2, <1>3, <1>4, <1>5, <1>6, <1>7, <1>8, <1>9, <1>10, <1>11,
     <1>12, <1>13, <1>14, <1>15, <1>16 DEF Next, Request, Delivery

LEMMA AcceptedKept ==
  ASSUME TypeOK, OutcomeInv, ReplayedMeansAccepted, [Next]_vars
  PROVE  ReplayedMeansAccepted'
<1> USE DEF OutcomeInv, ReplayedMeansAccepted, TypeOK, InFlight, Goto, Finish, database,
        request, history, vars
<1>0. CASE UNCHANGED vars
  BY <1>0
<1>1. ASSUME NEW w \in Workers, Start(w) PROVE ReplayedMeansAccepted'
  BY <1>1 DEF Start
<1>2. ASSUME NEW w \in Workers, Lock(w) PROVE ReplayedMeansAccepted'
  BY <1>2 DEF Lock
<1>3. ASSUME NEW w \in Workers, LockBusy(w) PROVE ReplayedMeansAccepted'
  BY <1>3 DEF LockBusy
<1>4. ASSUME NEW w \in Workers, Refuse(w) PROVE ReplayedMeansAccepted'
  BY <1>4 DEF Refuse
<1>5. ASSUME NEW w \in Workers, Claim(w) PROVE ReplayedMeansAccepted'
  BY <1>5 DEF Claim
<1>6. ASSUME NEW w \in Workers, Accept(w) PROVE ReplayedMeansAccepted'
  BY <1>6 DEF Accept
<1>7. ASSUME NEW w \in Workers, SendSucceeds(w) PROVE ReplayedMeansAccepted'
  BY <1>7 DEF SendSucceeds
<1>8. ASSUME NEW w \in Workers, SendFails(w) PROVE ReplayedMeansAccepted'
  BY <1>8 DEF SendFails
<1>9. ASSUME NEW w \in Workers, Relock(w) PROVE ReplayedMeansAccepted'
  BY <1>9 DEF Relock
<1>10. ASSUME NEW w \in Workers, RelockBusy(w) PROVE ReplayedMeansAccepted'
  BY <1>10 DEF RelockBusy
<1>11. ASSUME NEW w \in Workers, Settle(w) PROVE ReplayedMeansAccepted'
  BY <1>11 DEF Settle, Settles, Outcome, Terminal
<1>12. ASSUME NEW w \in Workers, LockForDiscard(w) PROVE ReplayedMeansAccepted'
  BY <1>12 DEF LockForDiscard
<1>13. ASSUME NEW w \in Workers, Discard(w) PROVE ReplayedMeansAccepted'
  BY <1>13 DEF Discard, Terminal
<1>14. ASSUME NEW w \in Workers, Crash(w) PROVE ReplayedMeansAccepted'
  BY <1>14 DEF Crash
<1>15. CASE Age
  BY <1>15 DEF Age
<1>16. CASE Calm
  BY <1>16 DEF Calm
<1> QED
  BY <1>0, <1>1, <1>2, <1>3, <1>4, <1>5, <1>6, <1>7, <1>8, <1>9, <1>10, <1>11,
     <1>12, <1>13, <1>14, <1>15, <1>16 DEF Next, Request, Delivery

LEMMA FinalKept ==
  ASSUME SafetyInv, [Next]_vars
  PROVE  ~misled' /\ status \in Terminal => status' = status
<1> DEFINE Goal == ~misled' /\ status \in Terminal => status' = status
<1> USE DEF SafetyInv, LockInv, TypeOK, Holding, Terminal, Goto, Finish, database,
        request, history, vars
<1>0. CASE UNCHANGED vars
  BY <1>0
<1>1. ASSUME NEW w \in Workers, Start(w) PROVE Goal
  BY <1>1 DEF Start
<1>2. ASSUME NEW w \in Workers, Lock(w) PROVE Goal
  BY <1>2 DEF Lock
<1>3. ASSUME NEW w \in Workers, LockBusy(w) PROVE Goal
  BY <1>3 DEF LockBusy
<1>4. ASSUME NEW w \in Workers, Refuse(w) PROVE Goal
  BY <1>4 DEF Refuse
<1>5. ASSUME NEW w \in Workers, Claim(w) PROVE Goal
  <2> SUFFICES ASSUME view[w] = Row, status \in Terminal PROVE FALSE
    BY <1>5 DEF Claim
  <2>1. view[w].status = status
    BY DEF Row
  <2> QED
    BY <1>5, <2>1, MayClaimMeans DEF Claim
<1>6. ASSUME NEW w \in Workers, Accept(w) PROVE Goal
  BY <1>6 DEF Accept
<1>7. ASSUME NEW w \in Workers, SendSucceeds(w) PROVE Goal
  BY <1>7 DEF SendSucceeds
<1>8. ASSUME NEW w \in Workers, SendFails(w) PROVE Goal
  BY <1>8 DEF SendFails
<1>9. ASSUME NEW w \in Workers, Relock(w) PROVE Goal
  BY <1>9 DEF Relock
<1>10. ASSUME NEW w \in Workers, RelockBusy(w) PROVE Goal
  BY <1>10 DEF RelockBusy
<1>11. ASSUME NEW w \in Workers, Settle(w) PROVE Goal
  BY <1>11 DEF Settle, Settles, Outcome, Terminal
<1>12. ASSUME NEW w \in Workers, LockForDiscard(w) PROVE Goal
  BY <1>12 DEF LockForDiscard
<1>13. ASSUME NEW w \in Workers, Discard(w) PROVE Goal
  BY <1>13 DEF Discard, Terminal
<1>14. ASSUME NEW w \in Workers, Crash(w) PROVE Goal
  BY <1>14 DEF Crash
<1>15. CASE Age
  BY <1>15 DEF Age
<1>16. CASE Calm
  BY <1>16 DEF Calm
<1> QED
  BY <1>0, <1>1, <1>2, <1>3, <1>4, <1>5, <1>6, <1>7, <1>8, <1>9, <1>10, <1>11,
     <1>12, <1>13, <1>14, <1>15, <1>16 DEF Next, Request, Delivery

\* With handlers that lock before they look, a replay row is settled once,
\* and as replayed only when the destination accepted the batch.
THEOREM ReplayRefinesHeld ==
  ASSUME Prefetching = {}
  PROVE  Spec => ImplementsHeldBatch
<1>1. Init => Held!Init /\ OutcomeInv /\ ViewInv
  BY DEF Init, Held!Init, OutcomeInv, ViewInv, InFlight
<1>2. SafetyInv /\ OutcomeInv /\ ViewInv /\ [Next]_vars =>
          OutcomeInv' /\ ViewInv' /\ [Held!Next]_(Held!vars)
  BY OutcomeKept, ViewKept, HeldStep DEF SafetyInv
<1> QED
  BY <1>1, <1>2, SafetyHolds, PTL DEF Spec, ImplementsHeldBatch, Held!Spec

\* Whatever is prefetched, a replayed row's batch was accepted (lines 508, 562).
THEOREM ReplayedWasAccepted == Spec => []ReplayedMeansAccepted
<1> DEFINE Inv == OutcomeInv /\ ReplayedMeansAccepted
<1>1. Init => Inv
  BY DEF Init, OutcomeInv, ReplayedMeansAccepted, InFlight
<1>2. TypeOK /\ Inv /\ [Next]_vars => Inv'
  BY OutcomeKept, AcceptedKept
<1> QED
  BY <1>1, <1>2, ReplayTypes, PTL DEF Spec

\* No settled row is touched again, as long as no handler was misled
\* (execute_replay_event 380-389, 494-503; discard_replay_event 297).
THEOREM SettledStays == Spec => TerminalIsFinal
<1>1. SafetyInv /\ [Next]_vars => (~misled' /\ status \in Terminal => status' = status)
  BY FinalKept
<1>2. SafetyInv /\ [Next]_vars =>
          [~misled' /\ status \in Terminal => status' = status]_vars
  BY <1>1
<1> QED
  BY <1>2, SafetyHolds, PTL DEF Spec, TerminalIsFinal

=============================================================================
