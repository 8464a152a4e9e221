----------------------- MODULE QuarantineReleaseProofs -----------------------
(***************************************************************************)
(* Proofs about QuarantineRelease, for every set of worker processes, rows *)
(* and routes.  All of them rest on the row lock: whoever sends or has     *)
(* staged a row holds its lock, and the row is still "quarantined".        *)
(***************************************************************************)
EXTENDS QuarantineRelease, TLAPS

LEMMA TypesKept == TypeOK /\ [Next]_vars => TypeOK'
<1> SUFFICES ASSUME TypeOK, [Next]_vars PROVE TypeOK'
  OBVIOUS
<1> USE ReleaseAssumption DEF TypeOK, database, request, txn, vars
<1>0. CASE UNCHANGED vars
  BY <1>0
<1>1. ASSUME NEW w \in Workers, Start(w) PROVE TypeOK'
  BY <1>1 DEF Start
<1>2. ASSUME NEW w \in Workers, ReleaseRow(w) PROVE TypeOK'
  BY <1>2 DEF ReleaseRow, Delivered, StageCheckpoint, NextRow
<1>3. ASSUME NEW w \in Workers, ReleaseFails(w) PROVE TypeOK'
  BY <1>3 DEF ReleaseFails, NextRow
<1>4. ASSUME NEW w \in Workers, Break(w) PROVE TypeOK'
  BY <1>4 DEF Break, End
<1>5. ASSUME NEW w \in Workers, Commit(w) PROVE TypeOK'
  BY <1>5 DEF Commit, End
<1>6. ASSUME NEW w \in Workers, Crash(w) PROVE TypeOK'
  BY <1>6 DEF Crash, End
<1>7. ASSUME NEW w \in Workers, NEW i \in Rows, Refuse(w, i) PROVE TypeOK'
  BY <1>7 DEF Refuse, AtRow, Unlocked, TakeLock, Skip
<1>8. ASSUME NEW w \in Workers, NEW i \in Rows, DiscardRow(w, i) PROVE TypeOK'
  BY <1>8 DEF DiscardRow, AtRow, Unlocked, TakeLock, Skip
<1>9. ASSUME NEW w \in Workers, NEW i \in Rows, LoadRow(w, i) PROVE TypeOK'
  BY <1>9 DEF LoadRow, AtRow, Unlocked, TakeLock
<1>10. ASSUME NEW w \in Workers, NEW i \in Rows, RowBusy(w, i) PROVE TypeOK'
  BY <1>10 DEF RowBusy, AtRow, Unlocked, Skip
<1>11. ASSUME NEW w \in Workers, NEW r \in Routes, SendSucceeds(w, r) PROVE TypeOK'
  BY <1>11 DEF SendSucceeds
<1>12. ASSUME NEW w \in Workers, NEW r \in Routes, SendFails(w, r) PROVE TypeOK'
  BY <1>12 DEF SendFails, IsRequired
<1>13. CASE RunCommits
  BY <1>13 DEF RunCommits
<1> QED
  BY <1>0, <1>1, <1>2, <1>3, <1>4, <1>5, <1>6,
     <1>7, <1>8, <1>9, <1>10, <1>11, <1>12, <1>13 DEF Next, Step

LEMMA TypesStart == Init => TypeOK
  BY ReleaseAssumption DEF Init, TypeOK

\* Every reachable state is well-typed.
THEOREM ReleaseTypes == Spec => []TypeOK
  BY TypesStart, TypesKept, PTL DEF Spec

-----------------------------------------------------------------------------
(* The row locks *)

\* What a commit does to a row's status.
LEMMA CommitStatus ==
  ASSUME TypeOK, NEW w \in Workers, Commit(w), NEW j \in Rows
  PROVE  \/ status'[j] = status[j]
         \/ /\ j \in staged[w] /\ ~aborted[w]
            /\ kind[w] = "release" => status'[j] = "released"
            /\ kind[w] = "discard" => status'[j] = "discarded"
  BY DEF Commit, TypeOK

\* A row that is being sent or is staged is locked by that transaction and not
\* settled.
StagedLocked(w) ==
    \A i \in staged[w] : rowLock[i] = {w} /\ status[i] = "quarantined"

SendingLocked(w) ==
    pc[w] = "sending" => /\ rowLock[cur[w]] = {w}
                         /\ status[cur[w]] = "quarantined"
                         /\ kind[w] = "release"

IdleClean(w) == pc[w] = "idle" => staged[w] = {} /\ stagedCp[w] = 0

LockInv == \A w \in Workers : StagedLocked(w) /\ SendingLocked(w) /\ IdleClean(w)

LEMMA StagedStaysLocked ==
  ASSUME TypeOK, LockInv, [Next]_vars, NEW v \in Workers
  PROVE  StagedLocked(v)'
<1> USE DEF TypeOK, LockInv, StagedLocked, SendingLocked, database, request, txn, vars
<1>0. CASE UNCHANGED vars
  BY <1>0
<1>1. ASSUME NEW w \in Workers, Start(w) PROVE StagedLocked(v)'
  BY <1>1 DEF Start
<1>2. ASSUME NEW w \in Workers, ReleaseRow(w) PROVE StagedLocked(v)'
  BY <1>2 DEF ReleaseRow, Delivered, StageCheckpoint, NextRow
<1>3. ASSUME NEW w \in Workers, ReleaseFails(w) PROVE StagedLocked(v)'
  BY <1>3 DEF ReleaseFails, NextRow
<1>4. ASSUME NEW w \in Workers, Break(w) PROVE StagedLocked(v)'
  BY <1>4 DEF Break, End
<1>5. ASSUME NEW w \in Workers, Commit(w) PROVE StagedLocked(v)'
  <2> SUFFICES ASSUME NEW j \in staged'[v] PROVE rowLock'[j] = {v} /\ status'[j] = "quarantined"
    BY DEF StagedLocked
  <2>1. v # w /\ j \in staged[v]
    BY <1>5 DEF Commit, End
  <2>2. rowLock[j] = {v} /\ status[j] = "quarantined" /\ j \in Rows
    BY <2>1
  <2>3. j \notin staged[w]
    BY <2>1, <2>2
  <2>4. status'[j] = status[j]
    BY <1>5, <2>2, <2>3, CommitStatus
  <2>5. rowLock'[j] = rowLock[j] \ {w}
    BY <1>5, <2>2 DEF Commit, End
  <2> QED
    BY <2>1, <2>2, <2>4, <2>5
<1>6. ASSUME NEW w \in Workers, Crash(w) PROVE StagedLocked(v)'
  BY <1>6 DEF Crash, End
<1>7. ASSUME NEW w \in Workers, NEW i \in Rows, Refuse(w, i) PROVE StagedLocked(v)'
  BY <1>7 DEF Refuse, AtRow, Unlocked, TakeLock, Skip
<1>8. ASSUME NEW w \in Workers, NEW i \in Rows, DiscardRow(w, i) PROVE StagedLocked(v)'
  <2>1. rowLock[i] \subseteq {w} /\ rowLock' = [rowLock EXCEPT ![i] = {w}] /\ status' = status
    BY <1>8 DEF DiscardRow, AtRow, Unlocked, TakeLock, Skip
  <2>2. \A j \in Rows : rowLock[j] = {v} => rowLock'[j] = {v}
    BY <2>1
  <2>3. staged' = [staged EXCEPT ![w] = @ \cup {i}] /\ status[i] = "quarantined"
    BY <1>8 DEF DiscardRow
  <2>4. CASE v = w
    BY <2>1, <2>2, <2>3, <2>4
  <2>5. CASE v # w
    <3>1. staged'[v] = staged[v] /\ staged[v] \subseteq Rows
      BY <2>3, <2>5
    <3> QED
      BY <2>1, <2>2, <3>1
  <2> QED
    BY <2>4, <2>5
<1>9. ASSUME NEW w \in Workers, NEW i \in Rows, LoadRow(w, i) PROVE StagedLocked(v)'
  <2>1. rowLock[i] \subseteq {w} /\ rowLock' = [rowLock EXCEPT ![i] = {w}] /\ status' = status
    BY <1>9 DEF LoadRow, AtRow, Unlocked, TakeLock
  <2>2. \A j \in Rows : rowLock[j] = {v} => rowLock'[j] = {v}
    BY <2>1
  <2>3. staged' = staged
    BY <1>9 DEF LoadRow
  <2> QED
    BY <2>1, <2>2, <2>3
<1>10. ASSUME NEW w \in Workers, NEW i \in Rows, RowBusy(w, i) PROVE StagedLocked(v)'
  BY <1>10 DEF RowBusy, AtRow, Unlocked, Skip
<1>11. ASSUME NEW w \in Workers, NEW r \in Routes, SendSucceeds(w, r) PROVE StagedLocked(v)'
  BY <1>11 DEF SendSucceeds
<1>12. ASSUME NEW w \in Workers, NEW r \in Routes, SendFails(w, r) PROVE StagedLocked(v)'
  BY <1>12 DEF SendFails, IsRequired
<1>13. CASE RunCommits
  BY <1>13 DEF RunCommits
<1> QED
  BY <1>0, <1>1, <1>2, <1>3, <1>4, <1>5, <1>6,
     <1>7, <1>8, <1>9, <1>10, <1>11, <1>12, <1>13 DEF Next, Step

LEMMA SendingStaysLocked ==
  ASSUME TypeOK, LockInv, [Next]_vars, NEW v \in Workers
  PROVE  SendingLocked(v)'
<1> USE DEF TypeOK, LockInv, StagedLocked, SendingLocked, database, request, txn, vars
<1>0. CASE UNCHANGED vars
  BY <1>0
<1>1. ASSUME NEW w \in Workers, Start(w) PROVE SendingLocked(v)'
  BY <1>1 DEF Start
<1>2. ASSUME NEW w \in Workers, ReleaseRow(w) PROVE SendingLocked(v)'
  BY <1>2 DEF ReleaseRow, Delivered, StageCheckpoint, NextRow
<1>3. ASSUME NEW w \in Workers, ReleaseFails(w) PROVE SendingLocked(v)'
  BY <1>3 DEF ReleaseFails, NextRow
<1>4. ASSUME NEW w \in Workers, Break(w) PROVE SendingLocked(v)'
  BY <1>4 DEF Break, End
<1>5. ASSUME NEW w \in Workers, Commit(w) PROVE SendingLocked(v)'
  <2> SUFFICES ASSUME pc'[v] = "sending"
               PROVE  /\ rowLock'[cur'[v]] = {v} /\ status'[cur'[v]] = "quarantined"
                      /\ kind'[v] = "release"
    BY DEF SendingLocked
  <2>1. v # w /\ pc[v] = "sending" /\ cur'[v] = cur[v] /\ kind'[v] = kind[v]
    BY <1>5 DEF Commit, End
  <2>2. rowLock[cur[v]] = {v} /\ status[cur[v]] = "quarantined" /\ cur[v] \in Rows
    BY <2>1
  <2>3. cur[v] \notin staged[w]
    BY <2>1, <2>2
  <2>4. status'[cur[v]] = status[cur[v]]
    BY <1>5, <2>2, <2>3, CommitStatus
  <2>5. rowLock'[cur[v]] = rowLock[cur[v]] \ {w}
    BY <1>5, <2>2 DEF Commit, End
  <2> QED
    BY <2>1, <2>2, <2>4, <2>5
<1>6. ASSUME NEW w \in Workers, Crash(w) PROVE SendingLocked(v)'
  BY <1>6 DEF Crash, End
<1>7. ASSUME NEW w \in Workers, NEW i \in Rows, Refuse(w, i) PROVE SendingLocked(v)'
  BY <1>7 DEF Refuse, AtRow, Unlocked, TakeLock, Skip
<1>8. ASSUME NEW w \in Workers, NEW i \in Rows, DiscardRow(w, i) PROVE SendingLocked(v)'
  BY <1>8 DEF DiscardRow, AtRow, Unlocked, TakeLock, Skip
<1>9. ASSUME NEW w \in Workers, NEW i \in Rows, LoadRow(w, i) PROVE SendingLocked(v)'
  <2>1. rowLock[i] \subseteq {w} /\ rowLock' = [rowLock EXCEPT ![i] = {w}] /\ status' = status
    BY <1>9 DEF LoadRow, AtRow, Unlocked, TakeLock
  <2>2. \A j \in Rows : rowLock[j] = {v} => rowLock'[j] = {v}
    BY <2>1
  <2>3. CASE v = w
    <3>1. cur'[w] = i /\ kind'[w] = "release" /\ status[i] = "quarantined"
      BY <1>9 DEF LoadRow
    <3> QED
      BY <2>1, <2>3, <3>1
  <2>4. CASE v # w
    <3>1. cur'[v] = cur[v] /\ kind'[v] = kind[v] /\ pc'[v] = pc[v]
      BY <1>9, <2>4 DEF LoadRow
    <3> QED
      BY <2>1, <2>2, <3>1
  <2> QED
    BY <2>3, <2>4
<1>10. ASSUME NEW w \in Workers, NEW i \in Rows, RowBusy(w, i) PROVE SendingLocked(v)'
  BY <1>10 DEF RowBusy, AtRow, Unlocked, Skip
<1>11. ASSUME NEW w \in Workers, NEW r \in Routes, SendSucceeds(w, r) PROVE SendingLocked(v)'
  BY <1>11 DEF SendSucceeds
<1>12. ASSUME NEW w \in Workers, NEW r \in Routes, SendFails(w, r) PROVE SendingLocked(v)'
  BY <1>12 DEF SendFails, IsRequired
<1>13. CASE RunCommits
  BY <1>13 DEF RunCommits
<1> QED
  BY <1>0, <1>1, <1>2, <1>3, <1>4, <1>5, <1>6,
     <1>7, <1>8, <1>9, <1>10, <1>11, <1>12, <1>13 DEF Next, Step

LEMMA IdleStaysClean ==
  ASSUME TypeOK, LockInv, [Next]_vars, NEW v \in Workers
  PROVE  IdleClean(v)'
<1> USE DEF TypeOK, LockInv, IdleClean, database, request, txn, vars
<1>0. CASE UNCHANGED vars
  BY <1>0
<1>1. ASSUME NEW w \in Workers, Start(w) PROVE IdleClean(v)'
  BY <1>1 DEF Start
<1>2. ASSUME NEW w \in Workers, ReleaseRow(w) PROVE IdleClean(v)'
  BY <1>2 DEF ReleaseRow, Delivered, StageCheckpoint, NextRow
<1>3. ASSUME NEW w \in Workers, ReleaseFails(w) PROVE IdleClean(v)'
  BY <1>3 DEF ReleaseFails, NextRow
<1>4. ASSUME NEW w \in Workers, Break(w) PROVE IdleClean(v)'
  BY <1>4 DEF Break, End
<1>5. ASSUME NEW w \in Workers, Commit(w) PROVE IdleClean(v)'
  BY <1>5 DEF Commit, End
<1>6. ASSUME NEW w \in Workers, Crash(w) PROVE IdleClean(v)'
  BY <1>6 DEF Crash, End
<1>7. ASSUME NEW w \in Workers, NEW i \in Rows, Refuse(w, i) PROVE IdleClean(v)'
  BY <1>7 DEF Refuse, AtRow, Unlocked, TakeLock, Skip
<1>8. ASSUME NEW w \in Workers, NEW i \in Rows, DiscardRow(w, i) PROVE IdleClean(v)'
  BY <1>8 DEF DiscardRow, AtRow, Unlocked, TakeLock, Skip
<1>9. ASSUME NEW w \in Workers, NEW i \in Rows, LoadRow(w, i) PROVE IdleClean(v)'
  BY <1>9 DEF LoadRow, AtRow, Unlocked, TakeLock
<1>10. ASSUME NEW w \in Workers, NEW i \in Rows, RowBusy(w, i) PROVE IdleClean(v)'
  BY <1>10 DEF RowBusy, AtRow, Unlocked, Skip
<1>11. ASSUME NEW w \in Workers, NEW r \in Routes, SendSucceeds(w, r) PROVE IdleClean(v)'
  BY <1>11 DEF SendSucceeds
<1>12. ASSUME NEW w \in Workers, NEW r \in Routes, SendFails(w, r) PROVE IdleClean(v)'
  BY <1>12 DEF SendFails, IsRequired
<1>13. CASE RunCommits
  BY <1>13 DEF RunCommits
<1> QED
  BY <1>0, <1>1, <1>2, <1>3, <1>4, <1>5, <1>6,
     <1>7, <1>8, <1>9, <1>10, <1>11, <1>12, <1>13 DEF Next, Step

-----------------------------------------------------------------------------
(* What a release has reached *)

Reached(i) ==
    /\ \E r \in RoutesOf[i] : <<i, r>> \in accepted
    /\ \A r \in (RoutesOf[i] \cap Required) \ Off : <<i, r>> \in accepted

LEMMA AcceptedStays ==
  ASSUME [Next]_vars
  PROVE  accepted \subseteq accepted'
<1> DEFINE Goal == accepted \subseteq accepted'
<1> USE DEF database, request, txn, vars
<1>0. CASE UNCHANGED vars
  BY <1>0
<1>1. ASSUME NEW w \in Workers, Start(w) PROVE Goal
  BY <1>1 DEF Start
<1>2. ASSUME NEW w \in Workers, ReleaseRow(w) PROVE Goal
  BY <1>2 DEF ReleaseRow, Delivered, StageCheckpoint, NextRow
<1>3. ASSUME NEW w \in Workers, ReleaseFails(w) PROVE Goal
  BY <1>3 DEF ReleaseFails, NextRow
<1>4. ASSUME NEW w \in Workers, Break(w) PROVE Goal
  BY <1>4 DEF Break, End
<1>5. ASSUME NEW w \in Workers, Commit(w) PROVE Goal
  BY <1>5 DEF Commit, End
<1>6. ASSUME NEW w \in Workers, Crash(w) PROVE Goal
  BY <1>6 DEF Crash, End
<1>7. ASSUME NEW w \in Workers, NEW i \in Rows, Refuse(w, i) PROVE Goal
  BY <1>7 DEF Refuse, AtRow, Unlocked, TakeLock, Skip
<1>8. ASSUME NEW w \in Workers, NEW i \in Rows, DiscardRow(w, i) PROVE Goal
  BY <1>8 DEF DiscardRow, AtRow, Unlocked, TakeLock, Skip
<1>9. ASSUME NEW w \in Workers, NEW i \in Rows, LoadRow(w, i) PROVE Goal
  BY <1>9 DEF LoadRow, AtRow, Unlocked, TakeLock
<1>10. ASSUME NEW w \in Workers, NEW i \in Rows, RowBusy(w, i) PROVE Goal
  BY <1>10 DEF RowBusy, AtRow, Unlocked, Skip
<1>11. ASSUME NEW w \in Workers, NEW r \in Routes, SendSucceeds(w, r) PROVE Goal
  BY <1>11 DEF SendSucceeds
<1>12. ASSUME NEW w \in Workers, NEW r \in Routes, SendFails(w, r) PROVE Goal
  BY <1>12 DEF SendFails, IsRequired
<1>13. CASE RunCommits
  BY <1>13 DEF RunCommits
<1> QED
  BY <1>0, <1>1, <1>2, <1>3, <1>4, <1>5, <1>6,
     <1>7, <1>8, <1>9, <1>10, <1>11, <1>12, <1>13 DEF Next, Step

\* A batch that reached its routes has reached them for good.
LEMMA ReachedStays ==
  ASSUME [Next]_vars, NEW i, Reached(i)
  PROVE  Reached(i)'
  BY AcceptedStays DEF Reached

\* The flags of a delivery say what its sends have reached.
LeftOf(w) == pc[w] = "sending" => left[w] \subseteq RoutesOf[cur[w]]

FreshOf(w) == pc[w] # "sending" => ~sendOk[w] /\ requiredOk[w]

SomeOf(w) ==
    (pc[w] = "sending" /\ sendOk[w]) =>
        \E r \in RoutesOf[cur[w]] : <<cur[w], r>> \in accepted

RequiredOf(w) ==
    (pc[w] = "sending" /\ requiredOk[w]) =>
        \A r \in (RoutesOf[cur[w]] \cap Required) \ Off :
            r \in left[w] \/ <<cur[w], r>> \in accepted

\* A staged release has reached its routes.
StagedOf(w) == kind[w] = "release" => \A i \in staged[w] : Reached(i)

ReachInv ==
    \A w \in Workers :
        LeftOf(w) /\ FreshOf(w) /\ SomeOf(w) /\ RequiredOf(w) /\ StagedOf(w)

LEMMA LeftKept ==
  ASSUME TypeOK, ReachInv, [Next]_vars, NEW v \in Workers
  PROVE  LeftOf(v)'
<1> USE ReleaseAssumption DEF TypeOK, ReachInv, LeftOf, database, request, txn, vars
<1>0. CASE UNCHANGED vars
  BY <1>0
<1>1. ASSUME NEW w \in Workers, Start(w) PROVE LeftOf(v)'
  BY <1>1 DEF Start
<1>2. ASSUME NEW w \in Workers, ReleaseRow(w) PROVE LeftOf(v)'
  BY <1>2 DEF ReleaseRow, Delivered, StageCheckpoint, NextRow
<1>3. ASSUME NEW w \in Workers, ReleaseFails(w) PROVE LeftOf(v)'
  BY <1>3 DEF ReleaseFails, NextRow
<1>4. ASSUME NEW w \in Workers, Break(w) PROVE LeftOf(v)'
  BY <1>4 DEF Break, End
<1>5. ASSUME NEW w \in Workers, Commit(w) PROVE LeftOf(v)'
  BY <1>5 DEF Commit, End
<1>6. ASSUME NEW w \in Workers, Crash(w) PROVE LeftOf(v)'
  BY <1>6 DEF Crash, End
<1>7. ASSUME NEW w \in Workers, NEW i \in Rows, Refuse(w, i) PROVE LeftOf(v)'
  BY <1>7 DEF Refuse, AtRow, Unlocked, TakeLock, Skip
<1>8. ASSUME NEW w \in Workers, NEW i \in Rows, DiscardRow(w, i) PROVE LeftOf(v)'
  BY <1>8 DEF DiscardRow, AtRow, Unlocked, TakeLock, Skip
<1>9. ASSUME NEW w \in Workers, NEW i \in Rows, LoadRow(w, i) PROVE LeftOf(v)'
  BY <1>9 DEF LoadRow, AtRow, Unlocked, TakeLock
<1>10. ASSUME NEW w \in Workers, NEW i \in Rows, RowBusy(w, i) PROVE LeftOf(v)'
  BY <1>10 DEF RowBusy, AtRow, Unlocked, Skip
<1>11. ASSUME NEW w \in Workers, NEW r \in Routes, SendSucceeds(w, r) PROVE LeftOf(v)'
  BY <1>11 DEF SendSucceeds
<1>12. ASSUME NEW w \in Workers, NEW r \in Routes, SendFails(w, r) PROVE LeftOf(v)'
  BY <1>12 DEF SendFails, IsRequired
<1>13. CASE RunCommits
  BY <1>13 DEF RunCommits
<1> QED
  BY <1>0, <1>1, <1>2, <1>3, <1>4, <1>5, <1>6,
     <1>7, <1>8, <1>9, <1>10, <1>11, <1>12, <1>13 DEF Next, Step

LEMMA FreshKept ==
  ASSUME TypeOK, ReachInv, [Next]_vars, NEW v \in Workers
  PROVE  FreshOf(v)'
<1> USE DEF TypeOK, ReachInv, FreshOf, database, request, txn, vars
<1>0. CASE UNCHANGED vars
  BY <1>0
<1>1. ASSUME NEW w \in Workers, Start(w) PROVE FreshOf(v)'
  BY <1>1 DEF Start
<1>2. ASSUME NEW w \in Workers, ReleaseRow(w) PROVE FreshOf(v)'
  BY <1>2 DEF ReleaseRow, Delivered, StageCheckpoint, NextRow
<1>3. ASSUME NEW w \in Workers, ReleaseFails(w) PROVE FreshOf(v)'
  BY <1>3 DEF ReleaseFails, NextRow
<1>4. ASSUME NEW w \in Workers, Break(w) PROVE FreshOf(v)'
  BY <1>4 DEF Break, End
<1>5. ASSUME NEW w \in Workers, Commit(w) PROVE FreshOf(v)'
  BY <1>5 DEF Commit, End
<1>6. ASSUME NEW w \in Workers, Crash(w) PROVE FreshOf(v)'
  BY <1>6 DEF Crash, End
<1>7. ASSUME NEW w \in Workers, NEW i \in Rows, Refuse(w, i) PROVE FreshOf(v)'
  BY <1>7 DEF Refuse, AtRow, Unlocked, TakeLock, Skip
<1>8. ASSUME NEW w \in Workers, NEW i \in Rows, DiscardRow(w, i) PROVE FreshOf(v)'
  BY <1>8 DEF DiscardRow, AtRow, Unlocked, TakeLock, Skip
<1>9. ASSUME NEW w \in Workers, NEW i \in Rows, LoadRow(w, i) PROVE FreshOf(v)'
  BY <1>9 DEF LoadRow, AtRow, Unlocked, TakeLock
<1>10. ASSUME NEW w \in Workers, NEW i \in Rows, RowBusy(w, i) PROVE FreshOf(v)'
  BY <1>10 DEF RowBusy, AtRow, Unlocked, Skip
<1>11. ASSUME NEW w \in Workers, NEW r \in Routes, SendSucceeds(w, r) PROVE FreshOf(v)'
  BY <1>11 DEF SendSucceeds
<1>12. ASSUME NEW w \in Workers, NEW r \in Routes, SendFails(w, r) PROVE FreshOf(v)'
  BY <1>12 DEF SendFails, IsRequired
<1>13. CASE RunCommits
  BY <1>13 DEF RunCommits
<1> QED
  BY <1>0, <1>1, <1>2, <1>3, <1>4, <1>5, <1>6,
     <1>7, <1>8, <1>9, <1>10, <1>11, <1>12, <1>13 DEF Next, Step

LEMMA SomeKept ==
  ASSUME TypeOK, ReachInv, [Next]_vars, NEW v \in Workers
  PROVE  SomeOf(v)'
<1> USE AcceptedStays, ReleaseAssumption DEF TypeOK, ReachInv, LeftOf, FreshOf, SomeOf, database, request, txn, vars
<1>0. CASE UNCHANGED vars
  BY <1>0
<1>1. ASSUME NEW w \in Workers, Start(w) PROVE SomeOf(v)'
  BY <1>1 DEF Start
<1>2. ASSUME NEW w \in Workers, ReleaseRow(w) PROVE SomeOf(v)'
  BY <1>2 DEF ReleaseRow, Delivered, StageCheckpoint, NextRow
<1>3. ASSUME NEW w \in Workers, ReleaseFails(w) PROVE SomeOf(v)'
  BY <1>3 DEF ReleaseFails, NextRow
<1>4. ASSUME NEW w \in Workers, Break(w) PROVE SomeOf(v)'
  BY <1>4 DEF Break, End
<1>5. ASSUME NEW w \in Workers, Commit(w) PROVE SomeOf(v)'
  BY <1>5 DEF Commit, End
<1>6. ASSUME NEW w \in Workers, Crash(w) PROVE SomeOf(v)'
  BY <1>6 DEF Crash, End
<1>7. ASSUME NEW w \in Workers, NEW i \in Rows, Refuse(w, i) PROVE SomeOf(v)'
  BY <1>7 DEF Refuse, AtRow, Unlocked, TakeLock, Skip
<1>8. ASSUME NEW w \in Workers, NEW i \in Rows, DiscardRow(w, i) PROVE SomeOf(v)'
  BY <1>8 DEF DiscardRow, AtRow, Unlocked, TakeLock, Skip
<1>9. ASSUME NEW w \in Workers, NEW i \in Rows, LoadRow(w, i) PROVE SomeOf(v)'
  BY <1>9 DEF LoadRow, AtRow, Unlocked, TakeLock
<1>10. ASSUME NEW w \in Workers, NEW i \in Rows, RowBusy(w, i) PROVE SomeOf(v)'
  BY <1>10 DEF RowBusy, AtRow, Unlocked, Skip
<1>11. ASSUME NEW w \in Workers, NEW r \in Routes, SendSucceeds(w, r) PROVE SomeOf(v)'
  BY <1>11 DEF SendSucceeds
<1>12. ASSUME NEW w \in Workers, NEW r \in Routes, SendFails(w, r) PROVE SomeOf(v)'
  BY <1>12 DEF SendFails, IsRequired
<1>13. CASE RunCommits
  BY <1>13 DEF RunCommits
<1> QED
  BY <1>0, <1>1, <1>2, <1>3, <1>4, <1>5, <1>6,
     <1>7, <1>8, <1>9, <1>10, <1>11, <1>12, <1>13 DEF Next, Step

LEMMA RequiredKept ==
  ASSUME TypeOK, ReachInv, [Next]_vars, NEW v \in Workers
  PROVE  RequiredOf(v)'
<1> USE AcceptedStays, ReleaseAssumption DEF TypeOK, ReachInv, LeftOf, FreshOf, RequiredOf, database, request, txn, vars
<1>0. CASE UNCHANGED vars
  BY <1>0
<1>1. ASSUME NEW w \in Workers, Start(w) PROVE RequiredOf(v)'
  BY <1>1 DEF Start
<1>2. ASSUME NEW w \in Workers, ReleaseRow(w) PROVE RequiredOf(v)'
  BY <1>2 DEF ReleaseRow, Delivered, StageCheckpoint, NextRow
<1>3. ASSUME NEW w \in Workers, ReleaseFails(w) PROVE RequiredOf(v)'
  BY <1>3 DEF ReleaseFails, NextRow
<1>4. ASSUME NEW w \in Workers, Break(w) PROVE RequiredOf(v)'
  BY <1>4 DEF Break, End
<1>5. ASSUME NEW w \in Workers, Commit(w) PROVE RequiredOf(v)'
  BY <1>5 DEF Commit, End
<1>6. ASSUME NEW w \in Workers, Crash(w) PROVE RequiredOf(v)'
  BY <1>6 DEF Crash, End
<1>7. ASSUME NEW w \in Workers, NEW i \in Rows, Refuse(w, i) PROVE RequiredOf(v)'
  BY <1>7 DEF Refuse, AtRow, Unlocked, TakeLock, Skip
<1>8. ASSUME NEW w \in Workers, NEW i \in Rows, DiscardRow(w, i) PROVE RequiredOf(v)'
  BY <1>8 DEF DiscardRow, AtRow, Unlocked, TakeLock, Skip
<1>9. ASSUME NEW w \in Workers, NEW i \in Rows, LoadRow(w, i) PROVE RequiredOf(v)'
  BY <1>9 DEF LoadRow, AtRow, Unlocked, TakeLock
<1>10. ASSUME NEW w \in Workers, NEW i \in Rows, RowBusy(w, i) PROVE RequiredOf(v)'
  BY <1>10 DEF RowBusy, AtRow, Unlocked, Skip
<1>11. ASSUME NEW w \in Workers, NEW r \in Routes, SendSucceeds(w, r) PROVE RequiredOf(v)'
  BY <1>11 DEF SendSucceeds
<1>12. ASSUME NEW w \in Workers, NEW r \in Routes, SendFails(w, r) PROVE RequiredOf(v)'
  BY <1>12 DEF SendFails, IsRequired
<1>13. CASE RunCommits
  BY <1>13 DEF RunCommits
<1> QED
  BY <1>0, <1>1, <1>2, <1>3, <1>4, <1>5, <1>6,
     <1>7, <1>8, <1>9, <1>10, <1>11, <1>12, <1>13 DEF Next, Step

LEMMA StagedKept ==
  ASSUME TypeOK, LockInv, ReachInv, [Next]_vars, NEW v \in Workers
  PROVE  StagedOf(v)'
<1> USE ReachedStays DEF TypeOK, LockInv, SendingLocked, IdleClean, ReachInv, StagedOf, database, request, txn, vars
<1>0. CASE UNCHANGED vars
  BY <1>0
<1>1. ASSUME NEW w \in Workers, Start(w) PROVE StagedOf(v)'
  BY <1>1 DEF Start
<1>2. ASSUME NEW w \in Workers, ReleaseRow(w) PROVE StagedOf(v)'
  <2>1. CASE v = w
    <3>1. Reached(cur[w])
      BY <1>2 DEF ReleaseRow, Delivered, Reached, SomeOf, RequiredOf
    <3>2. staged'[w] = staged[w] \cup {cur[w]} /\ kind' = kind
      BY <1>2 DEF ReleaseRow, NextRow
    <3> QED
      BY <2>1, <3>1, <3>2
  <2>2. CASE v # w
    BY <1>2, <2>2 DEF ReleaseRow, NextRow
  <2> QED
    BY <2>1, <2>2
<1>3. ASSUME NEW w \in Workers, ReleaseFails(w) PROVE StagedOf(v)'
  BY <1>3 DEF ReleaseFails, NextRow
<1>4. ASSUME NEW w \in Workers, Break(w) PROVE StagedOf(v)'
  BY <1>4 DEF Break, End
<1>5. ASSUME NEW w \in Workers, Commit(w) PROVE StagedOf(v)'
  BY <1>5 DEF Commit, End
<1>6. ASSUME NEW w \in Workers, Crash(w) PROVE StagedOf(v)'
  BY <1>6 DEF Crash, End
<1>7. ASSUME NEW w \in Workers, NEW i \in Rows, Refuse(w, i) PROVE StagedOf(v)'
  BY <1>7 DEF Refuse, AtRow, Unlocked, TakeLock, Skip
<1>8. ASSUME NEW w \in Workers, NEW i \in Rows, DiscardRow(w, i) PROVE StagedOf(v)'
  BY <1>8 DEF DiscardRow, AtRow, Unlocked, TakeLock, Skip
<1>9. ASSUME NEW w \in Workers, NEW i \in Rows, LoadRow(w, i) PROVE StagedOf(v)'
  BY <1>9 DEF LoadRow, AtRow, Unlocked, TakeLock
<1>10. ASSUME NEW w \in Workers, NEW i \in Rows, RowBusy(w, i) PROVE StagedOf(v)'
  BY <1>10 DEF RowBusy, AtRow, Unlocked, Skip
<1>11. ASSUME NEW w \in Workers, NEW r \in Routes, SendSucceeds(w, r) PROVE StagedOf(v)'
  BY <1>11 DEF SendSucceeds
<1>12. ASSUME NEW w \in Workers, NEW r \in Routes, SendFails(w, r) PROVE StagedOf(v)'
  BY <1>12 DEF SendFails, IsRequired
<1>13. CASE RunCommits
  BY <1>13 DEF RunCommits
<1> QED
  BY <1>0, <1>1, <1>2, <1>3, <1>4, <1>5, <1>6,
     <1>7, <1>8, <1>9, <1>10, <1>11, <1>12, <1>13 DEF Next, Step

\* A staged checkpoint is the position of a row staged with it.
CheckpointInv ==
    \A w \in Workers : stagedCp[w] # 0 =>
        kind[w] = "release" /\ \E i \in staged[w] : Position[i] = stagedCp[w]

LEMMA CheckpointKept ==
  ASSUME TypeOK, LockInv, CheckpointInv, [Next]_vars
  PROVE  CheckpointInv'
<1> USE ReleaseAssumption DEF TypeOK, LockInv, SendingLocked, IdleClean, CheckpointInv, database, request, txn, vars
<1>0. CASE UNCHANGED vars
  BY <1>0
<1>1. ASSUME NEW w \in Workers, Start(w) PROVE CheckpointInv'
  BY <1>1 DEF Start
<1>2. ASSUME NEW w \in Workers, ReleaseRow(w) PROVE CheckpointInv'
  BY <1>2 DEF ReleaseRow, Delivered, StageCheckpoint, NextRow
<1>3. ASSUME NEW w \in Workers, ReleaseFails(w) PROVE CheckpointInv'
  BY <1>3 DEF ReleaseFails, NextRow
<1>4. ASSUME NEW w \in Workers, Break(w) PROVE CheckpointInv'
  BY <1>4 DEF Break, End
<1>5. ASSUME NEW w \in Workers, Commit(w) PROVE CheckpointInv'
  BY <1>5 DEF Commit, End
<1>6. ASSUME NEW w \in Workers, Crash(w) PROVE CheckpointInv'
  BY <1>6 DEF Crash, End
<1>7. ASSUME NEW w \in Workers, NEW i \in Rows, Refuse(w, i) PROVE CheckpointInv'
  BY <1>7 DEF Refuse, AtRow, Unlocked, TakeLock, Skip
<1>8. ASSUME NEW w \in Workers, NEW i \in Rows, DiscardRow(w, i) PROVE CheckpointInv'
  BY <1>8 DEF DiscardRow, AtRow, Unlocked, TakeLock, Skip
<1>9. ASSUME NEW w \in Workers, NEW i \in Rows, LoadRow(w, i) PROVE CheckpointInv'
  BY <1>9 DEF LoadRow, AtRow, Unlocked, TakeLock
<1>10. ASSUME NEW w \in Workers, NEW i \in Rows, RowBusy(w, i) PROVE CheckpointInv'
  BY <1>10 DEF RowBusy, AtRow, Unlocked, Skip
<1>11. ASSUME NEW w \in Workers, NEW r \in Routes, SendSucceeds(w, r) PROVE CheckpointInv'
  BY <1>11 DEF SendSucceeds
<1>12. ASSUME NEW w \in Workers, NEW r \in Routes, SendFails(w, r) PROVE CheckpointInv'
  BY <1>12 DEF SendFails, IsRequired
<1>13. CASE RunCommits
  BY <1>13 DEF RunCommits
<1> QED
  BY <1>0, <1>1, <1>2, <1>3, <1>4, <1>5, <1>6,
     <1>7, <1>8, <1>9, <1>10, <1>11, <1>12, <1>13 DEF Next, Step

LEMMA ReleasedKept ==
  ASSUME TypeOK, LockInv, ReachInv, ReleasedReachesRequired, [Next]_vars
  PROVE  ReleasedReachesRequired'
<1> SUFFICES ASSUME NEW j \in Rows, status'[j] = "released"
             PROVE  Reached(j)'
  BY DEF ReleasedReachesRequired, Reached
<1>a. status[j] = "released" => Reached(j)'
  BY ReachedStays DEF ReleasedReachesRequired, Reached
<1> USE <1>a DEF TypeOK, LockInv, ReachInv, StagedOf, database, request, txn, vars
<1>0. CASE UNCHANGED vars
  BY <1>0
<1>1. ASSUME NEW w \in Workers, Start(w) PROVE Reached(j)'
  BY <1>1 DEF Start
<1>2. ASSUME NEW w \in Workers, ReleaseRow(w) PROVE Reached(j)'
  BY <1>2 DEF ReleaseRow, Delivered, StageCheckpoint, NextRow
<1>3. ASSUME NEW w \in Workers, ReleaseFails(w) PROVE Reached(j)'
  BY <1>3 DEF ReleaseFails, NextRow
<1>4. ASSUME NEW w \in Workers, Break(w) PROVE Reached(j)'
  BY <1>4 DEF Break, End
<1>5. ASSUME NEW w \in Workers, Commit(w) PROVE Reached(j)'
  <2>1. CASE status'[j] = status[j]
    BY <2>1
  <2>2. CASE j \in staged[w] /\ kind[w] = "release"
    BY <2>2, ReachedStays
  <2> QED
    BY <1>5, <2>1, <2>2, CommitStatus
<1>6. ASSUME NEW w \in Workers, Crash(w) PROVE Reached(j)'
  BY <1>6 DEF Crash, End
<1>7. ASSUME NEW w \in Workers, NEW i \in Rows, Refuse(w, i) PROVE Reached(j)'
  BY <1>7 DEF Refuse, AtRow, Unlocked, TakeLock, Skip
<1>8. ASSUME NEW w \in Workers, NEW i \in Rows, DiscardRow(w, i) PROVE Reached(j)'
  BY <1>8 DEF DiscardRow, AtRow, Unlocked, TakeLock, Skip
<1>9. ASSUME NEW w \in Workers, NEW i \in Rows, LoadRow(w, i) PROVE Reached(j)'
  BY <1>9 DEF LoadRow, AtRow, Unlocked, TakeLock
<1>10. ASSUME NEW w \in Workers, NEW i \in Rows, RowBusy(w, i) PROVE Reached(j)'
  BY <1>10 DEF RowBusy, AtRow, Unlocked, Skip
<1>11. ASSUME NEW w \in Workers, NEW r \in Routes, SendSucceeds(w, r) PROVE Reached(j)'
  BY <1>11 DEF SendSucceeds
<1>12. ASSUME NEW w \in Workers, NEW r \in Routes, SendFails(w, r) PROVE Reached(j)'
  BY <1>12 DEF SendFails, IsRequired
<1>13. CASE RunCommits
  BY <1>13 DEF RunCommits
<1> QED
  BY <1>0, <1>1, <1>2, <1>3, <1>4, <1>5, <1>6,
     <1>7, <1>8, <1>9, <1>10, <1>11, <1>12, <1>13 DEF Next, Step

IInv == TypeOK /\ LockInv /\ ReachInv /\ CheckpointInv /\ ReleasedReachesRequired

LEMMA InvHolds == Spec => []IInv
<1>1. Init => IInv
  BY TypesStart DEF Init, IInv, LockInv, StagedLocked, SendingLocked, IdleClean, ReachInv, LeftOf,
     FreshOf, SomeOf, RequiredOf, StagedOf, CheckpointInv, ReleasedReachesRequired
<1>2. IInv /\ [Next]_vars => IInv'
  <2> SUFFICES ASSUME IInv, [Next]_vars PROVE IInv'
    OBVIOUS
  <2>1. LockInv'
    BY StagedStaysLocked, SendingStaysLocked, IdleStaysClean DEF IInv, LockInv
  <2>2. ReachInv'
    BY LeftKept, FreshKept, SomeKept, RequiredKept, StagedKept DEF IInv, ReachInv
  <2> QED
    BY <2>1, <2>2, TypesKept, CheckpointKept, ReleasedKept DEF IInv
<1> QED
  BY <1>1, <1>2, PTL DEF Spec

\* Whatever else is locked, retried or rolled back, a released batch reached
\* every required route (deliver_protected_events_to_routes).
THEOREM ReleaseReaches == Spec => []ReleasedReachesRequired
<1>1. IInv => ReleasedReachesRequired
  BY DEF IInv
<1> QED
  BY <1>1, InvHolds, PTL

-----------------------------------------------------------------------------
(* Steps *)

\* Only a release whose transaction locks the row sends it.
LEMMA SentOnlyLocked ==
  ASSUME IInv, [Next]_vars, NEW j \in Rows, NEW q \in Routes,
         <<j, q>> \in accepted' \ accepted
  PROVE  status[j] = "quarantined"
<1> DEFINE Goal == status[j] = "quarantined"
<1> USE DEF IInv, TypeOK, LockInv, SendingLocked, database, request, txn, vars
<1>0. CASE UNCHANGED vars
  BY <1>0
<1>1. ASSUME NEW w \in Workers, Start(w) PROVE Goal
  BY <1>1 DEF Start
<1>2. ASSUME NEW w \in Workers, ReleaseRow(w) PROVE Goal
  BY <1>2 DEF ReleaseRow, Delivered, StageCheckpoint, NextRow
<1>3. ASSUME NEW w \in Workers, ReleaseFails(w) PROVE Goal
  BY <1>3 DEF ReleaseFails, NextRow
<1>4. ASSUME NEW w \in Workers, Break(w) PROVE Goal
  BY <1>4 DEF Break, End
<1>5. ASSUME NEW w \in Workers, Commit(w) PROVE Goal
  BY <1>5 DEF Commit, End
<1>6. ASSUME NEW w \in Workers, Crash(w) PROVE Goal
  BY <1>6 DEF Crash, End
<1>7. ASSUME NEW w \in Workers, NEW i \in Rows, Refuse(w, i) PROVE Goal
  BY <1>7 DEF Refuse, AtRow, Unlocked, TakeLock, Skip
<1>8. ASSUME NEW w \in Workers, NEW i \in Rows, DiscardRow(w, i) PROVE Goal
  BY <1>8 DEF DiscardRow, AtRow, Unlocked, TakeLock, Skip
<1>9. ASSUME NEW w \in Workers, NEW i \in Rows, LoadRow(w, i) PROVE Goal
  BY <1>9 DEF LoadRow, AtRow, Unlocked, TakeLock
<1>10. ASSUME NEW w \in Workers, NEW i \in Rows, RowBusy(w, i) PROVE Goal
  BY <1>10 DEF RowBusy, AtRow, Unlocked, Skip
<1>11. ASSUME NEW w \in Workers, NEW r \in Routes, SendSucceeds(w, r) PROVE Goal
  BY <1>11 DEF SendSucceeds
<1>12. ASSUME NEW w \in Workers, NEW r \in Routes, SendFails(w, r) PROVE Goal
  BY <1>12 DEF SendFails, IsRequired
<1>13. CASE RunCommits
  BY <1>13 DEF RunCommits
<1> QED
  BY <1>0, <1>1, <1>2, <1>3, <1>4, <1>5, <1>6,
     <1>7, <1>8, <1>9, <1>10, <1>11, <1>12, <1>13 DEF Next, Step

\* No settled row is sent again, by any request (lines 279-391).
THEOREM SettledStaysUnsent == Spec => SettledIsNotSent
<1>1. IInv /\ [Next]_vars =>
        [\A i \in Rows, r \in Routes :
            <<i, r>> \in accepted' \ accepted => status[i] = "quarantined"]_vars
  BY SentOnlyLocked
<1> QED
  BY <1>1, InvHolds, PTL DEF Spec, SettledIsNotSent

LEMMA BackStep ==
  ASSUME IInv, [Next]_vars, checkpoint' < checkpoint
  PROVE  \E i \in Rows : /\ status[i] = "quarantined" /\ status'[i] = "released"
                         /\ checkpoint' = Position[i]
<1> DEFINE Goal == \E i \in Rows : /\ status[i] = "quarantined" /\ status'[i] = "released"
                                   /\ checkpoint' = Position[i]
<1> USE ReleaseAssumption DEF IInv, TypeOK, LockInv, StagedLocked, CheckpointInv, database, request, txn, vars
<1>0. CASE UNCHANGED vars
  BY <1>0
<1>1. ASSUME NEW w \in Workers, Start(w) PROVE Goal
  BY <1>1 DEF Start
<1>2. ASSUME NEW w \in Workers, ReleaseRow(w) PROVE Goal
  BY <1>2 DEF ReleaseRow, Delivered, StageCheckpoint, NextRow
<1>3. ASSUME NEW w \in Workers, ReleaseFails(w) PROVE Goal
  BY <1>3 DEF ReleaseFails, NextRow
<1>4. ASSUME NEW w \in Workers, Break(w) PROVE Goal
  BY <1>4 DEF Break, End
<1>5. ASSUME NEW w \in Workers, Commit(w) PROVE Goal
  BY <1>5 DEF Commit, End
<1>6. ASSUME NEW w \in Workers, Crash(w) PROVE Goal
  BY <1>6 DEF Crash, End
<1>7. ASSUME NEW w \in Workers, NEW i \in Rows, Refuse(w, i) PROVE Goal
  BY <1>7 DEF Refuse, AtRow, Unlocked, TakeLock, Skip
<1>8. ASSUME NEW w \in Workers, NEW i \in Rows, DiscardRow(w, i) PROVE Goal
  BY <1>8 DEF DiscardRow, AtRow, Unlocked, TakeLock, Skip
<1>9. ASSUME NEW w \in Workers, NEW i \in Rows, LoadRow(w, i) PROVE Goal
  BY <1>9 DEF LoadRow, AtRow, Unlocked, TakeLock
<1>10. ASSUME NEW w \in Workers, NEW i \in Rows, RowBusy(w, i) PROVE Goal
  BY <1>10 DEF RowBusy, AtRow, Unlocked, Skip
<1>11. ASSUME NEW w \in Workers, NEW r \in Routes, SendSucceeds(w, r) PROVE Goal
  BY <1>11 DEF SendSucceeds
<1>12. ASSUME NEW w \in Workers, NEW r \in Routes, SendFails(w, r) PROVE Goal
  BY <1>12 DEF SendFails, IsRequired
<1>13. CASE RunCommits
  BY <1>13 DEF RunCommits
<1> QED
  BY <1>0, <1>1, <1>2, <1>3, <1>4, <1>5, <1>6,
     <1>7, <1>8, <1>9, <1>10, <1>11, <1>12, <1>13 DEF Next, Step

\* The checkpoint moves back only with the release of the row it moves to.
THEOREM BackWithRelease == Spec => BackOnlyWithRelease
<1>1. IInv /\ [Next]_vars =>
        [checkpoint' < checkpoint =>
            \E i \in Rows : /\ status[i] = "quarantined" /\ status'[i] = "released"
                            /\ checkpoint' = Position[i]]_vars
  BY BackStep
<1> QED
  BY <1>1, InvHolds, PTL DEF Spec, BackOnlyWithRelease

-----------------------------------------------------------------------------
(* Refinement *)

LEMMA HeldStep ==
  ASSUME IInv, [Next]_vars, NEW j \in Rows
  PROVE  Held(j)!Next \/ UNCHANGED Held(j)!vars
<1> DEFINE Goal == Held(j)!Next \/ UNCHANGED Held(j)!vars
<1> USE DEF IInv, TypeOK, LockInv, StagedLocked, SendingLocked, ReachInv, StagedOf, Reached, database, request, txn, vars,
       Held!Next, Held!vars, Held!Accept, Held!Deliver, Held!Discard
<1>0. CASE UNCHANGED vars
  BY <1>0
<1>1. ASSUME NEW w \in Workers, Start(w) PROVE Goal
  BY <1>1 DEF Start
<1>2. ASSUME NEW w \in Workers, ReleaseRow(w) PROVE Goal
  BY <1>2 DEF ReleaseRow, Delivered, StageCheckpoint, NextRow
<1>3. ASSUME NEW w \in Workers, ReleaseFails(w) PROVE Goal
  BY <1>3 DEF ReleaseFails, NextRow
<1>4. ASSUME NEW w \in Workers, Break(w) PROVE Goal
  BY <1>4 DEF Break, End
<1>5. ASSUME NEW w \in Workers, Commit(w) PROVE Goal
  <2>1. accepted' = accepted
    BY <1>5 DEF Commit
  <2>2. CASE status'[j] = status[j]
    BY <2>1, <2>2
  <2>3. CASE /\ j \in staged[w] /\ kind[w] = "release" /\ status'[j] = "released"
    BY <2>1, <2>3, ReleaseAssumption
  <2>4. CASE /\ j \in staged[w] /\ kind[w] = "discard" /\ status'[j] = "discarded"
    BY <2>1, <2>4
  <2>5. kind[w] = "release" \/ kind[w] = "discard"
    OBVIOUS
  <2> HIDE DEF Goal
  <2> QED
    BY <1>5, <2>2, <2>3, <2>4, <2>5, CommitStatus
<1>6. ASSUME NEW w \in Workers, Crash(w) PROVE Goal
  BY <1>6 DEF Crash, End
<1>7. ASSUME NEW w \in Workers, NEW i \in Rows, Refuse(w, i) PROVE Goal
  BY <1>7 DEF Refuse, AtRow, Unlocked, TakeLock, Skip
<1>8. ASSUME NEW w \in Workers, NEW i \in Rows, DiscardRow(w, i) PROVE Goal
  BY <1>8 DEF DiscardRow, AtRow, Unlocked, TakeLock, Skip
<1>9. ASSUME NEW w \in Workers, NEW i \in Rows, LoadRow(w, i) PROVE Goal
  BY <1>9 DEF LoadRow, AtRow, Unlocked, TakeLock
<1>10. ASSUME NEW w \in Workers, NEW i \in Rows, RowBusy(w, i) PROVE Goal
  BY <1>10 DEF RowBusy, AtRow, Unlocked, Skip
<1>11. ASSUME NEW w \in Workers, NEW r \in Routes, SendSucceeds(w, r) PROVE Goal
  BY <1>11 DEF SendSucceeds
<1>12. ASSUME NEW w \in Workers, NEW r \in Routes, SendFails(w, r) PROVE Goal
  BY <1>12 DEF SendFails, IsRequired
<1>13. CASE RunCommits
  BY <1>13 DEF RunCommits
<1> QED
  BY <1>0, <1>1, <1>2, <1>3, <1>4, <1>5, <1>6,
     <1>7, <1>8, <1>9, <1>10, <1>11, <1>12, <1>13 DEF Next, Step

\* Every row keeps what is promised of a held batch.
THEOREM ReleaseRefinesHeld == Spec => ImplementsHeldBatch
<1>1. Init => \A i \in Rows : Held(i)!Init
  BY DEF Init, Held!Init
<1>2. IInv /\ [Next]_vars => [\A i \in Rows : Held(i)!Next \/ UNCHANGED Held(i)!vars]_vars
  BY HeldStep
<1> QED
  BY <1>1, <1>2, InvHolds, PTL DEF Spec, ImplementsHeldBatch

=============================================================================
