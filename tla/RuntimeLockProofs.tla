-------------------------- MODULE RuntimeLockProofs --------------------------
(***************************************************************************)
(* Proofs about RuntimeLock, for every set of threads and processes.  Runs *)
(* exclude each other as long as all processes use one lock directory and  *)
(* nobody unlinks lock files: then every open file is the one inode that   *)
(* the path names, and its advisory lock has one holder.                   *)
(***************************************************************************)
EXTENDS RuntimeLock, TLAPS

OneDirectory == \A p, q \in Processes : LockDir[p] = LockDir[q]

\* What the processes share is well-typed.
LEMMA Shapes ==
    /\ Nobody \notin Threads /\ NoLock \notin Locks /\ NoFile \notin Files
    /\ \A t \in Threads : ProcOf[t] \in Processes /\ LockDir[ProcOf[t]] \in Dirs
  BY ThreadsAssumption

\* Every step keeps the types, whatever the faults and the cleaners.
LEMMA TypesKept == TypeOK /\ [Next]_vars => TypeOK'
<1> SUFFICES ASSUME TypeOK, [Next]_vars PROVE TypeOK'
  OBVIOUS
<1> USE Shapes
<1>0. CASE UNCHANGED vars
  BY <1>0 DEF vars, TypeOK
<1>1. ASSUME NEW t \in Threads, GetLock(t) PROVE TypeOK'
  BY <1>1 DEF GetLock, TypeOK, Steps, InRun, FreshLocks, Process
<1>2. ASSUME NEW t \in Threads, AcquireThreadLock(t) PROVE TypeOK'
  BY <1>2 DEF AcquireThreadLock, TypeOK, Steps, InRun
<1>3. ASSUME NEW t \in Threads, ThreadLockBusy(t) PROVE TypeOK'
  BY <1>3 DEF ThreadLockBusy, TypeOK, Steps, InRun
<1>4. ASSUME NEW t \in Threads, HandleHeld(t) PROVE TypeOK'
  BY <1>4 DEF HandleHeld, GiveUp, TypeOK, Steps, InRun
<1>5. ASSUME NEW t \in Threads, OpenFile(t) PROVE TypeOK'
  BY <1>5 DEF OpenFile, OpensFile, FreshFiles, TypeOK, Steps, InRun, Dir, Process
<1>6. ASSUME NEW t \in Threads, TakeFlock(t) PROVE TypeOK'
  BY <1>6 DEF TakeFlock, TypeOK, Steps, InRun, Process
<1>7. ASSUME NEW t \in Threads, FlockBusy(t) PROVE TypeOK'
  BY <1>7 DEF FlockBusy, GiveUp, TypeOK, Steps, InRun, Process
<1>8. ASSUME NEW t \in Threads, OpenFails(t) PROVE TypeOK'
  BY <1>8 DEF OpenFails, TypeOK, Steps, InRun
<1>9. ASSUME NEW t \in Threads, PopHandle(t) PROVE TypeOK'
  BY <1>9 DEF PopHandle, TypeOK, Steps, InRun, Process
<1>10. ASSUME NEW t \in Threads, DropFlock(t) PROVE TypeOK'
  BY <1>10 DEF DropFlock, TypeOK, Steps, InRun
<1>11. ASSUME NEW t \in Threads, ReleaseThreadLock(t) PROVE TypeOK'
  BY <1>11 DEF ReleaseThreadLock, GiveUp, TypeOK, Steps, InRun
<1>12. ASSUME NEW t \in Threads, ProbeOpen(t) PROVE TypeOK'
  BY <1>12 DEF ProbeOpen, OpensFile, FreshFiles, TypeOK, Steps, InRun, Dir, Process
<1>13. ASSUME NEW t \in Threads, ProbeFails(t) PROVE TypeOK'
  BY <1>13 DEF ProbeFails, TypeOK, Steps, InRun
<1>14. ASSUME NEW t \in Threads, AnswerHeld(t) PROVE TypeOK'
  BY <1>14 DEF AnswerHeld, TypeOK, Steps, InRun
<1>15. ASSUME NEW t \in Threads, ProbeLocks(t) PROVE TypeOK'
  BY <1>15 DEF ProbeLocks, TypeOK, Steps, InRun
<1>16. ASSUME NEW t \in Threads, AnswerFree(t) PROVE TypeOK'
  BY <1>16 DEF AnswerFree, TypeOK, Steps, InRun
<1>17. ASSUME NEW t \in Threads, Answered(t) PROVE TypeOK'
  BY <1>17 DEF Answered, TypeOK, Steps, InRun
<1>18. ASSUME NEW t \in Threads, Unlink(t) PROVE TypeOK'
  BY <1>18 DEF Unlink, TypeOK, Steps, InRun
<1>19. ASSUME NEW p \in Processes, Discard(p) PROVE TypeOK'
  BY <1>19 DEF Discard, TypeOK, Steps, InRun
<1>20. ASSUME NEW p \in Processes, Crash(p) PROVE TypeOK'
  BY <1>20 DEF Crash, TypeOK, Steps, InRun
<1> QED
  BY <1>0, <1>1, <1>2, <1>3, <1>4, <1>5, <1>6, <1>7, <1>8, <1>9, <1>10, <1>11,
     <1>12,
     <1>13, <1>14, <1>15, <1>16, <1>17, <1>18, <1>19, <1>20
     DEF Next, RunStep, ProbeStep

LEMMA TypesStart == Init => TypeOK
  BY Shapes DEF Init, TypeOK, Steps, InRun

\* Every reachable state of the locks is well-typed.
THEOREM LockTypes == Spec => []TypeOK
  BY TypesStart, TypesKept, PTL DEF Spec

-----------------------------------------------------------------------------
(* Exclusion *)

\* With one directory and no unlinking, every step keeps the open files on the
\* inode the path names.
LEMMA FilesKept ==
  ASSUME OneDirectory, Cleaners = {}, TypeOK, OpenFilesAreCurrent, [Next]_vars
  PROVE  OpenFilesAreCurrent'
<1> USE Shapes DEF OneDirectory
<1>0. CASE UNCHANGED vars
  BY <1>0 DEF vars, OpenFilesAreCurrent, TypeOK, Dir
<1>1. ASSUME NEW t \in Threads, GetLock(t) PROVE OpenFilesAreCurrent'
  BY <1>1 DEF GetLock, OpenFilesAreCurrent, TypeOK, Dir
<1>2. ASSUME NEW t \in Threads, AcquireThreadLock(t) PROVE OpenFilesAreCurrent'
  BY <1>2 DEF AcquireThreadLock, OpenFilesAreCurrent, TypeOK, Dir
<1>3. ASSUME NEW t \in Threads, ThreadLockBusy(t) PROVE OpenFilesAreCurrent'
  BY <1>3 DEF ThreadLockBusy, OpenFilesAreCurrent, TypeOK, Dir
<1>4. ASSUME NEW t \in Threads, HandleHeld(t) PROVE OpenFilesAreCurrent'
  BY <1>4 DEF HandleHeld, GiveUp, OpenFilesAreCurrent, TypeOK, Dir
<1>5. ASSUME NEW t \in Threads, OpenFile(t) PROVE OpenFilesAreCurrent'
  BY <1>5 DEF OpenFile, OpensFile, OpenFilesAreCurrent, TypeOK, Dir
<1>6. ASSUME NEW t \in Threads, TakeFlock(t) PROVE OpenFilesAreCurrent'
  BY <1>6 DEF TakeFlock, FlockAvailable, OpenFilesAreCurrent, TypeOK, Dir
<1>7. ASSUME NEW t \in Threads, FlockBusy(t) PROVE OpenFilesAreCurrent'
  BY <1>7 DEF FlockBusy, GiveUp, OpenFilesAreCurrent, TypeOK, Dir
<1>8. ASSUME NEW t \in Threads, OpenFails(t) PROVE OpenFilesAreCurrent'
  BY <1>8 DEF OpenFails, OpenFilesAreCurrent, TypeOK, Dir
<1>9. ASSUME NEW t \in Threads, PopHandle(t) PROVE OpenFilesAreCurrent'
  BY <1>9 DEF PopHandle, OpenFilesAreCurrent, TypeOK, Dir
<1>10. ASSUME NEW t \in Threads, DropFlock(t) PROVE OpenFilesAreCurrent'
  BY <1>10 DEF DropFlock, OpenFilesAreCurrent, TypeOK, Dir
<1>11. ASSUME NEW t \in Threads, ReleaseThreadLock(t) PROVE OpenFilesAreCurrent'
  BY <1>11 DEF ReleaseThreadLock, GiveUp, OpenFilesAreCurrent, TypeOK, Dir
<1>12. ASSUME NEW t \in Threads, ProbeOpen(t) PROVE OpenFilesAreCurrent'
  BY <1>12 DEF ProbeOpen, OpensFile, OpenFilesAreCurrent, TypeOK, Dir
<1>13. ASSUME NEW t \in Threads, ProbeFails(t) PROVE OpenFilesAreCurrent'
  BY <1>13 DEF ProbeFails, OpenFilesAreCurrent, TypeOK, Dir
<1>14. ASSUME NEW t \in Threads, AnswerHeld(t) PROVE OpenFilesAreCurrent'
  BY <1>14 DEF AnswerHeld, OpenFilesAreCurrent, TypeOK, Dir
<1>15. ASSUME NEW t \in Threads, ProbeLocks(t) PROVE OpenFilesAreCurrent'
  BY <1>15 DEF ProbeLocks, FlockAvailable, OpenFilesAreCurrent, TypeOK, Dir
<1>16. ASSUME NEW t \in Threads, AnswerFree(t) PROVE OpenFilesAreCurrent'
  BY <1>16 DEF AnswerFree, OpenFilesAreCurrent, TypeOK, Dir
<1>17. ASSUME NEW t \in Threads, Answered(t) PROVE OpenFilesAreCurrent'
  BY <1>17 DEF Answered, OpenFilesAreCurrent, TypeOK, Dir
<1>18. ASSUME NEW t \in Threads, Unlink(t) PROVE OpenFilesAreCurrent'
  BY <1>18 DEF Unlink, OpenFilesAreCurrent, TypeOK, Dir
<1>19. ASSUME NEW p \in Processes, Discard(p) PROVE OpenFilesAreCurrent'
  BY <1>19 DEF Discard, OpenFilesAreCurrent, TypeOK, Dir
<1>20. ASSUME NEW p \in Processes, Crash(p) PROVE OpenFilesAreCurrent'
  BY <1>20 DEF Crash, OpenFilesAreCurrent, TypeOK, Dir
<1> QED
  BY <1>0, <1>1, <1>2, <1>3, <1>4, <1>5, <1>6, <1>7, <1>8, <1>9, <1>10,
     <1>11, <1>12, <1>13, <1>14, <1>15, <1>16, <1>17, <1>18, <1>19, <1>20
     DEF Next, RunStep, ProbeStep

\* ... and every owner and every probe on the lock of its file.
LEMMA HoldersKept ==
  ASSUME OneDirectory, Cleaners = {}, TypeOK, TypeOK', HoldersHaveFlock, [Next]_vars
  PROVE  HoldersHaveFlock'
<1> USE Shapes
<1>0. CASE UNCHANGED vars
  BY <1>0 DEF vars, HoldersHaveFlock, Owning, TypeOK
<1>1. ASSUME NEW t \in Threads, GetLock(t) PROVE HoldersHaveFlock'
  BY <1>1 DEF GetLock, HoldersHaveFlock, Owning, TypeOK
<1>2. ASSUME NEW t \in Threads, AcquireThreadLock(t) PROVE HoldersHaveFlock'
  BY <1>2 DEF AcquireThreadLock, HoldersHaveFlock, Owning, TypeOK
<1>3. ASSUME NEW t \in Threads, ThreadLockBusy(t) PROVE HoldersHaveFlock'
  BY <1>3 DEF ThreadLockBusy, HoldersHaveFlock, Owning, TypeOK
<1>4. ASSUME NEW t \in Threads, HandleHeld(t) PROVE HoldersHaveFlock'
  BY <1>4 DEF HandleHeld, GiveUp, HoldersHaveFlock, Owning, TypeOK
<1>5. ASSUME NEW t \in Threads, OpenFile(t) PROVE HoldersHaveFlock'
  BY <1>5 DEF OpenFile, OpensFile, HoldersHaveFlock, Owning, TypeOK
<1>6. ASSUME NEW t \in Threads, TakeFlock(t) PROVE HoldersHaveFlock'
  BY <1>6 DEF TakeFlock, FlockAvailable, HoldersHaveFlock, Owning, TypeOK
<1>7. ASSUME NEW t \in Threads, FlockBusy(t) PROVE HoldersHaveFlock'
  BY <1>7 DEF FlockBusy, GiveUp, HoldersHaveFlock, Owning, TypeOK
<1>8. ASSUME NEW t \in Threads, OpenFails(t) PROVE HoldersHaveFlock'
  BY <1>8 DEF OpenFails, HoldersHaveFlock, Owning, TypeOK
<1>9. ASSUME NEW t \in Threads, PopHandle(t) PROVE HoldersHaveFlock'
  BY <1>9 DEF PopHandle, HoldersHaveFlock, Owning, TypeOK
<1>10. ASSUME NEW t \in Threads, DropFlock(t) PROVE HoldersHaveFlock'
  BY <1>10 DEF DropFlock, HoldersHaveFlock, Owning, TypeOK
<1>11. ASSUME NEW t \in Threads, ReleaseThreadLock(t) PROVE HoldersHaveFlock'
  BY <1>11 DEF ReleaseThreadLock, GiveUp, HoldersHaveFlock, Owning, TypeOK
<1>12. ASSUME NEW t \in Threads, ProbeOpen(t) PROVE HoldersHaveFlock'
  BY <1>12 DEF ProbeOpen, OpensFile, HoldersHaveFlock, Owning, TypeOK
<1>13. ASSUME NEW t \in Threads, ProbeFails(t) PROVE HoldersHaveFlock'
  BY <1>13 DEF ProbeFails, HoldersHaveFlock, Owning, TypeOK
<1>14. ASSUME NEW t \in Threads, AnswerHeld(t) PROVE HoldersHaveFlock'
  BY <1>14 DEF AnswerHeld, HoldersHaveFlock, Owning, TypeOK
<1>15. ASSUME NEW t \in Threads, ProbeLocks(t) PROVE HoldersHaveFlock'
  BY <1>15 DEF ProbeLocks, FlockAvailable, HoldersHaveFlock, Owning, TypeOK
<1>16. ASSUME NEW t \in Threads, AnswerFree(t) PROVE HoldersHaveFlock'
  BY <1>16 DEF AnswerFree, HoldersHaveFlock, Owning, TypeOK
<1>17. ASSUME NEW t \in Threads, Answered(t) PROVE HoldersHaveFlock'
  BY <1>17 DEF Answered, HoldersHaveFlock, Owning, TypeOK
<1>18. ASSUME NEW t \in Threads, Unlink(t) PROVE HoldersHaveFlock'
  BY <1>18 DEF Unlink, HoldersHaveFlock, Owning, TypeOK
<1>19. ASSUME NEW p \in Processes, Discard(p) PROVE HoldersHaveFlock'
  BY <1>19 DEF Discard, HoldersHaveFlock, Owning, TypeOK
<1>20. ASSUME NEW p \in Processes, Crash(p) PROVE HoldersHaveFlock'
  BY <1>20 DEF Crash, HoldersHaveFlock, Owning, TypeOK
<1> QED
  BY <1>0, <1>1, <1>2, <1>3, <1>4, <1>5, <1>6, <1>7, <1>8, <1>9, <1>10,
     <1>11, <1>12, <1>13, <1>14, <1>15, <1>16, <1>17, <1>18, <1>19, <1>20
     DEF Next, RunStep, ProbeStep

LEMMA LockInvariantKept ==
  ASSUME OneDirectory, Cleaners = {}
  PROVE  LockInvariant /\ [Next]_vars => LockInvariant'
  BY TypesKept, FilesKept, HoldersKept DEF LockInvariant

LEMMA LockInvariantStarts == Init => LockInvariant
  BY TypesStart, Shapes
     DEF Init, LockInvariant, OpenFilesAreCurrent, HoldersHaveFlock, Owning

\* Two threads that hold the lock of the path's file are one thread.
LEMMA HoldersAgree ==
  ASSUME OneDirectory, LockInvariant, NEW t \in Threads, NEW u \in Threads,
         pc[t] \in Owning \cup {"probing"}, pc[u] \in Owning \cup {"probing"}
  PROVE  t = u
<1>1. file[t] \in Files /\ file[u] \in Files
  BY DEF LockInvariant, TypeOK, Owning
<1>2. file[t] = file[u]
  BY <1>1, Shapes DEF LockInvariant, OpenFilesAreCurrent, OneDirectory, Dir
<1> QED
  BY <1>2 DEF LockInvariant, HoldersHaveFlock

\* While all processes use one lock directory and nobody unlinks lock files, no
\* two threads own the stream at once, whatever crashes or fails to open.
THEOREM OwnersExclude ==
  ASSUME OneDirectory, Cleaners = {}
  PROVE  Spec => []OneOwner
<1>1. LockInvariant => OneOwner
  BY HoldersAgree DEF OneOwner
<1> QED
  BY <1>1, LockInvariantStarts, LockInvariantKept, PTL DEF Spec

\* If moreover the lock file can always be opened, is_held never calls a
\* stream free that somebody owns.
THEOREM FreeIsUnowned ==
  ASSUME OneDirectory, Cleaners = {}, "io" \notin Faults
  PROVE  Spec => FreeMeansUnowned
<1> DEFINE Sound == \A t \in Threads : pc'[t] = "free" /\ pc[t] # "free" =>
                        \A u \in Threads : pc[u] \notin Owning
<1>1. LockInvariant /\ [Next]_vars => [Sound]_vars
  <2> SUFFICES ASSUME LockInvariant, Next, NEW t \in Threads, pc'[t] = "free", pc[t] # "free",
                      NEW u \in Threads
               PROVE  pc[u] \notin Owning
    OBVIOUS
  <2>1. TypeOK
    BY DEF LockInvariant
  <2>2. pc[t] = "probing"
    BY <2>1 DEF Next, RunStep, ProbeStep, TypeOK, GetLock, AcquireThreadLock,
         ThreadLockBusy, HandleHeld, GiveUp, OpenFile, TakeFlock, FlockBusy, OpenFails,
         PopHandle, DropFlock, ReleaseThreadLock, ProbeOpen, ProbeFails, AnswerHeld,
         ProbeLocks, AnswerFree, Answered, Unlink, Discard, Crash
  <2> QED
    BY <2>2, HoldersAgree DEF Owning
<1> QED
  BY <1>1, LockInvariantStarts, LockInvariantKept, PTL DEF Spec, FreeMeansUnowned

\* A step that makes nobody an owner and tells nobody, or somebody whose probe
\* holds the file's lock, is a step of the atomic lock.
LEMMA QuietLockStep ==
  ASSUME OneDirectory, LockInvariant, LockInvariant',
         \A t \in Threads : pc'[t] \in Owning => pc[t] \in Owning,
         \A t \in Threads : pc'[t] = "free" => pc[t] = "free"
  PROVE  [Atomic!Next]_(Atomic!vars)
<1>1. Owners' \subseteq Owners /\ ToldFree' \subseteq ToldFree
  BY DEF Owners, ToldFree
<1>2. \A t, u \in Owners : t = u
  BY HoldersAgree DEF Owners
<1>3. Owners' = Owners \/ Owners' = {}
  BY <1>1, <1>2
<1> QED BY <1>1, <1>3 DEF Atomic!Next, Atomic!Release, Atomic!Forget

\* Whoever succeeds in taking the file's lock finds the stream unowned.
LEMMA TakeIsAcquire ==
  ASSUME OneDirectory, LockInvariant, LockInvariant', NEW t \in Threads, TakeFlock(t)
  PROVE  Atomic!Acquire
<1>1. TypeOK /\ pc[t] = "opened" /\ pc'[t] = "running"
  BY DEF TakeFlock, LockInvariant, TypeOK
<1>2. \A u \in Threads : u # t => pc'[u] = pc[u]
  BY <1>1 DEF TakeFlock, TypeOK
<1>3. ASSUME NEW u \in Threads, pc[u] \in Owning PROVE FALSE
  <2>1. u # t
    BY <1>1, <1>3 DEF Owning
  <2>2. pc'[u] \in Owning /\ pc'[t] \in Owning
    BY <1>1, <1>2, <1>3, <2>1 DEF Owning
  <2>3. flock'[file'[t]] = t /\ flock'[file'[u]] = u
    BY <2>2 DEF LockInvariant, HoldersHaveFlock
  <2>4. file'[t] \in Files /\ file'[u] \in Files
    BY <2>2 DEF LockInvariant, TypeOK, Owning
  <2>5. file'[t] = file'[u]
    BY <2>4, Shapes DEF LockInvariant, OpenFilesAreCurrent, OneDirectory, Dir
  <2> QED BY <2>1, <2>3, <2>5
<1>4. Owners = {} /\ Owners' = {t}
  BY <1>1, <1>2, <1>3 DEF Owners, Owning
<1>5. ToldFree' = ToldFree
  BY <1>1, <1>2 DEF ToldFree
<1> QED BY <1>4, <1>5 DEF Atomic!Acquire

\* A probe that answers "free" held the file's lock, so nobody else did.
LEMMA ProbeIsAnswer ==
  ASSUME OneDirectory, LockInvariant, NEW t \in Threads, AnswerFree(t)
  PROVE  Atomic!AnswerFree
<1>1. TypeOK /\ pc[t] = "probing" /\ pc'[t] = "free"
  BY DEF AnswerFree, LockInvariant, TypeOK
<1>2. \A u \in Threads : u # t => pc'[u] = pc[u]
  BY <1>1 DEF AnswerFree, TypeOK
<1>3. \A u \in Threads : pc[u] \notin Owning
  BY <1>1, HoldersAgree DEF Owning
<1>4. Owners = {} /\ Owners' = {}
  BY <1>1, <1>2, <1>3 DEF Owners, Owning
<1>5. ToldFree' = ToldFree \cup {t}
  BY <1>1, <1>2 DEF ToldFree
<1> QED BY <1>4, <1>5 DEF Atomic!AnswerFree

\* With one lock directory, nobody unlinking lock files and files that can be
\* opened, registry, guard, handles and advisory locks together are the atomic
\* lock that StreamRunner and StreamLifecycle take it for.
THEOREM LockIsAtomic ==
  ASSUME OneDirectory, Cleaners = {}, "io" \notin Faults
  PROVE  Spec => ProvidesOwnershipLock
<1>1. Init => Atomic!Init
  BY DEF Init, Atomic!Init, Owners, ToldFree, Owning
<1>2. LockInvariant /\ LockInvariant' /\ [Next]_vars => [Atomic!Next]_(Atomic!vars)
  <2> SUFFICES ASSUME LockInvariant, LockInvariant', [Next]_vars
               PROVE  [Atomic!Next]_(Atomic!vars)
    OBVIOUS
  <2>0. TypeOK
    BY DEF LockInvariant
  <2>1. CASE UNCHANGED vars
    BY <2>1, QuietLockStep DEF vars
  <2>2. ASSUME NEW t \in Threads, TakeFlock(t) PROVE [Atomic!Next]_(Atomic!vars)
    BY <2>2, TakeIsAcquire DEF Atomic!Next
  <2>3. ASSUME NEW t \in Threads, AnswerFree(t) PROVE [Atomic!Next]_(Atomic!vars)
    BY <2>3, ProbeIsAnswer DEF Atomic!Next
  <2>4. ASSUME Next, \A t \in Threads : ~TakeFlock(t) /\ ~AnswerFree(t)
        PROVE  /\ \A t \in Threads : pc'[t] \in Owning => pc[t] \in Owning
               /\ \A t \in Threads : pc'[t] = "free" => pc[t] = "free"
    BY <2>0, <2>4 DEF Next, RunStep, ProbeStep, TypeOK, Owning, GetLock, AcquireThreadLock,
       ThreadLockBusy, HandleHeld, GiveUp, OpenFile, FlockBusy, OpenFails,
       PopHandle, DropFlock, ReleaseThreadLock, ProbeOpen, ProbeFails, AnswerHeld,
       ProbeLocks, Answered, Unlink, Discard, Crash
  <2> QED BY <2>1, <2>2, <2>3, <2>4, QuietLockStep
<1> QED
  BY <1>1, <1>2, LockInvariantStarts, LockInvariantKept, PTL
     DEF Spec, ProvidesOwnershipLock, Atomic!Spec

-----------------------------------------------------------------------------
(* The thread lock *)

\* A thread inside run() holds its lock object, only such threads hold one that
\* was not leaked, and locks leak in I/O errors only.
HolderInvariant ==
    /\ LockHasHolder
    /\ leaked # {} => "io" \in Faults
    /\ \A t \in Threads : pc[t] \in InRun => held[mine[t]] = t

LEMMA HolderKept ==
  ASSUME TypeOK, HolderInvariant, [Next]_vars
  PROVE  HolderInvariant'
<1> USE Shapes
<1>0. CASE UNCHANGED vars
  BY <1>0 DEF vars, HolderInvariant, LockHasHolder, InRun, TypeOK
<1>1. ASSUME NEW t \in Threads, GetLock(t) PROVE HolderInvariant'
  BY <1>1 DEF GetLock, FreshLocks, HolderInvariant, LockHasHolder, InRun, TypeOK
<1>2. ASSUME NEW t \in Threads, AcquireThreadLock(t) PROVE HolderInvariant'
  BY <1>2 DEF AcquireThreadLock, HolderInvariant, LockHasHolder, InRun, TypeOK
<1>3. ASSUME NEW t \in Threads, ThreadLockBusy(t) PROVE HolderInvariant'
  BY <1>3 DEF ThreadLockBusy, HolderInvariant, LockHasHolder, InRun, TypeOK
<1>4. ASSUME NEW t \in Threads, HandleHeld(t) PROVE HolderInvariant'
  BY <1>4 DEF HandleHeld, GiveUp, HolderInvariant, LockHasHolder, InRun, TypeOK
<1>5. ASSUME NEW t \in Threads, OpenFile(t) PROVE HolderInvariant'
  BY <1>5 DEF OpenFile, OpensFile, HolderInvariant, LockHasHolder, InRun, TypeOK
<1>6. ASSUME NEW t \in Threads, TakeFlock(t) PROVE HolderInvariant'
  BY <1>6 DEF TakeFlock, FlockAvailable, HolderInvariant, LockHasHolder, InRun,
     TypeOK
<1>7. ASSUME NEW t \in Threads, FlockBusy(t) PROVE HolderInvariant'
  BY <1>7 DEF FlockBusy, GiveUp, HolderInvariant, LockHasHolder, InRun, TypeOK
<1>8. ASSUME NEW t \in Threads, OpenFails(t) PROVE HolderInvariant'
  BY <1>8 DEF OpenFails, HolderInvariant, LockHasHolder, InRun, TypeOK
<1>9. ASSUME NEW t \in Threads, PopHandle(t) PROVE HolderInvariant'
  BY <1>9 DEF PopHandle, HolderInvariant, LockHasHolder, InRun, TypeOK
<1>10. ASSUME NEW t \in Threads, DropFlock(t) PROVE HolderInvariant'
  BY <1>10 DEF DropFlock, HolderInvariant, LockHasHolder, InRun, TypeOK
<1>11. ASSUME NEW t \in Threads, ReleaseThreadLock(t) PROVE HolderInvariant'
  BY <1>11 DEF ReleaseThreadLock, GiveUp, HolderInvariant, LockHasHolder, InRun,
     TypeOK
<1>12. ASSUME NEW t \in Threads, ProbeOpen(t) PROVE HolderInvariant'
  BY <1>12 DEF ProbeOpen, OpensFile, HolderInvariant, LockHasHolder, InRun, TypeOK
<1>13. ASSUME NEW t \in Threads, ProbeFails(t) PROVE HolderInvariant'
  BY <1>13 DEF ProbeFails, HolderInvariant, LockHasHolder, InRun, TypeOK
<1>14. ASSUME NEW t \in Threads, AnswerHeld(t) PROVE HolderInvariant'
  BY <1>14 DEF AnswerHeld, HolderInvariant, LockHasHolder, InRun, TypeOK
<1>15. ASSUME NEW t \in Threads, ProbeLocks(t) PROVE HolderInvariant'
  BY <1>15 DEF ProbeLocks, FlockAvailable, HolderInvariant, LockHasHolder,
     InRun, TypeOK
<1>16. ASSUME NEW t \in Threads, AnswerFree(t) PROVE HolderInvariant'
  BY <1>16 DEF AnswerFree, HolderInvariant, LockHasHolder, InRun, TypeOK
<1>17. ASSUME NEW t \in Threads, Answered(t) PROVE HolderInvariant'
  BY <1>17 DEF Answered, HolderInvariant, LockHasHolder, InRun, TypeOK
<1>18. ASSUME NEW t \in Threads, Unlink(t) PROVE HolderInvariant'
  BY <1>18 DEF Unlink, HolderInvariant, LockHasHolder, InRun, TypeOK
<1>19. ASSUME NEW p \in Processes, Discard(p) PROVE HolderInvariant'
  BY <1>19 DEF Discard, HolderInvariant, LockHasHolder, InRun, TypeOK
<1>20. ASSUME NEW p \in Processes, Crash(p) PROVE HolderInvariant'
  BY <1>20 DEF Crash, HolderInvariant, LockHasHolder, InRun, TypeOK
<1> QED
  BY <1>0, <1>1, <1>2, <1>3, <1>4, <1>5, <1>6, <1>7, <1>8, <1>9, <1>10,
     <1>11, <1>12, <1>13, <1>14, <1>15, <1>16, <1>17, <1>18, <1>19, <1>20
     DEF Next, RunStep, ProbeStep

LEMMA HolderAlways == Spec => []HolderInvariant
<1>1. Init => HolderInvariant
  BY DEF Init, HolderInvariant, LockHasHolder, InRun
<1>2. TypeOK /\ HolderInvariant /\ [Next]_vars => HolderInvariant'
  BY HolderKept
<1> QED
  BY <1>1, <1>2, LockTypes, PTL DEF Spec

\* A locked thread lock always belongs to a run that is still on its way to
\* release it, or was left locked by an OSError of try_acquire.
THEOREM ThreadLockHeld == Spec => []LockHasHolder
<1>1. HolderInvariant => LockHasHolder
  BY DEF HolderInvariant
<1> QED
  BY <1>1, HolderAlways, PTL

\* While lock files can be opened, every locked thread lock has a run that will
\* release it.
THEOREM NoLockLeaks ==
  ASSUME "io" \notin Faults
  PROVE  Spec => [](leaked = {})
<1>1. HolderInvariant => leaked = {}
  BY DEF HolderInvariant
<1> QED
  BY <1>1, HolderAlways, PTL

=============================================================================
