----------------------------- MODULE RuntimeLock -----------------------------
(***************************************************************************)
(* The run lock of one stream: StreamRunner's registry of thread locks     *)
(* (app/runners/stream_runner.py) in front of the advisory file lock that  *)
(* sibling processes see (app/runners/stream_runtime_lock.py).  A thread   *)
(* either executes StreamRunner.run, asks is_held, or cleans up unowned    *)
(* lock files.  The file is opened and locked in two system calls, so      *)
(* threads of other processes act in between; threads of one process are   *)
(* kept apart by the module's _GUARD.                                      *)
(***************************************************************************)
EXTENDS FiniteSets

CONSTANTS
    Threads,    \* threads that run or probe the stream
    Processes,
    ProcOf,     \* [Threads -> Processes]
    Dirs,       \* lock directories
    LockDir,    \* [Processes -> Dirs] the directory _lock_dir() resolves to
    Locks,      \* threading.Lock objects
    Files,      \* inodes of lock files
    Cleaners,   \* threads that may run cleanup_unowned_lock_files
    Faults      \* subset of {"crash", "io"}

Nobody == "nobody"
NoLock == "no lock"
NoFile == "no file"

ASSUME ThreadsAssumption ==
    /\ Nobody \notin Threads
    /\ NoLock \notin Locks
    /\ NoFile \notin Files
    /\ ProcOf \in [Threads -> Processes]
    /\ LockDir \in [Processes -> Dirs]
    /\ Cleaners \subseteq Threads

VARIABLES
    pc,         \* where each thread is
    registry,   \* StreamRunner._locks: the process's lock object for the stream
    held,       \* who locked each lock object
    mine,       \* the lock object a run obtained from _get_lock
    guard,      \* who is inside a `with _GUARD` block of each process
    handles,    \* _HANDLES: whose open file is the process's ownership handle
    path,       \* the inode the lock path of each directory names
    file,       \* the inode each thread has open
    flock,      \* whose open file holds the advisory lock of each inode
    leaked      \* history: lock objects that an exception left locked

vars == <<pc, registry, held, mine, guard, handles, path, file, flock, leaked>>

Steps == {"idle", "got", "locked", "opened", "running", "popped", "unlocked",
          "probe", "probing", "free", "held"}
InRun == {"locked", "opened", "running", "popped", "unlocked"}
Owning == {"running", "popped"}

\* Every variable keeps its shape, a thread inside run() has its lock object
\* and a thread that is about to lock or unlock a file has it open.
TypeOK ==
    /\ pc \in [Threads -> Steps]
    /\ registry \in [Processes -> Locks \cup {NoLock}]
    /\ held \in [Locks -> Threads \cup {Nobody}]
    /\ mine \in [Threads -> Locks \cup {NoLock}]
    /\ guard \in [Processes -> Threads \cup {Nobody}]
    /\ handles \in [Processes -> Threads \cup {Nobody}]
    /\ path \in [Dirs -> Files \cup {NoFile}]
    /\ file \in [Threads -> Files \cup {NoFile}]
    /\ flock \in [Files -> Threads \cup {Nobody}]
    /\ leaked \subseteq Locks
    /\ \A t \in Threads : pc[t] \in InRun \cup {"got"} => mine[t] \in Locks
    /\ \A t \in Threads :
         pc[t] \in {"opened", "running", "popped", "probe", "probing"} =>
             file[t] \in Files

Init ==
    /\ pc = [t \in Threads |-> "idle"]
    /\ registry = [p \in Processes |-> NoLock]
    /\ held = [l \in Locks |-> Nobody]
    /\ mine = [t \in Threads |-> NoLock]
    /\ guard = [p \in Processes |-> Nobody]
    /\ handles = [p \in Processes |-> Nobody]
    /\ path = [d \in Dirs |-> NoFile]
    /\ file = [t \in Threads |-> NoFile]
    /\ flock = [f \in Files |-> Nobody]
    /\ leaked = {}

-----------------------------------------------------------------------------
Process(t) == ProcOf[t]
Dir(t) == LockDir[ProcOf[t]]
GuardFree(t) == guard[Process(t)] = Nobody

\* Objects and inodes that nothing refers to, so that they can be allocated.
FreshLocks == {l \in Locks : /\ held[l] = Nobody
                             /\ \A p \in Processes : registry[p] # l
                             /\ \A t \in Threads : mine[t] # l}
FreshFiles == {f \in Files : /\ \A d \in Dirs : path[d] # f
                             /\ \A t \in Threads : file[t] # f}

\* _get_lock: the registered object, or a new one that is registered.
GetLock(t) ==
    /\ pc[t] = "idle"
    /\ \E l \in IF registry[Process(t)] = NoLock
                THEN FreshLocks ELSE {registry[Process(t)]} :
         /\ mine' = [mine EXCEPT ![t] = l]
         /\ registry' = [registry EXCEPT ![Process(t)] = l]
    /\ pc' = [pc EXCEPT ![t] = "got"]
    /\ UNCHANGED <<held, guard, handles, path, file, flock, leaked>>

\* discard_lock (stream delete) and the pruning of a full registry: an entry
\* goes while it is unlocked, whoever may have read it already.
Discard(p) ==
    /\ registry[p] # NoLock
    /\ held[registry[p]] = Nobody
    /\ registry' = [registry EXCEPT ![p] = NoLock]
    /\ UNCHANGED <<pc, held, mine, guard, handles, path, file, flock, leaked>>

AcquireThreadLock(t) ==
    /\ pc[t] = "got"
    /\ held[mine[t]] = Nobody
    /\ held' = [held EXCEPT ![mine[t]] = t]
    /\ pc' = [pc EXCEPT ![t] = "locked"]
    /\ UNCHANGED <<registry, mine, guard, handles, path, file, flock, leaked>>

ThreadLockBusy(t) ==
    /\ pc[t] = "got"
    /\ held[mine[t]] # Nobody
    /\ mine' = [mine EXCEPT ![t] = NoLock]
    /\ pc' = [pc EXCEPT ![t] = "idle"]
    /\ UNCHANGED <<registry, held, guard, handles, path, file, flock, leaked>>

-----------------------------------------------------------------------------
\* lock.release(), at the end of a run and when try_acquire said False.
GiveUpKeepingLock(t) ==
    /\ mine' = [mine EXCEPT ![t] = NoLock]
    /\ pc' = [pc EXCEPT ![t] = "idle"]
    /\ UNCHANGED held
GiveUp(t) ==
    /\ held' = [held EXCEPT ![mine[t]] = Nobody]
    /\ mine' = [mine EXCEPT ![t] = NoLock]
    /\ pc' = [pc EXCEPT ![t] = "idle"]

HandleHeld(t) ==
    /\ pc[t] = "locked"
    /\ GuardFree(t)
    /\ handles[Process(t)] # Nobody
    /\ GiveUp(t)
    /\ UNCHANGED <<registry, guard, handles, path, file, flock, leaked>>

OpensExistingFile(t) ==
    /\ file' = [file EXCEPT ![t] = path[Dir(t)]]
    /\ UNCHANGED path
\* open("a+") names the file that is there and creates it when there is none.
OpensFile(t) ==
    \E f \in IF path[Dir(t)] = NoFile THEN FreshFiles ELSE {path[Dir(t)]} :
      /\ path' = [path EXCEPT ![Dir(t)] = f]
      /\ file' = [file EXCEPT ![t] = f]

OpenFile(t) ==
    /\ pc[t] = "locked"
    /\ GuardFree(t)
    /\ handles[Process(t)] = Nobody
    /\ OpensFile(t)
    /\ guard' = [guard EXCEPT ![Process(t)] = t]
    /\ pc' = [pc EXCEPT ![t] = "opened"]
    /\ UNCHANGED <<registry, held, mine, handles, flock, leaked>>

FlockIgnored(t) == TRUE
\* LOCK_EX | LOCK_NB succeeds when no other open file holds the inode's lock.
FlockAvailable(t) == flock[file[t]] = Nobody

TakeFlock(t) ==
    /\ pc[t] = "opened"
    /\ FlockAvailable(t)
    /\ flock' = [flock EXCEPT ![file[t]] = t]
    /\ handles' = [handles EXCEPT ![Process(t)] = t]
    /\ guard' = [guard EXCEPT ![Process(t)] = Nobody]
    /\ pc' = [pc EXCEPT ![t] = "running"]
    /\ UNCHANGED <<registry, held, mine, path, file, leaked>>

FlockBusyKeepingGuard(t) ==
    /\ pc[t] = "opened"
    /\ ~FlockAvailable(t)
    /\ file' = [file EXCEPT ![t] = NoFile]
    /\ GiveUp(t)
    /\ UNCHANGED <<registry, guard, handles, path, flock, leaked>>
FlockBusy(t) ==
    /\ pc[t] = "opened"
    /\ ~FlockAvailable(t)
    /\ guard' = [guard EXCEPT ![Process(t)] = Nobody]
    /\ file' = [file EXCEPT ![t] = NoFile]
    /\ GiveUp(t)
    /\ UNCHANGED <<registry, handles, path, flock, leaked>>

\* The directory or the file cannot be opened: the exception leaves run()
\* before its try block, and the thread lock stays locked.
OpenFails(t) ==
    /\ "io" \in Faults
    /\ pc[t] = "locked"
    /\ GuardFree(t)
    /\ handles[Process(t)] = Nobody
    /\ leaked' = leaked \cup {mine[t]}
    /\ mine' = [mine EXCEPT ![t] = NoLock]
    /\ pc' = [pc EXCEPT ![t] = "idle"]
    /\ UNCHANGED <<registry, held, guard, handles, path, file, flock>>

-----------------------------------------------------------------------------
\* The end of a run: release("run", stream_id), then lock.release().
PopHandle(t) ==
    /\ pc[t] = "running"
    /\ GuardFree(t)
    /\ handles' = [handles EXCEPT ![Process(t)] = Nobody]
    /\ pc' = [pc EXCEPT ![t] = "popped"]
    /\ UNCHANGED <<registry, held, mine, guard, path, file, flock, leaked>>

DropFlock(t) ==
    /\ pc[t] = "popped"
    /\ flock' = [flock EXCEPT ![file[t]] = Nobody]
    /\ file' = [file EXCEPT ![t] = NoFile]
    /\ pc' = [pc EXCEPT ![t] = "unlocked"]
    /\ UNCHANGED <<registry, held, mine, guard, handles, path, leaked>>

ReleaseThreadLock(t) ==
    /\ pc[t] = "unlocked"
    /\ GiveUp(t)
    /\ UNCHANGED <<registry, guard, handles, path, file, flock, leaked>>

-----------------------------------------------------------------------------
\* is_held.  With an ownership handle in this process it answers at once and
\* changes nothing; otherwise it opens the file and tries the lock itself.
ProbeOpen(t) ==
    /\ pc[t] = "idle"
    /\ GuardFree(t)
    /\ handles[Process(t)] = Nobody
    /\ OpensFile(t)
    /\ pc' = [pc EXCEPT ![t] = "probe"]
    /\ UNCHANGED <<registry, held, mine, guard, handles, flock, leaked>>

AnswerHeld(t) ==
    /\ pc[t] = "probe"
    /\ ~FlockAvailable(t)
    /\ file' = [file EXCEPT ![t] = NoFile]
    /\ pc' = [pc EXCEPT ![t] = "held"]
    /\ UNCHANGED <<registry, held, mine, guard, handles, path, flock, leaked>>

ProbeLocks(t) ==
    /\ pc[t] = "probe"
    /\ FlockAvailable(t)
    /\ flock' = [flock EXCEPT ![file[t]] = t]
    /\ pc' = [pc EXCEPT ![t] = "probing"]
    /\ UNCHANGED <<registry, held, mine, guard, handles, path, file, leaked>>

AnswerFree(t) ==
    /\ pc[t] = "probing"
    /\ flock' = [flock EXCEPT ![file[t]] = Nobody]
    /\ file' = [file EXCEPT ![t] = NoFile]
    /\ pc' = [pc EXCEPT ![t] = "free"]
    /\ UNCHANGED <<registry, held, mine, guard, handles, path, leaked>>

\* The file cannot be opened, and is_held takes that for a free lock.
ProbeFails(t) ==
    /\ "io" \in Faults
    /\ pc[t] = "idle"
    /\ GuardFree(t)
    /\ handles[Process(t)] = Nobody
    /\ pc' = [pc EXCEPT ![t] = "free"]
    /\ UNCHANGED <<registry, held, mine, guard, handles, path, file, flock, leaked>>

Answered(t) ==
    /\ pc[t] \in {"held", "free"}
    /\ pc' = [pc EXCEPT ![t] = "idle"]
    /\ UNCHANGED <<registry, held, mine, guard, handles, path, file, flock, leaked>>

\* cleanup_unowned_lock_files: what is_held called free is unlinked.
Unlink(t) ==
    /\ t \in Cleaners
    /\ pc[t] = "free"
    /\ path' = [path EXCEPT ![Dir(t)] = NoFile]
    /\ pc' = [pc EXCEPT ![t] = "idle"]
    /\ UNCHANGED <<registry, held, mine, guard, handles, file, flock, leaked>>

\* A process dies: its memory goes and the kernel closes its files.
Crash(p) ==
    LET dead == {t \in Threads : ProcOf[t] = p} IN
    /\ "crash" \in Faults
    /\ pc' = [t \in Threads |-> IF t \in dead THEN "idle" ELSE pc[t]]
    /\ mine' = [t \in Threads |-> IF t \in dead THEN NoLock ELSE mine[t]]
    /\ file' = [t \in Threads |-> IF t \in dead THEN NoFile ELSE file[t]]
    /\ held' = [l \in Locks |-> IF held[l] \in dead THEN Nobody ELSE held[l]]
    /\ flock' = [f \in Files |-> IF flock[f] \in dead THEN Nobody ELSE flock[f]]
    /\ leaked' = {l \in leaked : held[l] \notin dead}
    /\ registry' = [registry EXCEPT ![p] = NoLock]
    /\ guard' = [guard EXCEPT ![p] = Nobody]
    /\ handles' = [handles EXCEPT ![p] = Nobody]
    /\ UNCHANGED path

RunStep(t) ==
    \/ AcquireThreadLock(t) \/ ThreadLockBusy(t)
    \/ HandleHeld(t) \/ OpenFile(t) \/ TakeFlock(t) \/ FlockBusy(t)
    \/ PopHandle(t) \/ DropFlock(t) \/ ReleaseThreadLock(t)
ProbeStep(t) ==
    \/ AnswerHeld(t) \/ ProbeLocks(t) \/ AnswerFree(t) \/ Answered(t)

Next ==
    \/ \E t \in Threads : \/ GetLock(t) \/ RunStep(t) \/ OpenFails(t)
                          \/ ProbeOpen(t) \/ ProbeFails(t) \/ ProbeStep(t) \/ Unlink(t)
    \/ \E p \in Processes : Discard(p) \/ Crash(p)

Spec == Init /\ [][Next]_vars

\* A thread that is inside run() or is_held goes on.  Both wait for nothing but
\* _GUARD, which no thread keeps across a wait and whose waiters are all served.
FairSpec == Spec /\ \A t \in Threads : SF_vars(RunStep(t)) /\ WF_vars(ProbeStep(t))

-----------------------------------------------------------------------------
(* Properties *)

\* The invariant behind the exclusion of runs: every open lock file is the one
\* the path names, and an owner or a probe holds that file's lock.
OpenFilesAreCurrent ==
    \A t \in Threads : file[t] # NoFile => path[Dir(t)] = file[t]
HoldersHaveFlock ==
    \A t \in Threads : pc[t] \in Owning \cup {"probing"} => flock[file[t]] = t
LockInvariant == TypeOK /\ OpenFilesAreCurrent /\ HoldersHaveFlock

\* No two threads of any processes own the stream at once
\* (run() goes on only with try_acquire's True).
OneOwner ==
    \A t, u \in Threads : pc[t] \in Owning /\ pc[u] \in Owning => t = u

\* Registry, guard, handles and advisory lock together are one atomic lock to
\* the callers of try_acquire, release and is_held: every behaviour of the
\* system calls is a behaviour of OwnershipLock.
Owners == {t \in Threads : pc[t] \in Owning}
ToldFree == {t \in Threads : pc[t] = "free"}
Atomic == INSTANCE OwnershipLock WITH Callers <- Threads, owners <- Owners, free <- ToldFree
ProvidesOwnershipLock == Atomic!Spec

\* A locked thread lock belongs to a thread that is still inside run() and
\* will give it back (lock.release() in run()'s finally), unless try_acquire
\* raised an OSError under it: that call stands outside run()'s try, and only
\* the end of the process frees the lock.
LockHasHolder ==
    \A l \in Locks : held[l] # Nobody =>
        l \in leaked \/ (mine[held[l]] = l /\ pc[held[l]] \in InRun)

\* When is_held has found the file lock free, nobody owned the stream: stop
\* and delete rely on that answer.
FreeMeansUnowned ==
    [][\A t \in Threads : pc'[t] = "free" /\ pc[t] # "free" =>
         \A u \in Threads : pc[u] \notin Owning]_vars

\* A locked thread lock becomes free again: beside crashes, probes and a cleaner
\* that unlinks lock files, the one way for a stream to stay locked in a process
\* is the lock that an OSError of try_acquire left behind.
LockComesBack ==
    \A l \in Locks : held[l] # Nobody ~> held[l] = Nobody \/ l \in leaked

=============================================================================
