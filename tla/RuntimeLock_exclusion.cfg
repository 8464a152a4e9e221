SPECIFICATION Spec
CONSTANTS
    a1 = a1
    a2 = a2
    s1 = s1
    api = api
    sched = sched
    Threads = {a1, a2, s1}
    Processes = {api, sched}
    ProcOf <- ProcessOf
    Dirs = {"host"}
    LockDir <- SharedDir
    Locks = {l1, l2, l3, l4, l5}
    Files = {f1}
    Cleaners = {}
    Faults = {"crash"}
SYMMETRY LockSymmetry
INVARIANTS TypeOK OneOwner
PROPERTIES ProvidesOwnershipLock
