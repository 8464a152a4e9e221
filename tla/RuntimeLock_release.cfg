SPECIFICATION FairSpec
CONSTANTS
    a1 = a1
    a2 = a2
    s1 = s1
    api = api
    sched = sched
    Threads = {a1, a2}
    Processes = {api, sched}
    ProcOf <- ProcessOf
    Dirs = {"host"}
    LockDir <- SharedDir
    Locks = {l1, l2, l3}
    Files = {f1, f2, f3}
    Cleaners = {a1}
    Faults = {"crash", "io"}
INVARIANTS LockHasHolder
PROPERTIES LockComesBack
