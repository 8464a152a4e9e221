SPECIFICATION FairSpec
CONSTANTS
    s1 = s1
    s2 = s2
    c1 = c1
    c2 = c2
    Schedulers = {s1, s2}
    Controllers = {c1}
    Home <- HomeOf
    Operations <- OneEditor
    RunStatuses = {}
    Faults = {}
INVARIANTS ConfirmedStopIsQuiet
PROPERTIES RunnableIsRun DisabledIsReleased
