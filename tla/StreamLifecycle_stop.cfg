SPECIFICATION Spec
CONSTANTS
    s1 = s1
    s2 = s2
    c1 = c1
    c2 = c2
    Schedulers = {s1}
    Controllers = {c1, c2}
    Home <- HomeOf
    Operations <- TwoOperators
    RunStatuses = {"PAUSED"}
    Faults = {"crash", "exception"}
INVARIANTS TypeOK ConfirmedStopIsQuiet StoppedIsDisabled
