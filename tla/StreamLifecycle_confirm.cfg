SPECIFICATION FairSpec
CONSTANTS
    s1 = s1
    s2 = s2
    c1 = c1
    c2 = c2
    Schedulers = {s1}
    Controllers = {c1, c2}
    Home <- HomeOf
    Operations <- StopFromApi
    RunStatuses = {"PAUSED"}
    Faults = {}
PROPERTIES StopIsConfirmed
