SPECIFICATION FairSpec
CONSTANTS
    p1 = p1
    p2 = p2
    Processes = {p1, p2}
    Jobs = {1, 2}
    Dry = {2}
    MaxFailures = 2
INVARIANTS TypeOK
PROPERTIES StartsAlone EndedIsLeftAlone CancelIsHeeded EveryJobEnds
