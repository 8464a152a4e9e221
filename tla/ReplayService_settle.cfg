SPECIFICATION FairSpec
CONSTANTS
    w1 = w1
    w2 = w2
    Workers = {w1, w2}
    Prefetching = {w2}
    MaxKeys = 2
INVARIANTS TypeOK KeysBoundedByRetries OneSender DuplicateIsFlagged ReplayedMeansAccepted
PROPERTIES TerminalIsFinal UndisturbedIsSettled
