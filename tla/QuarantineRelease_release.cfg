SPECIFICATION FairSpec
CONSTANTS
    Workers = {w1, w2}
    q1 = q1
    q2 = q2
    Rows = {q1, q2}
    Routes = {"required", "absorbed", "off"}
    Required = {"required", "off"}
    Off = {"off"}
    RoutesOf <- RowRoutes
    Position <- RowPosition
    MaxPosition = 2
INVARIANTS TypeOK ReleasedReachesRequired
PROPERTIES SettledIsNotSent   ImplementsHeldBatch
