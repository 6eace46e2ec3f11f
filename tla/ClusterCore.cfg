SPECIFICATION Spec
CONSTANTS
    w1 = w1
    w2 = w2
    r1 = r1
    r2 = r2
    Workers = {w1,w2}
    Replicas = {r1,r2}
    NoWorker = NoWorker
    NoReplica = NoReplica
    MaxStops = 0
    Faults = {}
    ExitCodes = {"zero", "error"}
SYMMETRY Symmetry
INVARIANTS TypeOK PlacementAgrees DeployReportFirst SettledAgrees
PROPERTIES EndedStays Implements
\* The requests are bounded: when all are made and handled, nothing is left to do.
CHECK_DEADLOCK FALSE
