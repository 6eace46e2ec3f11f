SPECIFICATION Spec
CONSTANTS
    w1 = w1
    w2 = w2
    r1 = r1
    Workers = {w1,w2}
    Replicas = {r1}
    NoWorker = NoWorker
    NoReplica = NoReplica
    MaxStops = 0
    Faults = {"stale", "crash", "timeout"}
    ExitCodes = {"error"}
SYMMETRY Symmetry
INVARIANTS PlacementAgrees RunningHasWorker
\* The requests are bounded: when all are made and handled, nothing is left to do.
CHECK_DEADLOCK FALSE
