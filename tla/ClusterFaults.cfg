SPECIFICATION Spec
CONSTANTS
    w1 = w1
    w2 = w2
    r1 = r1
    Workers = {w1,w2}
    Replicas = {r1}
    NoWorker = NoWorker
    NoReplica = NoReplica
    MaxStops = 1
    Faults = {"loss", "timeout", "runtime", "stop", "crash"}
    ExitCodes = {"error"}
SYMMETRY Symmetry
INVARIANTS PlacementAgrees
PROPERTIES Implements
\* The requests are bounded: when all are made and handled, nothing is left to do.
CHECK_DEADLOCK FALSE
