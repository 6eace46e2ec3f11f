SPECIFICATION Spec
CONSTANTS
    w1 = w1
    r1 = r1
    Workers = {w1}
    Replicas = {r1}
    NoWorker = NoWorker
    NoReplica = NoReplica
    MaxStops = 0
    Faults = {}
    ExitCodes = {"error"}
SYMMETRY Symmetry
INVARIANTS CrashIsRecorded
\* The requests are bounded: when all are made and handled, nothing is left to do.
CHECK_DEADLOCK FALSE
