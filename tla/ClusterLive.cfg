SPECIFICATION FairSpec
CONSTANTS
    w1 = w1
    r1 = r1
    r2 = r2
    Workers = {w1}
    Replicas = {r1,r2}
    NoWorker = NoWorker
    NoReplica = NoReplica
    MaxStops = 0
    Faults = {"loss"}
    ExitCodes = {"error"}
PROPERTIES Settles StopTakesEffect
\* The requests are bounded: when all are made and handled, nothing is left to do.
CHECK_DEADLOCK FALSE
