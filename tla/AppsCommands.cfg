SPECIFICATION FairSpec
CONSTANTS
    Clients = {c1,c2}
    Objects = {o1,o2}
    NoObject = NoObject
    Replicas = {r1,r2,r3,r4,r5,r6,r7,r8}
    Names = {n1}
    Configs = {v1}
    Policies = {"always"}
    MaxReplicas = 1
    MaxEnds = 0
    MaxFaults = 0
    Faults = {}
    NoCommand = NoCommand
    Commands = {"deploy", "scale", "stop", "restart", "remove", "delete"}
    MaxCommands = 3
INVARIANTS TypeOK  
 
\* The commands are bounded: when all are run, the loop only lists services.
CHECK_DEADLOCK FALSE
