SPECIFICATION Spec
CONSTANTS
    Clients = {c1}
    Objects = {o1}
    NoObject = NoObject
    Replicas = {r1,r2,r3}
    Names = {n1}
    Configs = {v1}
    Policies = {"always"}
    MaxReplicas = 1
    MaxEnds = 0
    MaxFaults = 0
    Faults = {}
    NoCommand = NoCommand
    Commands = {"deploy", "stop"}
    MaxCommands = 2
INVARIANT StopPreserves
CHECK_DEADLOCK FALSE
