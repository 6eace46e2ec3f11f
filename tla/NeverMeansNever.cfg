SPECIFICATION Spec
CONSTANTS
    Clients = {c1}
    Objects = {o1}
    NoObject = NoObject
    Replicas = {r1,r2,r3}
    Names = {n1}
    Configs = {v1}
    Policies = {"never"}
    MaxReplicas = 1
    MaxEnds = 2
    MaxFaults = 0
    Faults = {}
    NoCommand = NoCommand
    Commands = {"deploy"}
    MaxCommands = 1
INVARIANT NeverMeansNever
CHECK_DEADLOCK FALSE
