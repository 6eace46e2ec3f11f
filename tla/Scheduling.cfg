SPECIFICATION Spec
CONSTANTS
    w1 = w1
    w2 = w2
    w3 = w3
    h1 = h1
    h2 = h2
    Workers = {w1, w2, w3}
    Hosts = {h1, h2}
    Host <- MCHost
    Manager = Manager
    ManagerHost = h1
    NoNode = NoNode
    Levels = {"none", "busy", "over"}
    MaxSaves = 1
    Calls = {c1, c2}
    Utilization <- MCUtilization
    Overloaded = {"over"}
SYMMETRY Symmetry
INVARIANTS TypeOK SeesMetrics
PROPERTIES AvoidsOverload SpreadsByHost
