SPECIFICATION Spec
CONSTANTS
    w1 = w1
    w2 = w2
    w3 = w3
    h1 = h1
    h2 = h2
    Workers = {w1, w2, w3}
    Hosts = {h1, h2}
    Host <- MCHost
    Manager = Manager
    ManagerHost = h1
    NoNode = NoNode
    Levels = {"none", "idle"}
    MaxSaves = 2
    Misread <- MCMisread
INVARIANTS TypeOK NamesUnique
