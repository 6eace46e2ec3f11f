------------------------------ MODULE Registry ------------------------------
(***************************************************************************)
(* Nodes and workers as the manager knows them (manager/manager.go:159-254 *)
(* and 573-712): a registration gives a worker a name, which the module    *)
(* WorkerNames adds, and a node, while others are doing so, too; the       *)
(* heartbeats and the detector keep the list of workers; every node pushes *)
(* its metrics.                                                            *)
(*                                                                         *)
(* The stores of nodes and workers keep pointers and copy nothing.  A node *)
(* object is named by whoever made it; a worker's entry points to one, and *)
(* the scheduler reads metrics through it.                                 *)
(***************************************************************************)
EXTENDS Integers, FiniteSets

CONSTANTS Workers,      \* worker processes
          Hosts,        \* host names
          Host,         \* Host[w]: where w runs
          Manager,      \* the manager, which has a node, too
          ManagerHost,  \* where it runs
          NoNode,       \* a nil pointer
          Levels,       \* what metrics may say of a node; "none" if there are none
          MaxSaves      \* bound: heartbeats and metrics updates under way at once

ASSUME WorkersAssumption == Host \in [Workers -> Hosts] /\ Manager \notin Workers
ASSUME ManagerAssumption == ManagerHost \in Hosts /\ NoNode \notin Workers \cup {Manager}
ASSUME LevelsAssumption == "none" \in Levels
ASSUME MaxSavesAssumption == MaxSaves \in Nat \ {0}

VARIABLES
    nodes,      \* nodes[h]: the node object stored under host name h
    metrics,    \* metrics[o]: the metrics in node object o
    reg,        \* reg[w]: how far the registration of w is
    node,       \* node[w]: the node object w's entry points to
    workers,    \* the workers that are registered
    stale,      \* those whose last heartbeat is older than 30s
    condemned,  \* the worker that the detector is about to remove
    beating,    \* heartbeats between Get and Put
    pushes,     \* metrics updates between Get and Put
    split,      \* history, not code: hosts given a node although they had one
    latest      \* history, not code: the last metrics pushed for a host

nodeVars == <<nodes, metrics, pushes>>
workerVars == <<reg, node, workers, stale, condemned, beating>>
registryVars == <<nodeVars, workerVars, split, latest>>

Nodes == Workers \cup {Manager}
Push == [host : Hosts, node : Nodes]
Registering == {"named", "new", "ready"}

MaySave == Cardinality(beating) + Cardinality(pushes) < MaxSaves

\* NewManager registers the manager's own node.
RegistryInit ==
    /\ nodes = [h \in Hosts |-> IF h = ManagerHost THEN Manager ELSE NoNode]
    /\ metrics = [o \in Nodes |-> "none"]
    /\ reg = [w \in Workers |-> "none"]
    /\ node = [w \in Workers |-> NoNode]
    /\ workers = {} /\ stale = {} /\ condemned = {} /\ beating = {} /\ pushes = {}
    /\ split = {}
    /\ latest = [h \in Hosts |-> "none"]

-----------------------------------------------------------------------------
\* POST /worker

\* It starts when the worker's name is chosen.
BeginRegistration(w) ==
    /\ reg[w] = "none" /\ reg' = [reg EXCEPT ![w] = "named"]
    /\ UNCHANGED <<nodeVars, node, workers, stale, condemned, beating, split, latest>>

\* Variant: every registration makes a node of its own and stores it only if it is new.
FindOwnNode(w) ==
    /\ reg[w] = "named" /\ reg' = [reg EXCEPT ![w] = "ready"]
    /\ nodes' = [nodes EXCEPT ![Host[w]] = IF @ = NoNode THEN w ELSE @]
    /\ node' = [node EXCEPT ![w] = w]
    /\ UNCHANGED <<metrics, pushes, workers, stale, condemned, beating, split, latest>>

\* Variant: the host's entry is taken as it is, a nil pointer or not.
FindNilNode(w) ==
    /\ reg[w] = "named" /\ reg' = [reg EXCEPT ![w] = "ready"]
    /\ node' = [node EXCEPT ![w] = nodes[Host[w]]]
    /\ UNCHANGED <<nodeVars, workers, stale, condemned, beating, split, latest>>

\* registerNode: the node of the host, or, if it has none, a new one ...
FindNode(w) ==
    /\ reg[w] = "named"
    /\ \/ /\ nodes[Host[w]] # NoNode
          /\ node' = [node EXCEPT ![w] = nodes[Host[w]]]
          /\ reg' = [reg EXCEPT ![w] = "ready"]
       \/ /\ nodes[Host[w]] = NoNode
          /\ reg' = [reg EXCEPT ![w] = "new"]
          /\ UNCHANGED node
    /\ UNCHANGED <<nodeVars, workers, stale, condemned, beating, split, latest>>

\* ... which is stored, even if the host has got one in between.
PutNode(w) ==
    /\ reg[w] = "new" /\ reg' = [reg EXCEPT ![w] = "ready"]
    /\ nodes' = [nodes EXCEPT ![Host[w]] = w]
    /\ node' = [node EXCEPT ![w] = w]
    /\ split' = IF nodes[Host[w]] = NoNode THEN split ELSE split \cup {Host[w]}
    /\ UNCHANGED <<metrics, pushes, workers, stale, condemned, beating, latest>>

PutWorker(w) ==
    /\ reg[w] = "ready" /\ reg' = [reg EXCEPT ![w] = "done"]
    /\ workers' = workers \cup {w}
    /\ UNCHANGED <<nodeVars, node, stale, condemned, beating, split, latest>>

-----------------------------------------------------------------------------
\* Heartbeats and the dead worker detector

\* POST /worker/{id}/heartbeat: the time is set in the entry itself, if it is found;
Heartbeat(w) ==
    /\ reg[w] = "done" /\ w \in workers /\ MaySave
    /\ stale' = stale \ {w}
    /\ beating' = beating \cup {w}
    /\ UNCHANGED <<nodeVars, reg, node, workers, condemned, split, latest>>

\* the entry is stored, even if it has been removed meanwhile.
SaveHeartbeat(w) ==
    /\ w \in beating /\ beating' = beating \ {w}
    /\ workers' = workers \cup {w}
    /\ UNCHANGED <<nodeVars, reg, node, stale, condemned, split, latest>>

GoStale(w) ==
    /\ w \in workers \ beating
    /\ stale' = stale \cup {w}
    /\ UNCHANGED <<nodeVars, reg, node, workers, condemned, beating, split, latest>>

\* The detector finds a worker's last heartbeat too old ...
Condemn(w) ==
    /\ w \in workers /\ w \in stale /\ condemned = {}
    /\ condemned' = {w}
    /\ UNCHANGED <<nodeVars, reg, node, workers, stale, beating, split, latest>>

\* ... and removes it, even if another heartbeat came in between.
Remove(w) ==
    /\ w \in condemned /\ condemned' = {}
    /\ workers' = workers \ {w}
    /\ UNCHANGED <<nodeVars, reg, node, stale, beating, split, latest>>

-----------------------------------------------------------------------------
\* PUT /node/{hostname}/metrics, and the manager's own collector

\* Workers push after a heartbeat, whether it was accepted or not.
Pushes(h) == h = ManagerHost \/ \E w \in Workers : Host[w] = h /\ reg[w] = "done"

\* The metrics are set in the node itself ...
PushMetrics(h, m) ==
    /\ Pushes(h) /\ nodes[h] # NoNode /\ MaySave
    /\ metrics' = [metrics EXCEPT ![nodes[h]] = m]
    /\ pushes' = pushes \cup {[host |-> h, node |-> nodes[h]]}
    /\ latest' = [latest EXCEPT ![h] = m]
    /\ UNCHANGED <<nodes, workerVars, split>>

\* ... which is stored, even if another one took its place.
SaveNode(p) ==
    /\ p \in pushes /\ pushes' = pushes \ {p}
    /\ nodes' = [nodes EXCEPT ![p.host] = p.node]
    /\ UNCHANGED <<metrics, workerVars, split, latest>>

RegistryOther ==
    \/ \E w \in Workers :
        \/ FindNode(w) \/ PutNode(w) \/ PutWorker(w)
        \/ Heartbeat(w) \/ GoStale(w) \/ Condemn(w)
    \/ \E h \in Hosts, m \in Levels \ {"none"} : PushMetrics(h, m)
    \/ \E p \in pushes : SaveNode(p)

RegistryNext ==
    \/ \E w \in Workers : BeginRegistration(w) \/ SaveHeartbeat(w) \/ Remove(w)
    \/ RegistryOther

RegistrySpec == RegistryInit /\ [][RegistryNext]_registryVars

-----------------------------------------------------------------------------
RegistryTypeOK ==
    /\ nodes \in [Hosts -> Nodes \cup {NoNode}]
    /\ metrics \in [Nodes -> Levels]
    /\ reg \in [Workers -> {"none", "done"} \cup Registering]
    /\ node \in [Workers -> Nodes \cup {NoNode}]
    /\ \A w \in Workers : reg[w] \in {"ready", "done"} => node[w] \in Nodes
    /\ workers \subseteq Workers /\ stale \subseteq Workers /\ condemned \subseteq Workers
    /\ beating \subseteq Workers
    /\ pushes \subseteq Push
    /\ split \subseteq Hosts
    /\ latest \in [Hosts -> Levels]

\* Through a worker's entry the scheduler sees the last metrics pushed for its host,
\* whoever made its node and in whatever order updates are stored -- unless two
\* registrations gave the host two nodes.
SeesMetrics ==
    \A w \in workers : Host[w] \notin split => metrics[node[w]] = latest[Host[w]]
=============================================================================
