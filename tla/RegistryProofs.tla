--------------------------- MODULE RegistryProofs ---------------------------
(***************************************************************************)
(* For any workers and hosts: types are kept, and a scheduler sees the     *)
(* last metrics of each host.  The invariant says who made each node and   *)
(* when its metrics can change.                                            *)
(***************************************************************************)
EXTENDS Registry, TLAPS

\* Only workers that finished registering are registered, or send heartbeats.
OnlyDone == \A w \in workers \cup beating \cup condemned : reg[w] = "done"

\* The host of whoever made a node.
HostOf(o) == IF o = Manager THEN ManagerHost ELSE Host[o]

\* A worker that has not stored its node.
Unstored(o) == o \in Workers /\ reg[o] \notin {"ready", "done"}

\* A node is stored, or about to be, only for its maker's host, by whom it was stored
\* first; one that was not stored has no metrics.
NodesOwned ==
    /\ \A h \in Hosts : nodes[h] # NoNode => HostOf(nodes[h]) = h /\ ~Unstored(nodes[h])
    /\ \A p \in pushes : HostOf(p.node) = p.host /\ ~Unstored(p.node)
    /\ \A w \in Workers : Unstored(w) => metrics[w] = "none"

\* A host that was given one node has only that one.
OneNode ==
    /\ \A w \in Workers : ~Unstored(w) /\ Host[w] \notin split => node[w] = nodes[Host[w]]
    /\ \A p \in pushes : p.host \notin split => p.node = nodes[p.host]

\* And it holds the last metrics.
MetricsKept ==
    \A h \in Hosts \ split :
        latest[h] = IF nodes[h] = NoNode THEN "none" ELSE metrics[nodes[h]]

RegistryInv == RegistryTypeOK /\ OnlyDone /\ NodesOwned /\ OneNode /\ MetricsKept

-----------------------------------------------------------------------------
USE DEF Nodes, Push, Registering

LEMMA RegistryInitInv == RegistryInit => RegistryInv
BY WorkersAssumption, ManagerAssumption, LevelsAssumption
   DEF RegistryInit, RegistryInv, RegistryTypeOK, OnlyDone, NodesOwned, OneNode,
       MetricsKept, HostOf, Unstored

\* Types, and who is registered, by action.
LEMMA TypesStep == RegistryTypeOK /\ OnlyDone /\ [RegistryNext]_registryVars
                   => RegistryTypeOK' /\ OnlyDone'
<1> SUFFICES ASSUME RegistryTypeOK, OnlyDone, [RegistryNext]_registryVars
             PROVE  RegistryTypeOK' /\ OnlyDone'
    OBVIOUS
<1> USE WorkersAssumption, ManagerAssumption DEF RegistryTypeOK, OnlyDone
<1>1. ASSUME NEW w \in Workers, BeginRegistration(w) PROVE RegistryTypeOK' /\ OnlyDone'
    BY <1>1 DEF BeginRegistration, nodeVars
<1>2. ASSUME NEW w \in Workers, SaveHeartbeat(w) PROVE RegistryTypeOK' /\ OnlyDone'
    BY <1>2 DEF SaveHeartbeat, nodeVars
<1>3. ASSUME NEW w \in Workers, Remove(w) PROVE RegistryTypeOK' /\ OnlyDone'
    BY <1>3 DEF Remove, nodeVars
<1>4. ASSUME NEW w \in Workers, FindNode(w) PROVE RegistryTypeOK' /\ OnlyDone'
    BY <1>4 DEF FindNode, nodeVars
<1>5. ASSUME NEW w \in Workers, PutNode(w) PROVE RegistryTypeOK' /\ OnlyDone'
    BY <1>5 DEF PutNode
<1>6. ASSUME NEW w \in Workers, PutWorker(w) PROVE RegistryTypeOK' /\ OnlyDone'
    BY <1>6 DEF PutWorker, nodeVars
<1>7. ASSUME NEW w \in Workers, Heartbeat(w) PROVE RegistryTypeOK' /\ OnlyDone'
    BY <1>7 DEF Heartbeat, nodeVars
<1>8. ASSUME NEW w \in Workers, GoStale(w) \/ Condemn(w) PROVE RegistryTypeOK' /\ OnlyDone'
    BY <1>8 DEF GoStale, Condemn, nodeVars
<1>9. ASSUME NEW h \in Hosts, NEW m \in Levels \ {"none"}, PushMetrics(h, m)
      PROVE  RegistryTypeOK' /\ OnlyDone'
    BY <1>9 DEF PushMetrics, workerVars
<1>10. ASSUME NEW p \in pushes, SaveNode(p) PROVE RegistryTypeOK' /\ OnlyDone'
    BY <1>10 DEF SaveNode, workerVars
<1>11. CASE UNCHANGED registryVars
    BY <1>11 DEF registryVars, nodeVars, workerVars
<1> QED
    BY <1>1, <1>2, <1>3, <1>4, <1>5, <1>6, <1>7, <1>8, <1>9, <1>10, <1>11
       DEF RegistryNext, RegistryOther

\* Steps that leave nodes and metrics alone, and do not store a worker's node.
LEMMA NodesUntouched ==
    /\ RegistryInv /\ RegistryTypeOK'
    /\ UNCHANGED <<nodeVars, node, split, latest>>
    /\ \A w \in Workers : Unstored(w)' <=> Unstored(w)
    => NodesOwned' /\ OneNode' /\ MetricsKept'
BY WorkersAssumption, ManagerAssumption
   DEF nodeVars, RegistryInv, RegistryTypeOK, NodesOwned, OneNode, MetricsKept, HostOf, Unstored

LEMMA NodesStep == RegistryInv /\ RegistryTypeOK' /\ RegistryNext
                   => NodesOwned' /\ OneNode' /\ MetricsKept'
<1> SUFFICES ASSUME RegistryInv, RegistryTypeOK', RegistryNext
             PROVE  NodesOwned' /\ OneNode' /\ MetricsKept'
    OBVIOUS
<1>1. ASSUME NEW w \in Workers,
             \/ BeginRegistration(w) \/ SaveHeartbeat(w) \/ Remove(w) \/ PutWorker(w)
             \/ Heartbeat(w) \/ GoStale(w) \/ Condemn(w)
      PROVE  NodesOwned' /\ OneNode' /\ MetricsKept'
    <2>1. UNCHANGED <<nodeVars, node, split, latest>>
        BY <1>1 DEF BeginRegistration, SaveHeartbeat, Remove, PutWorker, Heartbeat, GoStale, Condemn
    <2>2. \A v \in Workers : Unstored(v)' <=> Unstored(v)
        BY <1>1 DEF BeginRegistration, SaveHeartbeat, Remove, PutWorker, Heartbeat, GoStale,
                    Condemn, Unstored, RegistryInv, RegistryTypeOK
    <2> QED BY <2>1, <2>2, NodesUntouched
<1> USE WorkersAssumption, ManagerAssumption DEF RegistryInv
<1>2. ASSUME NEW w \in Workers, FindNode(w)
      PROVE  NodesOwned' /\ OneNode' /\ MetricsKept'
    <2>1. NodesOwned'
        BY <1>2 DEF FindNode, nodeVars, RegistryTypeOK, NodesOwned, HostOf, Unstored
    <2>2. OneNode'
        BY <1>2 DEF FindNode, nodeVars, RegistryTypeOK, OneNode, Unstored
    <2>3. MetricsKept'
        BY <1>2 DEF FindNode, nodeVars, MetricsKept
    <2> QED BY <2>1, <2>2, <2>3
<1>3. ASSUME NEW w \in Workers, PutNode(w)
      PROVE  NodesOwned' /\ OneNode' /\ MetricsKept'
    <2>0. Unstored(w) /\ ~Unstored(w)' /\ \A v \in Workers \ {w} : Unstored(v)' <=> Unstored(v)
        BY <1>3 DEF PutNode, RegistryTypeOK, Unstored
    <2>1. NodesOwned'
        BY <1>3, <2>0 DEF PutNode, RegistryTypeOK, NodesOwned, HostOf, Unstored
    <2>2. OneNode'
        BY <1>3, <2>0 DEF PutNode, RegistryTypeOK, NodesOwned, OneNode, Unstored
    <2>3. MetricsKept'
        BY <1>3, <2>0 DEF PutNode, RegistryTypeOK, NodesOwned, MetricsKept
    <2> QED BY <2>1, <2>2, <2>3
<1>4. ASSUME NEW h \in Hosts, NEW m \in Levels \ {"none"}, PushMetrics(h, m)
      PROVE  NodesOwned' /\ OneNode' /\ MetricsKept'
    <2>1. NodesOwned'
        BY <1>4 DEF PushMetrics, workerVars, RegistryTypeOK, NodesOwned, HostOf, Unstored
    <2>2. OneNode'
        BY <1>4 DEF PushMetrics, workerVars, RegistryTypeOK, OneNode, Unstored
    <2>3. \A g \in Hosts \ {h} : nodes[g] # nodes[h]
        BY <1>4 DEF PushMetrics, NodesOwned
    <2>4. MetricsKept'
        BY <1>4, <2>3 DEF PushMetrics, RegistryTypeOK, MetricsKept
    <2> QED BY <2>1, <2>2, <2>4
<1>5. ASSUME NEW p \in pushes, SaveNode(p)
      PROVE  NodesOwned' /\ OneNode' /\ MetricsKept'
    <2>1. NodesOwned'
        BY <1>5 DEF SaveNode, workerVars, RegistryTypeOK, NodesOwned, HostOf, Unstored
    <2>2. OneNode'
        BY <1>5 DEF SaveNode, workerVars, RegistryTypeOK, OneNode, Unstored
    <2>3. MetricsKept'
        BY <1>5 DEF SaveNode, RegistryTypeOK, OneNode, MetricsKept
    <2> QED BY <2>1, <2>2, <2>3
<1> QED
    BY <1>1, <1>2, <1>3, <1>4, <1>5 DEF RegistryNext, RegistryOther

LEMMA RegistryStepInv == RegistryInv /\ [RegistryNext]_registryVars => RegistryInv'
<1>1. ASSUME RegistryInv, UNCHANGED registryVars PROVE RegistryInv'
    BY <1>1 DEF registryVars, nodeVars, workerVars, RegistryInv, RegistryTypeOK, OnlyDone,
                NodesOwned, OneNode, MetricsKept, HostOf, Unstored
<1>2. ASSUME RegistryInv, RegistryNext PROVE RegistryInv'
    BY <1>2, TypesStep, NodesStep DEF RegistryInv
<1> QED BY <1>1, <1>2

LEMMA InvSees == RegistryInv => SeesMetrics
BY WorkersAssumption, ManagerAssumption
   DEF RegistryInv, RegistryTypeOK, OnlyDone, OneNode, MetricsKept, Unstored, SeesMetrics

\* Types are kept, and a registered worker always has a node: registrations,
\* heartbeats, removals and metrics in any order (manager/manager.go:159-254, 573-712).
THEOREM RegistryTypes == RegistrySpec => []RegistryTypeOK
<1>1. RegistryInv => RegistryTypeOK
    BY DEF RegistryInv
<1> QED BY <1>1, RegistryInitInv, RegistryStepInv, PTL DEF RegistrySpec

\* The scheduler sees the last metrics of a host through every one of its workers,
\* for any workers and hosts (manager/manager.go:159-178, 666-712).
THEOREM MetricsSeen == RegistrySpec => []SeesMetrics
BY RegistryInitInv, RegistryStepInv, InvSees, PTL DEF RegistrySpec
=============================================================================
