-------------------------- MODULE SchedulingProofs --------------------------
(***************************************************************************)
(* The strategy "spread" does what it promises for any workers, hosts and  *)
(* metrics: it avoids overloaded hosts and prefers those with fewer        *)
(* replicas.                                                               *)
(***************************************************************************)
EXTENDS Scheduling, RegistryProofs, FiniteSetTheorems

CallTypeOK ==
    call \in [Calls -> [at : {"idle", "listed", "chosen", "running"},
                        listed : SUBSET Workers,
                        worker : Workers \cup {NoNode}]]

\* A worker that a call has listed is registered, or was.
ListedDone == \A c \in Calls : \A w \in call[c].listed : reg[w] = "done"

SchedulingInv == RegistryInv /\ CallTypeOK /\ ListedDone

-----------------------------------------------------------------------------
\* Every step of Scheduling is one of the registry, or leaves it alone.
LEMMA StepsOfRegistry == [Next]_vars => [RegistryNext]_registryVars
BY DEF Next, vars, RemoveWorker, ListWorkers, Choose, NoneHealthy, Accepted, Ends, RegistryNext

\* Who has finished registering stays so.
LEMMA DoneStays ==
    ASSUME RegistryTypeOK, [RegistryNext]_registryVars, NEW w \in Workers, reg[w] = "done"
    PROVE  reg'[w] = "done"
BY DEF RegistryNext, RegistryOther, RegistryTypeOK, Registering, registryVars, workerVars,
       BeginRegistration, SaveHeartbeat, Remove, FindNode, PutNode, PutWorker, Heartbeat,
       GoStale, Condemn, PushMetrics, SaveNode

LEMMA CallsStep == SchedulingInv /\ [Next]_vars => CallTypeOK' /\ ListedDone'
<1> SUFFICES ASSUME SchedulingInv, [Next]_vars PROVE CallTypeOK' /\ ListedDone'
    OBVIOUS
<1> USE DEF SchedulingInv, RegistryInv, CallTypeOK, ListedDone
<1>1. \A w \in Workers : reg[w] = "done" => reg'[w] = "done"
    BY StepsOfRegistry, DoneStays
<1>2. ASSUME NEW c \in Calls, ListWorkers(c) PROVE CallTypeOK' /\ ListedDone'
    <2>1. \A w \in workers : w \in Workers /\ reg'[w] = "done"
        BY <1>1 DEF OnlyDone, RegistryTypeOK
    <2> QED BY <1>1, <1>2, <2>1 DEF ListWorkers
<1>3. ASSUME NEW c \in Calls, Choose(c) PROVE CallTypeOK' /\ ListedDone'
    <2>1. \A w \in Best(c) : w \in Workers
        BY DEF Best, Healthy
    <2> QED BY <1>1, <1>3, <2>1 DEF Choose
<1>4. ASSUME NEW c \in Calls, NoneHealthy(c) \/ Ends(c) PROVE CallTypeOK' /\ ListedDone'
    BY <1>1, <1>4 DEF NoneHealthy, Ends, Idle
<1>5. ASSUME NEW c \in Calls, Accepted(c) PROVE CallTypeOK' /\ ListedDone'
    BY <1>1, <1>5 DEF Accepted
<1>6. ASSUME NEW w \in Workers, RemoveWorker(w) PROVE CallTypeOK' /\ ListedDone'
    BY <1>1, <1>6 DEF RemoveWorker, Idle
<1>7. CASE UNCHANGED call
    BY <1>1, <1>7
<1> QED BY <1>2, <1>3, <1>4, <1>5, <1>6, <1>7 DEF Next, vars

LEMMA SchedulingInvariant == Spec => []SchedulingInv
<1>1. Init => SchedulingInv
    <2>1. Init => RegistryInv
        BY RegistryInitInv DEF Init
    <2>2. Init => CallTypeOK /\ ListedDone
        BY DEF Init, Idle, CallTypeOK, ListedDone
    <2> QED BY <2>1, <2>2 DEF SchedulingInv
<1>2. SchedulingInv /\ [Next]_vars => SchedulingInv'
    BY StepsOfRegistry, RegistryStepInv, CallsStep DEF SchedulingInv
<1> QED BY <1>1, <1>2, PTL DEF Spec

\* A call only ever lists and chooses registered workers, and the registry's
\* variables keep their types, with any calls, strategy and metrics.
THEOREM SchedulingTypes == Spec => []TypeOK
<1>1. SchedulingInv => TypeOK
    BY DEF SchedulingInv, RegistryInv, CallTypeOK, TypeOK
<1> QED BY <1>1, SchedulingInvariant, PTL

\* What a call reads about a worker it listed.
LEMMA ListedSees ==
    ASSUME SchedulingInv, NEW c \in Calls, NEW w \in Healthy(c), Host[w] \notin split
    PROVE  w \in Workers /\ metrics[node[w]] = latest[Host[w]]
<1>1. w \in Workers /\ reg[w] = "done"
    BY DEF SchedulingInv, CallTypeOK, ListedDone, Healthy
<1>2. node[w] = nodes[Host[w]] /\ node[w] \in Nodes /\ Host[w] \in Hosts
    BY <1>1, WorkersAssumption
       DEF SchedulingInv, RegistryInv, RegistryTypeOK, OneNode, Unstored
<1> QED
    BY <1>1, <1>2, ManagerAssumption DEF SchedulingInv, RegistryInv, MetricsKept, Nodes

\* Only Choose makes a choice.
LEMMA ChoiceIsBest ==
    ASSUME SchedulingInv, [Next]_vars, NEW c \in Calls,
           call[c].at = "listed", call'[c].at = "chosen"
    PROVE  call'[c].worker \in Best(c)
<1> USE DEF SchedulingInv, CallTypeOK
<1>1. ASSUME NEW d \in Calls, Choose(d) PROVE call'[c].worker \in Best(c)
    BY <1>1 DEF Choose
<1>2. ASSUME NEW d \in Calls, ListWorkers(d) \/ NoneHealthy(d) \/ Accepted(d) \/ Ends(d)
      PROVE  call'[c].at # "chosen"
    BY <1>2 DEF ListWorkers, NoneHealthy, Accepted, Ends, Idle
<1>3. ASSUME NEW w \in Workers, RemoveWorker(w) PROVE call'[c].at # "chosen"
    BY <1>3 DEF RemoveWorker, Idle
<1> QED BY <1>1, <1>2, <1>3 DEF Next, vars

\* A replica goes to an overloaded host only if every healthy worker's host is
\* overloaded, whatever the metrics and whoever pushed them (scheduler/spread.go:44-74).
THEOREM OverloadAvoided == Spec => AvoidsOverload
<1>1. ASSUME SchedulingInv, [Next]_vars, NEW c \in Calls,
             call[c].at = "listed", call'[c].at = "chosen",
             NEW h, h = Host[call'[c].worker], h \notin split, latest[h] \in Overloaded,
             NEW v \in Healthy(c), Host[v] \notin split
      PROVE  latest[Host[v]] \in Overloaded
    <2>1. call'[c].worker \in Best(c)
        BY <1>1, ChoiceIsBest
    <2>2. call'[c].worker \in Healthy(c)
        BY <2>1 DEF Best
    <2>3. IsOverloaded(call'[c].worker)
        BY <1>1, <2>2, ListedSees DEF IsOverloaded
    <2>4. IsOverloaded(v)
        BY <1>1, <2>1, <2>3 DEF Best
    <2> QED BY <1>1, <2>4, ListedSees DEF IsOverloaded
<1>2. SchedulingInv /\ [Next]_vars =>
        [\A c \in Calls :
            call[c].at = "listed" /\ call'[c].at = "chosen" =>
                LET h == Host[call'[c].worker]
                    hosts == {Host[w] : w \in Healthy(c)} \ split
                IN  h \notin split /\ latest[h] \in Overloaded =>
                        \A g \in hosts : latest[g] \in Overloaded]_vars
    BY <1>1
<1> QED BY <1>2, SchedulingInvariant, PTL DEF Spec, AvoidsOverload

-----------------------------------------------------------------------------
\* Of two hosts with the same or less to do, the one with the better score has no
\* more replicas.
LEMMA ScoreOrder ==
    ASSUME NEW t \in Nat, NEW nv \in Nat, NEW nw \in Nat,
           NEW uv \in 0..100, NEW uw \in 0..100, uv <= uw,
           60 * 100 * (t - nv) + 40 * t * (100 - uv) <= 60 * 100 * (t - nw) + 40 * t * (100 - uw)
    PROVE  nw <= nv
<1>1. PICK d \in Nat : uw = uv + d
    <2>1. uw - uv \in Nat /\ uw = uv + (uw - uv)
        OBVIOUS
    <2> QED BY <2>1
<1>2. t * (100 - uv) = t * (100 - uw) + t * d
    BY <1>1
<1>3. t * d \in Nat
    BY <1>1
<1>4. 40 * t * (100 - uv) = 40 * (t * (100 - uw)) + 40 * (t * d)
    BY <1>2
<1>5. 40 * t * (100 - uw) = 40 * (t * (100 - uw))
    OBVIOUS
<1>6. t * (100 - uw) \in Int
    OBVIOUS
<1> QED BY <1>3, <1>4, <1>5, <1>6

\* With no call between its choice and its answer, a replica does not go to a host
\* that has more replicas than another one that is no busier, for any number of
\* workers on each (scheduler/spread.go:76-171, manager.go:345-367).
THEOREM SpreadByHost == Spec => SpreadsByHost
<1>1. ASSUME SchedulingInv, [Next]_vars, NEW c \in Calls,
             call[c].at = "listed", call'[c].at = "chosen",
             \A d \in Calls : call[d].at # "chosen",
             NEW h, h = Host[call'[c].worker], h \notin split,
             NEW v \in Healthy(c), Host[v] \notin split,
             Utilization[latest[Host[v]]] <= Utilization[latest[h]],
             latest[Host[v]] \notin Overloaded
      PROVE  Cardinality(Placed(h)) <= Cardinality(Placed(Host[v]))
    <2> DEFINE w == call'[c].worker
    <2>1. w \in Best(c) /\ w \in Healthy(c)
        BY <1>1, ChoiceIsBest DEF Best
    <2>2. /\ v \in Workers /\ metrics[node[v]] = latest[Host[v]]
          /\ w \in Workers /\ metrics[node[w]] = latest[Host[w]]
        BY <1>1, <2>1, ListedSees
    <2>3. Score(v) <= Score(w)
        BY <1>1, <2>1, <2>2 DEF Best, IsOverloaded
    <2>4. OnHost(v) = Cardinality(Placed(Host[v])) /\ OnHost(w) = Cardinality(Placed(Host[w]))
        BY <1>1 DEF OnHost, Placed
    <2>5. OnHost(v) \in Nat /\ OnHost(w) \in Nat /\ Total \in Nat
        BY CallsAssumption, FS_Subset, FS_CardinalityType DEF OnHost, Total
    <2>6. Utilization[latest[Host[v]]] \in 0..100 /\ Utilization[latest[Host[w]]] \in 0..100
        BY <1>1, <2>2, WorkersAssumption, UtilizationAssumption
           DEF SchedulingInv, RegistryInv, RegistryTypeOK
    <2>7. OnHost(w) <= OnHost(v)
        BY <1>1, <2>2, <2>3, <2>5, <2>6, ScoreOrder DEF Score
    <2> QED BY <1>1, <2>4, <2>7
<1>2. SchedulingInv /\ [Next]_vars =>
        [\A c \in Calls :
            /\ call[c].at = "listed" /\ call'[c].at = "chosen"
            /\ \A d \in Calls : call[d].at # "chosen"
            => LET h == Host[call'[c].worker]
                   hosts == {Host[w] : w \in Healthy(c)} \ split
               IN  \A g \in hosts :
                    h \notin split /\ Utilization[latest[g]] <= Utilization[latest[h]] =>
                        latest[g] \in Overloaded
                        \/ Cardinality(Placed(h)) <= Cardinality(Placed(g))]_vars
    BY <1>1
<1> QED BY <1>2, SchedulingInvariant, PTL DEF Spec, SpreadsByHost
=============================================================================
