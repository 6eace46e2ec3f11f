----------------------------- MODULE Scheduling -----------------------------
(***************************************************************************)
(* Where replicas of one service go with the strategy "spread"             *)
(* (manager/manager.go:345-443, manager/scheduler/spread.go), while        *)
(* workers register, die and push metrics.  Calls of scheduleReplica run   *)
(* concurrently, one for each replica: a call lists the workers, counts    *)
(* the service's running replicas and scores; its own replica is Running,  *)
(* and counted by others, once the worker has answered.                    *)
(*                                                                         *)
(* Counting and scoring read only memory and are one step here: a call     *)
(* that decides on an older count is one that decided earlier.             *)
(***************************************************************************)
EXTENDS Registry

CONSTANTS Calls,        \* calls of scheduleReplica, or their replicas
          Utilization,  \* Utilization[m]: of the resources, weighted, in percent
          Overloaded    \* the levels over a threshold

ASSUME CallsAssumption == IsFiniteSet(Calls)
ASSUME UtilizationAssumption == Utilization \in [Levels -> 0..100] /\ Utilization["none"] = 0
ASSUME OverloadedAssumption == Overloaded \subseteq Levels \ {"none"}

VARIABLE call   \* call[c]: how far c is, the workers it listed and the one it chose

vars == <<registryVars, call>>

Idle == [at |-> "idle", listed |-> {}, worker |-> NoNode]

Init == RegistryInit /\ call = [c \in Calls |-> Idle]

\* Variant: replicas are counted for each worker.
OnWorker(w) ==
    Cardinality({c \in Calls : call[c].at = "running" /\ call[c].worker = w /\ w \in workers})

\* getReplicaDistributionByHost, for w's host.
OnHost(w) ==
    Cardinality({c \in Calls : /\ call[c].at = "running"
                               /\ call[c].worker \in workers
                               /\ Host[call[c].worker] = Host[w]})

Total == Cardinality({c \in Calls : call[c].at = "running" /\ call[c].worker \in workers}) + 1

\* Spread is 60% of the score, free resources are 40%; here it is times 10000 * Total.
Score(w) ==
    60 * 100 * (Total - OnHost(w)) + 40 * Total * (100 - Utilization[metrics[node[w]]])

Healthy(c) == call[c].listed \ stale

IsOverloaded(w) == metrics[node[w]] \in Overloaded

\* Variant: the fallback is taken as soon as one node is overloaded.
AnyOverloaded(c) ==
    IF \E w \in Healthy(c) : IsOverloaded(w)
    THEN Healthy(c)
    ELSE {w \in Healthy(c) : \A v \in Healthy(c) : Score(v) <= Score(w)}

\* The list's order is arbitrary, that of a map: so is the first of equal scores,
\* and if all are overloaded what round robin picks.
Best(c) ==
    LET candidates == {w \in Healthy(c) : ~IsOverloaded(w)}
    IN  IF candidates = {}
        THEN Healthy(c)
        ELSE {w \in candidates : \A v \in candidates : Score(v) <= Score(w)}

ListWorkers(c) ==
    /\ call[c].at = "idle" /\ workers # {}
    /\ call' = [call EXCEPT ![c] = [at |-> "listed", listed |-> workers, worker |-> NoNode]]
    /\ UNCHANGED registryVars

\* The replica is Pending now, on this worker, which is asked to run it.
Choose(c) ==
    /\ call[c].at = "listed"
    /\ \E w \in Best(c) :
        call' = [call EXCEPT ![c] = [at |-> "chosen", listed |-> {}, worker |-> w]]
    /\ UNCHANGED registryVars

NoneHealthy(c) ==
    /\ call[c].at = "listed" /\ Healthy(c) = {}
    /\ call' = [call EXCEPT ![c] = Idle]
    /\ UNCHANGED registryVars

Accepted(c) ==
    /\ call[c].at = "chosen"
    /\ call' = [call EXCEPT ![c].at = "running"]
    /\ UNCHANGED registryVars

\* The request fails, or the replica ends: another one may be scheduled for it.
Ends(c) ==
    /\ call[c].at \in {"chosen", "running"}
    /\ call' = [call EXCEPT ![c] = Idle]
    /\ UNCHANGED registryVars

\* A worker that is removed leaves failed replicas.
RemoveWorker(w) ==
    /\ Remove(w)
    /\ call' = [c \in Calls |-> IF call[c].at = "running" /\ call[c].worker = w
                                THEN Idle ELSE call[c]]

Next ==
    \/ RegistryOther /\ UNCHANGED call
    \/ \E w \in Workers :
        \/ (BeginRegistration(w) \/ SaveHeartbeat(w)) /\ UNCHANGED call
        \/ RemoveWorker(w)
    \/ \E c \in Calls :
        \/ ListWorkers(c) \/ Choose(c) \/ NoneHealthy(c) \/ Accepted(c) \/ Ends(c)

Spec == Init /\ [][Next]_vars

-----------------------------------------------------------------------------
TypeOK ==
    /\ RegistryTypeOK
    /\ call \in [Calls -> [at : {"idle", "listed", "chosen", "running"},
                           listed : SUBSET Workers,
                           worker : Workers \cup {NoNode}]]

\* No replica goes to a host whose last metrics say it is overloaded, whoever pushed
\* them and through whichever entry the scheduler reads them, while there is a choice
\* -- unless two registrations gave a host two nodes.
AvoidsOverload ==
    [][\A c \in Calls :
        call[c].at = "listed" /\ call'[c].at = "chosen" =>
            LET h == Host[call'[c].worker]
                hosts == {Host[w] : w \in Healthy(c)} \ split
            IN  h \notin split /\ latest[h] \in Overloaded =>
                    \A g \in hosts : latest[g] \in Overloaded]_vars

\* The calls whose replica is, or will be, on a host.
Placed(h) ==
    {c \in Calls : /\ call[c].at \in {"chosen", "running"}
                   /\ call[c].worker \in workers /\ Host[call[c].worker] = h}

\* No replica goes to a host that has more of the service's replicas than another one
\* that is no busier, however many workers each has -- unless some call has chosen a
\* worker and has not had its answer: its replica is not counted.
SpreadsByHost ==
    [][\A c \in Calls :
        /\ call[c].at = "listed" /\ call'[c].at = "chosen"
        /\ \A d \in Calls : call[d].at # "chosen"
        => LET h == Host[call'[c].worker]
               hosts == {Host[w] : w \in Healthy(c)} \ split
           IN  \A g \in hosts :
                h \notin split /\ Utilization[latest[g]] <= Utilization[latest[h]] =>
                    latest[g] \in Overloaded \/ Cardinality(Placed(h)) <= Cardinality(Placed(g))]_vars
=============================================================================
