------------------------------ MODULE Services ------------------------------
(***************************************************************************)
(* The manager's services (service/service.go, the handlers of             *)
(* manager/server.go:430-693 and manager/manager.go:714-823) over a table  *)
(* of replicas.  Cluster models how one replica is scheduled, stopped and  *)
(* reported; here each of these is one step, with the outcomes it may      *)
(* have.                                                                   *)
(*                                                                         *)
(* The store keeps pointers to services and copies nothing: two handlers   *)
(* and the reconciler may hold the same object, or one that the store no   *)
(* longer has.  So services are objects, and the store maps IDs to them.   *)
(***************************************************************************)
EXTENDS Naturals, FiniteSets

CONSTANTS Clients,      \* whoever sends requests
          Objects,      \* service objects, each named by the UUID minted with it
          NoObject,     \* a nil pointer
          Replicas,     \* replica UUIDs
          Names,        \* names of services, all of one app
          Configs,      \* what images and commands a service may have
          Policies,     \* the restart policies in use
          MaxReplicas,  \* bound on the wanted number of replicas
          MaxEnds,      \* bound on the containers that end by themselves
          MaxFaults,    \* bound on deploy requests that fail and on slow stops, together
          Faults        \* which there are: "refused", "lost", "slow"

\* UUIDs have 128 bits.
ASSUME ReplicasAssumption == IsFiniteSet(Replicas)
ASSUME NoObjectAssumption == NoObject \notin Objects
ASSUME BoundsAssumption == MaxReplicas \in Nat /\ MaxEnds \in Nat /\ MaxFaults \in Nat
ASSUME FaultsAssumption == Faults \subseteq {"refused", "lost", "slow"}
ASSUME PoliciesAssumption == Policies \subseteq {"always", "on-failure", "never"}

VARIABLES
    object,     \* object[o]: the fields of service object o
    services,   \* services[i]: the object stored under ID i
    replica,    \* replica[r]: the record stored under r
    containers, \* the replicas whose containers run at a worker
    stopping,   \* the replicas a worker has accepted a stop request for
    requests,   \* requests being handled, one record each
    ends,       \* containers that ended by themselves so far
    faults,     \* deploy requests that failed so far
    slow        \* passes that began while a stop was under way, so far

serviceVars == <<object, services>>
replicaVars == <<replica, containers, stopping>>
budgetVars == <<ends, faults, slow>>
servicesVars == <<serviceVars, replicaVars, requests, budgetVars>>

\* An object is made by a POST; one with another ID than its own is an update.
Service == [id : Objects, name : Names, replicas : 0..MaxReplicas, config : Configs,
            policy : Policies, state : {"running", "stopped"}]
NoService == [id |-> NoObject]

Record == [service : Objects, config : Configs,
           state : {"pending", "running", "completed", "failed"}]
Absent == [state |-> "absent"]

\* A replica being scheduled, with the scheduling call's own copy of its record.
Job == [id : Replicas, record : Record]

\* What a handler keeps: the object it holds, the ID it is about, what it has
\* listed and not yet handled (with what it saw running), what it will create.
Request ==
    [by : Clients, op : {"post", "save"}, obj : Objects]
    \cup [by : Clients, op : {"put"}, obj : Objects,
          state : {"running", "stopped", "same", "bad"}]
    \cup [by : Clients, op : {"delete"}, svc : Objects, todo : SUBSET Replicas]
    \cup [by : Clients, op : {"drop"}, ids : SUBSET Objects]
    \cup [by : Clients, op : {"dropping"}, ids : SUBSET Objects, svc : Objects,
          todo : SUBSET Replicas, ran : SUBSET Replicas]
    \cup [by : Clients, op : {"restart"}, old : Replicas, ran : BOOLEAN, record : Record]
    \cup [by : Clients, op : {"replace"}, old : Replicas, record : Record]
    \cup [by : Clients, op : {"schedule"}, job : Job]

ServicesInit ==
    /\ object = [o \in Objects |-> NoService]
    /\ services = [i \in Objects |-> NoObject]
    /\ replica = [r \in Replicas |-> Absent]
    /\ containers = {} /\ stopping = {}
    /\ requests = {}
    /\ ends = 0 /\ faults = 0 /\ slow = 0

Accept(q) == requests' = requests \cup {q}
Finish(q) == requests' = requests \ {q}
Continue(q, p) == requests' = (requests \ {q}) \cup {p}

Stored == {i \in Objects : services[i] # NoObject}
Of(i) == {r \in Replicas : replica[r] # Absent /\ replica[r].service = i}
InState(i, s) == {r \in Of(i) : replica[r].state = s}
Live(i) == InState(i, "running") \cup InState(i, "pending")

-----------------------------------------------------------------------------
\* POST /services

\* getServiceByName: several services may have the name, and any is found first.
ByName(n) == {i \in Stored : object[services[i]].name = n}

\* Variant: a service that was not found is updated as well.
IDOrNil(o, n) == IF ByName(n) = {} THEN {NoObject} ELSE ByName(n)

\* The IDs under which a new object of that name may be stored: an existing
\* service's, or its own.
IDFor(o, n) == IF ByName(n) = {} THEN {o} ELSE ByName(n)

\* The object is filled in and the name looked up ...
Post(c, o, n, k, cfg, p) ==
    /\ object[o] = NoService
    /\ \E i \in IDFor(o, n) :
        object' = [object EXCEPT ![o] = [id |-> i, name |-> n, replicas |-> k,
                                         config |-> cfg, policy |-> p,
                                         state |-> "running"]]
    /\ Accept([by |-> c, op |-> "post", obj |-> o])
    /\ UNCHANGED <<services, replicaVars, budgetVars>>

\* ... and it is stored, whatever has been stored in between.
Save(q, op) ==
    /\ q.op = op
    /\ services' = [services EXCEPT ![object[q.obj].id] = q.obj]
    /\ Finish(q)
    /\ UNCHANGED <<object, replicaVars, budgetVars>>

PostSave(q) == Save(q, "post")

-----------------------------------------------------------------------------
\* PUT /services/{id}

\* The count is written to the object in place, before anything is checked.  A
\* missing service is a nil pointer: the handler panics, with no effect.
Put(c, i, k, s) ==
    /\ i \in Stored
    /\ object' = [object EXCEPT ![services[i]].replicas = k]
    /\ Accept([by |-> c, op |-> "put", obj |-> services[i], state |-> s])
    /\ UNCHANGED <<services, replicaVars, budgetVars>>

PutRejected(q) ==
    /\ q.op = "put" /\ q.state = "bad"
    /\ Finish(q)
    /\ UNCHANGED <<serviceVars, replicaVars, budgetVars>>

PutState(q) ==
    /\ q.op = "put" /\ q.state # "bad"
    /\ object' = IF q.state = "same" THEN object
                 ELSE [object EXCEPT ![q.obj].state = q.state]
    /\ Continue(q, [by |-> q.by, op |-> "save", obj |-> q.obj])
    /\ UNCHANGED <<services, replicaVars, budgetVars>>

\* The object goes back to the store, even if another one took its place or the
\* service was deleted.
PutSave(q) == Save(q, "save")

-----------------------------------------------------------------------------
\* Replicas, one step each

\* stopReplica: only what is recorded as running can be stopped.
Stops(r) == IF replica[r].state = "running" THEN {r} ELSE {}

StopReplica(r) ==
    /\ stopping' = stopping \cup Stops(r)
    /\ UNCHANGED <<serviceVars, replica, containers, requests, budgetVars>>

\* scheduleReplica stores its own copy as running, whatever the store holds ...
Launched(j) ==
    /\ replica' = [replica EXCEPT ![j.id] = [j.record EXCEPT !.state = "running"]]
    /\ containers' = containers \cup {j.id}
    /\ UNCHANGED <<stopping, budgetVars>>

MayFault(how) == how \in Faults /\ faults + slow < MaxFaults
Fails(how) == MayFault(how) /\ faults' = faults + 1

\* ... or fails: there is no healthy worker, or the worker does not take it ...
Refused == Fails("refused") /\ UNCHANGED <<replicaVars, ends, slow>>

\* ... or it does, and reports the start, but its answer is lost.
AnswerLost(j) ==
    /\ Fails("lost")
    /\ containers' = containers \cup {j.id}
    /\ replica' = IF replica[j.id] = Absent THEN replica
                  ELSE [replica EXCEPT ![j.id].state = "running"]
    /\ UNCHANGED <<stopping, ends, slow>>

\* The worker carries out a stop; of a container that has ended nothing is said.
StopDone(r) ==
    /\ r \in stopping
    /\ stopping' = stopping \ {r}
    /\ containers' = containers \ {r}
    /\ replica' = IF r \in containers /\ replica[r].state = "running"
                  THEN [replica EXCEPT ![r].state = "completed"] ELSE replica
    /\ UNCHANGED <<serviceVars, requests, budgetVars>>

\* A container ends by itself, or with its worker: exit codes 0, 137 and 143
\* count as completed.
End(r, how) ==
    /\ r \in containers
    /\ ends < MaxEnds /\ ends' = ends + 1
    /\ containers' = containers \ {r}
    /\ replica' = IF replica[r].state = "running"
                  THEN [replica EXCEPT ![r].state = how] ELSE replica
    /\ UNCHANGED <<serviceVars, stopping, requests, faults, slow>>

-----------------------------------------------------------------------------
\* DELETE /services/{name}

Delete(c, i) ==
    /\ i \in Stored
    /\ Accept([by |-> c, op |-> "delete", svc |-> i, todo |-> InState(i, "running")])
    /\ UNCHANGED <<serviceVars, replicaVars, budgetVars>>

DeleteStop(q, r) ==
    /\ q.op = "delete" /\ r \in q.todo
    /\ stopping' = stopping \cup Stops(r)
    /\ Continue(q, [q EXCEPT !.todo = @ \ {r}])
    /\ UNCHANGED <<serviceVars, replica, containers, budgetVars>>

\* The records of the replicas stay.
DeleteEnd(q) ==
    /\ q.op = "delete" /\ q.todo = {}
    /\ services' = [services EXCEPT ![q.svc] = NoObject]
    /\ Finish(q)
    /\ UNCHANGED <<object, replicaVars, budgetVars>>

-----------------------------------------------------------------------------
\* DELETE /apps/{name}

Drop(c) ==
    /\ Accept([by |-> c, op |-> "drop", ids |-> Stored])
    /\ UNCHANGED <<serviceVars, replicaVars, budgetVars>>

\* deleteReplicasForService lists the replicas of one service,
DropList(q, i) ==
    /\ q.op = "drop" /\ i \in q.ids
    /\ Continue(q, [by |-> q.by, op |-> "dropping", ids |-> q.ids \ {i}, svc |-> i,
                    todo |-> Of(i), ran |-> InState(i, "running")])
    /\ UNCHANGED <<serviceVars, replicaVars, budgetVars>>

\* Variant: the records are deleted, and no replica is stopped.
DropUnstopped(q, r) ==
    /\ q.op = "dropping" /\ r \in q.todo
    /\ replica' = [replica EXCEPT ![r] = Absent]
    /\ Continue(q, [q EXCEPT !.todo = @ \ {r}, !.ran = @ \ {r}])
    /\ UNCHANGED <<serviceVars, containers, stopping, budgetVars>>

\* stops those it saw running, and deletes the records of all.
DropReplica(q, r) ==
    /\ q.op = "dropping" /\ r \in q.todo
    /\ stopping' = IF r \in q.ran THEN stopping \cup Stops(r) ELSE stopping
    /\ replica' = [replica EXCEPT ![r] = Absent]
    /\ Continue(q, [q EXCEPT !.todo = @ \ {r}, !.ran = @ \ {r}])
    /\ UNCHANGED <<serviceVars, containers, budgetVars>>

DropService(q) ==
    /\ q.op = "dropping" /\ q.todo = {}
    /\ services' = [services EXCEPT ![q.svc] = NoObject]
    /\ Continue(q, [by |-> q.by, op |-> "drop", ids |-> q.ids])
    /\ UNCHANGED <<object, replicaVars, budgetVars>>

DropEnd(q) ==
    /\ q.op = "drop" /\ q.ids = {}
    /\ Finish(q)
    /\ UNCHANGED <<serviceVars, replicaVars, budgetVars>>

-----------------------------------------------------------------------------
\* POST /replicas/{id}/restart

\* The record is read, and the service's current configuration with it.  If the
\* service is gone that is a nil pointer, and the handler panics.
Restart(c, r) ==
    /\ replica[r] # Absent
    /\ replica[r].service \in Stored
    /\ Accept([by |-> c, op |-> "restart", old |-> r, ran |-> replica[r].state = "running",
               record |-> [service |-> replica[r].service, state |-> "pending",
                           config |-> object[services[replica[r].service]].config]])
    /\ UNCHANGED <<serviceVars, replicaVars, budgetVars>>

RestartDelete(q) ==
    /\ q.op = "restart"
    /\ stopping' = IF q.ran THEN stopping \cup Stops(q.old) ELSE stopping
    /\ replica' = [replica EXCEPT ![q.old] = Absent]
    /\ Continue(q, [by |-> q.by, op |-> "replace", old |-> q.old, record |-> q.record])
    /\ UNCHANGED <<serviceVars, containers, budgetVars>>

RestartCreate(q, n) ==
    /\ q.op = "replace"
    /\ replica' = [replica EXCEPT ![n] = q.record]
    /\ Continue(q, [by |-> q.by, op |-> "schedule", job |-> [id |-> n, record |-> q.record]])
    /\ UNCHANGED <<serviceVars, containers, stopping, budgetVars>>

\* If it fails, the new record stays, as pending.
RestartEnd(q) ==
    /\ q.op = "schedule"
    /\ Launched(q.job) \/ Refused \/ AnswerLost(q.job)
    /\ Finish(q)
    /\ UNCHANGED serviceVars

-----------------------------------------------------------------------------
ServicesTypeOK ==
    /\ object \in [Objects -> Service \cup {NoService}]
    /\ services \in [Objects -> Objects \cup {NoObject}]
    /\ replica \in [Replicas -> Record \cup {Absent}]
    /\ containers \subseteq Replicas
    /\ stopping \subseteq Replicas
    /\ requests \subseteq Request
    /\ ends \in 0..MaxEnds
    /\ faults \in 0..MaxFaults /\ slow \in 0..MaxFaults
=============================================================================
