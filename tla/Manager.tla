------------------------------ MODULE Manager ------------------------------
(***************************************************************************)
(* The manager's handling of replicas (manager/manager.go, and the HTTP    *)
(* handlers of manager/server.go that call it): create and schedule, stop, *)
(* restart, status updates, heartbeats, and the dead worker detector.      *)
(*                                                                         *)
(* Every HTTP request runs in a goroutine of its own and the store locks   *)
(* single Gets and Puts only, so each action below is what happens between *)
(* two accesses to shared state, and a read-modify-write is two actions    *)
(* with the snapshot kept in between.  The module is open: Cluster joins   *)
(* its calls with the workers' handlers.                                   *)
(***************************************************************************)
EXTENDS Reports, Naturals

CONSTANTS NoReplica,  \* not a replica: the caller is the API, not a restart
          MaxStops    \* bound on the API's stop requests for one replica

ASSUME NoReplicaAssumption == NoReplica \notin Replicas
ASSUME MaxStopsAssumption == MaxStops \in Nat

VARIABLES
    store,       \* store[r]: the replica record, or Absent
    sched,       \* sched[r]: how far the call is that creates replica r
    pick,        \* pick[r]: the worker that call chose
    old,         \* old[r]: the replica a restart replaces by r
    stopCalls,   \* stop requests on their way to a worker
    stops,       \* stops[r]: stop requests the API has made for r
    handlers,    \* status updates between their Get and their Put
    registered,  \* the workers in the store
    stale,       \* those of them without a heartbeat for 30s
    beating,     \* heartbeat handlers between their Get and their Put
    dead,        \* the worker the detector has just removed
    orphans      \* the records the detector has listed and not yet saved

schedVars == <<sched, pick, old>>
stopVars == <<stopCalls, stops>>
registryVars == <<registered, stale, beating>>
detectorVars == <<dead, orphans>>
managerVars == <<store, schedVars, stopVars, handlers, registryVars, detectorVars>>

\* stopping, posting, replacing: a restart, before it stores its new record;
\* created .. accepted: scheduleReplica; done, failed: how that returned.
SchedStates == {"none", "stopping", "posting", "replacing",
                "created", "picked", "assigned", "accepted", "done", "failed"}

StopCall == [replica: Replicas, worker: Workers, container: BOOLEAN,
             by: Replicas \cup {NoReplica}, n: 0..MaxStops]

Handler == [report: Report, snap: ReplicaRecord]

Orphan == [replica: Replicas, snap: ReplicaRecord]

ManagerInit ==
    /\ store = [r \in Replicas |-> Absent]
    /\ sched = [r \in Replicas |-> "none"]
    /\ pick = [r \in Replicas |-> NoWorker]
    /\ old = [r \in Replicas |-> NoReplica]
    /\ stopCalls = {} /\ stops = [r \in Replicas |-> 0]
    /\ handlers = {}
    /\ registered = {} /\ stale = {} /\ beating = {}
    /\ dead = NoWorker /\ orphans = {}

Put(r, rec) == store' = [store EXCEPT ![r] = rec]

\* Variant: getReplica without its nil check.
FoundOrNil(r) == store[r] \in ReplicaRecord \cup {Absent}

Found(r) == store[r] # Absent
Advance(r, from, to) == sched[r] = from /\ sched' = [sched EXCEPT ![r] = to]

-----------------------------------------------------------------------------
\* Create and schedule a replica

\* POST /replicas: createReplica.
CreateReplica(r) ==
    /\ Advance(r, "none", "created")
    /\ Put(r, NewReplica)
    /\ UNCHANGED <<pick, old, stopVars, handlers, registryVars, detectorVars, reports>>

\* Which worker the scheduler picks hangs on the order in which Go walks the
\* map of workers: any worker that is not stale.
PickWorker(r) ==
    /\ Advance(r, "created", "picked")
    /\ \E w \in registered \ stale : pick' = [pick EXCEPT ![r] = w]
    /\ UNCHANGED <<store, old, stopVars, handlers, registryVars, detectorVars, reports>>

NoWorkerAvailable(r) ==
    /\ registered \subseteq stale
    /\ Advance(r, "created", "failed")
    /\ UNCHANGED <<store, pick, old, stopVars, handlers, registryVars, detectorVars, reports>>

\* Variant: SetWorkerID is forgotten.
Unassigned(r) == IF pick[r] \in Workers THEN NewReplica ELSE Absent

\* scheduleReplica's own copy of the record, from the choice to the end.
Assigned(r) == SetWorkerID(NewReplica, pick[r])

AssignWorker(r) ==
    /\ Advance(r, "picked", "assigned")
    /\ Put(r, Assigned(r))
    /\ UNCHANGED <<pick, old, stopVars, handlers, registryVars, detectorVars, reports>>

\* The worker's answer to the deploy request, or the lack of one.
DeployAccepted(r) ==
    /\ Advance(r, "assigned", "accepted")
    /\ UNCHANGED <<store, pick, old, stopVars, handlers, registryVars, detectorVars>>

\* Variant: a failed request is tried again, on any worker.
DeployRetried(r) ==
    /\ \/ Advance(r, "assigned", "created")
       \/ Advance(r, "accepted", "created")
    /\ UNCHANGED <<store, pick, old, stopVars, handlers, registryVars, detectorVars>>

DeployFailed(r) ==
    /\ \/ Advance(r, "assigned", "failed")
       \/ Advance(r, "accepted", "failed")
    /\ UNCHANGED <<store, pick, old, stopVars, handlers, registryVars, detectorVars>>

\* The state is set on the copy taken before the call, and that is stored.
MarkScheduled(r) ==
    /\ Advance(r, "accepted", "done")
    /\ Put(r, SetState(Assigned(r), "running"))
    /\ UNCHANGED <<pick, old, stopVars, handlers, registryVars, detectorVars, reports>>

-----------------------------------------------------------------------------
\* Stop and restart a replica

\* stopReplica's checks, both on what the store holds now.
Stoppable(r) == store[r].state = "running" /\ store[r].worker \in registered

SendStop(r, by, n) ==
    /\ Stoppable(r)
    /\ stopCalls' = stopCalls \cup
           {[replica |-> r, worker |-> store[r].worker,
             container |-> store[r].container, by |-> by, n |-> n]}

\* DELETE /replicas/{id}
StopReplica(r) ==
    /\ stops[r] < MaxStops
    /\ stops' = [stops EXCEPT ![r] = @ + 1]
    /\ SendStop(r, NoReplica, stops[r] + 1)
    /\ UNCHANGED <<store, schedVars, handlers, registryVars, detectorVars, reports>>

\* The worker accepted the request or could not be reached: a restart goes on
\* either way.
StopCallEnds(c) ==
    /\ c \in stopCalls
    /\ stopCalls' = stopCalls \ {c}
    /\ IF c.by = NoReplica THEN UNCHANGED sched
                           ELSE Advance(c.by, "posting", "replacing")
    /\ UNCHANGED <<store, pick, old, stops, handlers, registryVars, detectorVars>>

\* POST /replicas/{id}/restart: n is the new UUID.
BeginRestart(r, n) ==
    /\ Found(r)
    /\ Advance(n, "none", IF store[r].state = "running" THEN "stopping" ELSE "replacing")
    /\ old' = [old EXCEPT ![n] = r]
    /\ UNCHANGED <<store, pick, stopVars, handlers, registryVars, detectorVars, reports>>

\* stopReplica reads the record again and may find it no longer stoppable,
\* which a restart ignores.
RestartStop(r, n) ==
    /\ old[n] = r
    /\ \/ Advance(n, "stopping", "posting") /\ SendStop(r, n, 0)
       \/ /\ Advance(n, "stopping", "replacing")
          /\ ~Stoppable(r)
          /\ UNCHANGED stopCalls
    /\ UNCHANGED <<store, pick, old, stops, handlers, registryVars, detectorVars, reports>>

\* Variant: the replica is scheduled again under its old UUID.
ReplaceInPlace(r, n) ==
    /\ old[n] = r
    /\ sched[n] = "replacing"
    /\ sched' = [sched EXCEPT ![n] = "done", ![r] = "created"]
    /\ Put(r, NewReplica)
    /\ old' = [old EXCEPT ![n] = NoReplica]
    /\ UNCHANGED <<pick, stopVars, handlers, registryVars, detectorVars, reports>>

\* The old record goes, the new one comes.
ReplaceReplica(r, n) ==
    /\ old[n] = r
    /\ Advance(n, "replacing", "created")
    /\ store' = [store EXCEPT ![r] = Absent, ![n] = NewReplica]
    /\ old' = [old EXCEPT ![n] = NoReplica]
    /\ UNCHANGED <<pick, stopVars, handlers, registryVars, detectorVars, reports>>

-----------------------------------------------------------------------------
\* PUT /replicas/{id}/status

\* updateReplicaStatus reads the record ...
ReceiveReport(m) ==
    /\ m \in reports
    /\ \A h \in handlers : h.report # m
    /\ Found(m.replica)
    /\ handlers' = handlers \cup {[report |-> m, snap |-> store[m.replica]]}
    /\ UNCHANGED <<store, schedVars, stopVars, registryVars, detectorVars, reports>>

\* Variant: the request for a deleted replica is left unanswered.
IgnoreReport(m) ==
    /\ m \in reports
    /\ \A h \in handlers : h.report # m
    /\ ~Found(m.replica)
    /\ UNCHANGED <<managerVars, reports>>

\* ... or finds none and answers with an error ...
RejectReport(m) ==
    /\ m \in reports
    /\ \A h \in handlers : h.report # m
    /\ ~Found(m.replica)
    /\ reports' = reports \ {m}
    /\ UNCHANGED managerVars

\* ... and writes its own copy back, whatever the store holds by then.
SaveReport(h) ==
    /\ h \in handlers
    /\ handlers' = handlers \ {h}
    /\ Put(h.report.replica, ApplyReport(h.snap, h.report))
    /\ reports' = reports \ {h.report}
    /\ UNCHANGED <<schedVars, stopVars, registryVars, detectorVars>>

\* The network loses a report, or refuses to carry it.
LoseReport(m) ==
    /\ "loss" \in Faults
    /\ m \in reports
    /\ \A h \in handlers : h.report # m
    /\ reports' = reports \ {m}
    /\ UNCHANGED managerVars

-----------------------------------------------------------------------------
\* The worker registry and the dead worker detector

Register(w) ==
    /\ registered' = registered \cup {w}
    /\ UNCHANGED <<store, schedVars, stopVars, handlers, stale, beating, detectorVars, reports>>

\* 30s pass without a heartbeat.  A heartbeat already in its handler takes
\* less than that.
GoStale(w) ==
    /\ w \in registered \ (stale \cup beating)
    /\ stale' = stale \cup {w}
    /\ UNCHANGED <<store, schedVars, stopVars, handlers, registered, beating, detectorVars, reports>>

\* A heartbeat changes something only for a stale worker, so only those are
\* modelled.  A worker that is no longer registered is turned away.
HeartbeatRead(w) ==
    /\ w \in registered \cap stale
    /\ beating' = beating \cup {w}
    /\ UNCHANGED <<store, schedVars, stopVars, handlers, registered, stale, detectorVars, reports>>

HeartbeatSave(w) ==
    /\ w \in beating
    /\ beating' = beating \ {w}
    /\ registered' = registered \cup {w}
    /\ stale' = stale \ {w}
    /\ UNCHANGED <<store, schedVars, stopVars, handlers, detectorVars, reports>>

\* The detector handles one dead worker at a time: remove it,
DetectorRemove(w) ==
    /\ dead = NoWorker /\ orphans = {}
    /\ w \in registered \cap stale
    /\ registered' = registered \ {w}
    /\ stale' = stale \ {w}
    /\ dead' = w
    /\ UNCHANGED <<store, schedVars, stopVars, handlers, beating, orphans, reports>>

OrphanStates == {"running", "pending"}

\* list the replicas assigned to it,
DetectorList ==
    /\ dead # NoWorker
    /\ dead' = NoWorker
    /\ orphans' = {[replica |-> r, snap |-> store[r]] : r \in
                      {q \in Replicas : /\ store[q].worker = dead
                                        /\ store[q].state \in OrphanStates}}
    /\ UNCHANGED <<store, schedVars, stopVars, handlers, registryVars, reports>>

\* and mark each as failed.
DetectorMark(o) ==
    /\ o \in orphans
    /\ orphans' = orphans \ {o}
    /\ Put(o.replica, SetError(o.snap))
    /\ UNCHANGED <<schedVars, stopVars, handlers, registryVars, dead, reports>>

-----------------------------------------------------------------------------
ManagerTypeOK ==
    /\ store \in [Replicas -> ReplicaRecord \cup {Absent}]
    /\ sched \in [Replicas -> SchedStates]
    /\ pick \in [Replicas -> Workers \cup {NoWorker}]
    /\ old \in [Replicas -> Replicas \cup {NoReplica}]
    /\ stopCalls \subseteq StopCall
    /\ stops \in [Replicas -> 0..MaxStops]
    /\ handlers \subseteq Handler
    /\ registered \subseteq Workers
    /\ stale \subseteq Workers
    /\ beating \subseteq Workers
    /\ dead \in Workers \cup {NoWorker}
    /\ orphans \subseteq Orphan
=============================================================================
