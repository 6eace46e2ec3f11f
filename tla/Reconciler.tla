----------------------------- MODULE Reconciler -----------------------------
(***************************************************************************)
(* The reconciliation loop of manager/reconcile.go: one goroutine that, on *)
(* each tick, lists the services and compares the wanted with the actual   *)
(* replicas of each.  It counts once, on a list, and acts on that list     *)
(* while handlers, workers and containers go on.                           *)
(***************************************************************************)
EXTENDS Services

VARIABLE pass  \* how far the pass is

\* pc: "idle" and "next" between passes and services; "restart", "scale", "trim",
\* "roll" before a step for one service; the others while a replica is scheduled,
\* or before what follows.  left: services listed; svc: the object at hand;
\* failed, running: the replicas listed, with their configurations; actual, wanted:
\* how many there are and should be; todo: those that may be stopped; old: the
\* failed one being replaced; job: its replacement, or another replica being created.
Stepping == {"restart", "scale", "trim", "roll"}
Scheduling == {"restarting", "adding", "rolling"}
Scheduled == {"restarted", "unrestarted", "unadded"}

Snapshot == [id : Replicas, config : Configs]

ServicePass ==
    [pc : Stepping \cup Scheduling \cup Scheduled, left : SUBSET Objects,
     svc : Objects, failed : SUBSET Replicas, running : SUBSET Snapshot,
     actual : Nat, wanted : 0..MaxReplicas, todo : SUBSET Replicas,
     old : SUBSET Replicas, job : SUBSET Job]
Pass == [pc : {"idle"}] \cup [pc : {"next"}, left : SUBSET Objects] \cup ServicePass

Idle == [pc |-> "idle"]
reconcilerVars == <<servicesVars, pass>>

ReconcilerInit == ServicesInit /\ pass = Idle

Busy == pass.pc \notin {"idle", "next"}
At(pc) == pass.pc = pc
NewJob(n) == LET o == object[pass.svc] IN
             [id |-> n, record |-> [service |-> o.id, config |-> o.config, state |-> "pending"]]

-----------------------------------------------------------------------------
\* Where the pass goes: what it decides on is its own, or never changes in a
\* service object, so a decision is part of the step before it.

NextService(left) == IF left = {} THEN Idle ELSE [pc |-> "next", left |-> left]

Ids(snapshots) == {s.id : s \in snapshots}
Changed(p) == \E s \in p.running : s.config # object[p.svc].config

\* All running replicas are replaced if one is outdated.
RollOver(p) == IF Changed(p) THEN [p EXCEPT !.pc = "roll", !.todo = Ids(p.running)]
                             ELSE NextService(p.left)

Rolled(p) == IF p.todo = {} THEN NextService(p.left) ELSE [p EXCEPT !.pc = "roll"]

\* Replicas are missing, or some of the running ones are too many -- as far as
\* there are any: pending ones are part of the excess, but are not stopped.
Scale(p) ==
    IF p.actual < p.wanted THEN [p EXCEPT !.pc = "scale"]
    ELSE IF p.actual > p.wanted /\ p.todo # {} THEN [p EXCEPT !.pc = "trim"]
    ELSE RollOver(p)

\* A failed replica always has an error text, and never one about a stop.
ShouldRestart(o) == object[o].policy \in {"always", "on-failure"}

Restarts(p) == IF p.failed # {} /\ ShouldRestart(p.svc) THEN [p EXCEPT !.pc = "restart"]
                                                        ELSE Scale(p)

-----------------------------------------------------------------------------
\* reconcileServices: the services are listed, as pointers.  The loop waits ten
\* seconds between two passes, which is what a container is given to stop: most
\* stops are done when the next pass begins.
Tick ==
    /\ At("idle")
    /\ \/ stopping = {} /\ UNCHANGED slow
       \/ stopping # {} /\ MayFault("slow") /\ slow' = slow + 1
    /\ Stored # {}
    /\ pass' = NextService({services[i] : i \in Stored})
    /\ UNCHANGED <<serviceVars, replicaVars, requests, ends, faults>>

\* Variant: stopped services are reconciled like any other.
NeverSkip(o) == FALSE
Skip(o) == object[o].state = "stopped"

SkipStopped(o) ==
    /\ At("next") /\ o \in pass.left
    /\ Skip(o)
    /\ pass' = NextService(pass.left \ {o})
    /\ UNCHANGED servicesVars

\* Variant: completed replicas are counted, too.
CountCompleted(i) == Cardinality(Live(i) \cup InState(i, "completed"))
Count(i) == Cardinality(Live(i))

\* The replicas of a service are listed and counted, and the count wanted is read.
Begin(o) ==
    /\ At("next") /\ o \in pass.left
    /\ ~Skip(o)
    /\ LET i == object[o].id
           runs == InState(i, "running") IN
       pass' = Restarts([pc |-> "restart", left |-> pass.left \ {o}, svc |-> o,
                         failed |-> InState(i, "failed"),
                         running |-> {[id |-> r, config |-> replica[r].config] : r \in runs},
                         actual |-> Count(i), wanted |-> object[o].replicas,
                         todo |-> runs, old |-> {}, job |-> {}])
    /\ UNCHANGED servicesVars

-----------------------------------------------------------------------------
\* Creating a replica: it is stored as pending, then scheduled ...
Create(n, p) ==
    /\ replica' = [replica EXCEPT ![n] = NewJob(n).record]
    /\ pass' = [p EXCEPT !.job = {NewJob(n)}]

\* ... with success, or an error.
Succeeds(pc, p) ==
    /\ At(pc)
    /\ \E j \in pass.job : Launched(j)
    /\ pass' = p
    /\ UNCHANGED <<serviceVars, requests>>

Errs(pc, p) ==
    /\ At(pc)
    /\ \E j \in pass.job : Refused \/ AnswerLost(j)
    /\ pass' = p
    /\ UNCHANGED <<serviceVars, requests>>

GoTo(pc) == [pass EXCEPT !.pc = pc]
Forgotten == [pass EXCEPT !.job = {}, !.old = {}]
Deleted(S) == replica' = [r \in Replicas |-> IF r \in S THEN Absent ELSE replica[r]]

\* The record of a replica that could not be scheduled is deleted.
Undo(pc, p) ==
    /\ At(pc)
    /\ Deleted({j.id : j \in pass.job})
    /\ pass' = p
    /\ UNCHANGED <<serviceVars, containers, stopping, requests, budgetVars>>

\* Failed replicas, one after the other.
RestartFailed(f, n) ==
    /\ At("restart") /\ f \in pass.failed
    /\ Create(n, [pass EXCEPT !.pc = "restarting", !.old = {f}, !.failed = @ \ {f}])
    /\ UNCHANGED <<serviceVars, containers, stopping, requests, budgetVars>>

FailedRestarted == Succeeds("restarting", GoTo("restarted"))
FailedNotRestarted == Errs("restarting", GoTo("unrestarted"))

\* Variant: restarted replicas are not counted.
RestartedUncounted == pass.actual
RestartedCounted == pass.actual + 1

\* The failed record goes once its replacement runs.
DeleteFailed ==
    /\ At("restarted")
    /\ Deleted(pass.old)
    /\ pass' = Restarts([Forgotten EXCEPT !.actual = RestartedCounted])
    /\ UNCHANGED <<serviceVars, containers, stopping, requests, budgetVars>>

UndoRestart == Undo("unrestarted", Restarts(Forgotten))

\* Missing replicas.
ScaleUp(n) ==
    /\ At("scale")
    /\ Create(n, GoTo("adding"))
    /\ UNCHANGED <<serviceVars, containers, stopping, requests, budgetVars>>

ReplicaAdded == Succeeds("adding", Scale([Forgotten EXCEPT !.actual = @ + 1]))
ReplicaNotAdded == Errs("adding", GoTo("unadded"))

\* The first failure ends the scaling up.
UndoAdd == Undo("unadded", RollOver(Forgotten))

\* The first running replicas of the list, which is in any order.
StopExcess(r) ==
    /\ At("trim") /\ r \in pass.todo
    /\ stopping' = stopping \cup Stops(r)
    /\ pass' = Scale([pass EXCEPT !.actual = @ - 1, !.todo = @ \ {r}])
    /\ UNCHANGED <<serviceVars, replica, containers, requests, budgetVars>>

\* A replica that is stopped gets a successor; one that cannot be is passed over.
RollOne(r, n) ==
    /\ At("roll") /\ r \in pass.todo
    /\ Stops(r) # {}
    /\ stopping' = stopping \cup Stops(r)
    /\ Create(n, [pass EXCEPT !.pc = "rolling", !.todo = @ \ {r}])
    /\ UNCHANGED <<serviceVars, containers, requests, budgetVars>>

RollPassesOver(r) ==
    /\ At("roll") /\ r \in pass.todo
    /\ Stops(r) = {}
    /\ pass' = Rolled([pass EXCEPT !.todo = @ \ {r}])
    /\ UNCHANGED servicesVars

\* A failure leaves the successor's record behind, as pending.
RolledOne == Succeeds("rolling", Rolled(Forgotten))
NotRolledOne == Errs("rolling", Rolled(Forgotten))

-----------------------------------------------------------------------------
\* A step of the loop; minted: the UUIDs a new replica may get.
ForOneService(minted) ==
    \/ FailedRestarted \/ FailedNotRestarted \/ DeleteFailed \/ UndoRestart
    \/ ReplicaAdded \/ ReplicaNotAdded \/ UndoAdd
    \/ RolledOne \/ NotRolledOne
    \/ \E n \in minted : ScaleUp(n)
    \/ \E f \in pass.failed, n \in minted : RestartFailed(f, n)
    \/ \E r \in pass.todo : \/ StopExcess(r) \/ RollPassesOver(r)
                            \/ \E n \in minted : RollOne(r, n)

Reconcile(minted) ==
    \/ Tick
    \/ At("next") /\ \E o \in pass.left : SkipStopped(o) \/ Begin(o)
    \/ Busy /\ ForOneService(minted)
=============================================================================
