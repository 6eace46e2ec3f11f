------------------------------ MODULE Cluster ------------------------------
(***************************************************************************)
(* The manager and its workers.  Each HTTP request joins the caller's half *)
(* from one module with the callee's half from the other; everything else  *)
(* a component does by itself, interleaved with the rest.                  *)
(***************************************************************************)
EXTENDS Manager, Worker

VARIABLE tainted  \* history, not code: replicas one of two known races hit

vars == <<managerVars, workerVars, reports, tainted>>

Init == ManagerInit /\ WorkerInit /\ ReportsInit /\ tainted = {}

-----------------------------------------------------------------------------
\* Requests between the two

\* POST /worker
Boot(w) == Register(w) /\ Join(w)

\* POST /replicas to the chosen worker: taken, or not answered.
Deploy(r) == DeployAccepted(r) /\ AcceptDeploy(pick[r], r)

DeployRefused(r) ==
    /\ sched[r] = "assigned"
    /\ ~Serving(pick[r]) \/ "loss" \in Faults
    /\ DeployFailed(r)
    /\ UNCHANGED <<workerVars, reports>>

\* The worker took it, but its answer never arrives.
DeployAnswerLost(r) ==
    /\ sched[r] = "accepted"
    /\ proc[pick[r]] = "down" \/ "loss" \in Faults
    /\ DeployFailed(r)
    /\ UNCHANGED <<workerVars, reports>>

\* POST /replicas/{id}/stop
StopDelivered(c) == StopCallEnds(c) /\ AcceptStop(c.worker, c.replica, c.container)

StopRefused(c) ==
    /\ ~Serving(c.worker) \/ "loss" \in Faults
    /\ StopCallEnds(c)
    /\ UNCHANGED <<workerVars, reports>>

\* POST /worker/{id}/heartbeat
Heartbeat(w) == proc[w] \in {"joined", "up"} /\ HeartbeatRead(w)

\* Heartbeats stay away: for good once the process is told to stop, or is gone.
Silence(w) ==
    /\ proc[w] \in {"stopping", "down"} \/ "stale" \in Faults
    /\ GoStale(w)

-----------------------------------------------------------------------------
\* History

\* A writer of the manager puts back a copy that the store has moved on from.
LostUpdate(r) ==
    \/ sched[r] = "accepted" /\ sched'[r] = "done" /\ store[r] # Assigned(r)
    \/ \E h \in handlers \ handlers' : h.report.replica = r /\ h.snap # store[r]
    \/ \E o \in orphans \ orphans' : o.replica = r /\ o.snap # store[r]

\* A stop request is carried out without its container's ID.
BlindStop(r) ==
    \E w \in Workers : /\ loop[w].pc = "stop" /\ loop'[w].pc = "call"
                       /\ loop[w].replica = r /\ ~loop[w].container

History == tainted' = tainted \cup {r \in Replicas : LostUpdate(r) \/ BlindStop(r)}

-----------------------------------------------------------------------------
\* A step of the manager alone, of a worker alone, of both.
Manage(A) == A /\ UNCHANGED workerVars /\ History
Work(A) == A /\ UNCHANGED managerVars /\ History
Meet(A) == A /\ History

ScheduleNext(r) ==
    \/ Manage(CreateReplica(r)) \/ Manage(PickWorker(r)) \/ Manage(NoWorkerAvailable(r))
    \/ Manage(AssignWorker(r)) \/ Manage(MarkScheduled(r))
    \/ Meet(Deploy(r)) \/ Meet(DeployRefused(r)) \/ Meet(DeployAnswerLost(r))

StopNext(r) ==
    \/ Manage(StopReplica(r))
    \/ \E n \in Replicas : \/ Manage(BeginRestart(r, n)) \/ Manage(RestartStop(r, n))
                           \/ Manage(ReplaceReplica(r, n))

StopCallNext(c) == Meet(StopDelivered(c)) \/ Meet(StopRefused(c))

ReportNext(m) ==
    Manage(ReceiveReport(m)) \/ Manage(RejectReport(m)) \/ Manage(LoseReport(m))

RegistryNext(w) ==
    \/ Meet(Boot(w)) \/ Manage(Heartbeat(w)) \/ Manage(Silence(w))
    \/ Manage(HeartbeatSave(w)) \/ Manage(DetectorRemove(w))

WorkerNext(w) ==
    \/ Work(Listen(w)) \/ Work(Cancel(w)) \/ Work(Exit(w)) \/ Work(Crash(w))
    \/ Work(StartContainer(w)) \/ Work(StartFails(w))
    \/ Work(BeginStop(w)) \/ Work(StopUnknown(w)) \/ Work(StopContainer(w))
    \/ Work(StopGone(w)) \/ Work(StopFails(w)) \/ Work(Return(w))

ContainerNext(w, r) ==
    \/ Work(ContainerExit(w, r)) \/ Work(MonitorExit(w, r)) \/ Work(MonitorError(w, r))
    \/ Work(MonitorReturn(w, r)) \/ Work(MonitorCancel(w, r))

Next ==
    \/ \E r \in Replicas : ScheduleNext(r) \/ StopNext(r)
    \/ \E c \in stopCalls : StopCallNext(c)
    \/ \E m \in reports : ReportNext(m)
    \/ \E h \in handlers : Manage(SaveReport(h))
    \/ \E w \in Workers : RegistryNext(w) \/ WorkerNext(w)
    \/ \E w \in Workers, r \in Replicas : ContainerNext(w, r)
    \/ Manage(DetectorList)
    \/ \E o \in orphans : Manage(DetectorMark(o))

Spec == Init /\ [][Next]_vars

(***************************************************************************)
(* Fairness: goroutines run, the runtime answers, requests arrive or fail. *)
(* What users, failures and containers do is not fair, nor is silence.     *)
(***************************************************************************)
ManagerFairness ==
    /\ \A r \in Replicas :
        /\ WF_vars(Manage(\/ PickWorker(r) \/ NoWorkerAvailable(r) \/ AssignWorker(r)
                          \/ MarkScheduled(r)))
        /\ WF_vars(\E q \in Replicas : Manage(RestartStop(q, r) \/ ReplaceReplica(q, r)))
        /\ WF_vars(Meet(Deploy(r) \/ DeployRefused(r)))
    /\ WF_vars(\E m \in reports : Manage(ReceiveReport(m) \/ RejectReport(m)))
    /\ WF_vars(\E h \in handlers : Manage(SaveReport(h)))
    /\ WF_vars(\E c \in stopCalls : StopCallNext(c))
    /\ WF_vars(Manage(DetectorList \/ \E o \in orphans : DetectorMark(o)))

WorkerFairness ==
    \A w \in Workers :
        /\ WF_vars(Work(Listen(w)))
        /\ WF_vars(Work(Exit(w)))
        /\ WF_vars(Work(\/ StartContainer(w) \/ StartFails(w) \/ BeginStop(w)
                        \/ StopUnknown(w) \/ StopContainer(w) \/ StopGone(w) \/ Return(w)))
        /\ \A r \in Replicas :
            WF_vars(Work(MonitorExit(w, r) \/ MonitorReturn(w, r) \/ MonitorCancel(w, r)))

FairSpec == Spec /\ ManagerFairness /\ WorkerFairness

-----------------------------------------------------------------------------
\* Type invariant: every variable of both components keeps its type.
TypeOK == ManagerTypeOK /\ WorkerTypeOK /\ tainted \subseteq Replicas

\* What is said of a replica at a worker.
InLoop(w, r) ==
    \/ loop[w].pc = "stop" /\ loop[w].replica = r
    \/ loop[w].pc = "call" /\ loop[w].report.replica = r

InQueue(w, r) == \E i \in DOMAIN events[w] : events[w][i].replica = r

AtWorker(w, r) ==
    \/ container[w][r] # "none"
    \/ monitor[w][r] # "none"
    \/ r \in stopping[w]
    \/ InLoop(w, r)
    \/ InQueue(w, r)

\* Only the worker that scheduleReplica chose ever holds anything of a replica,
\* and the manager's record names that worker, so a stop request always goes
\* where the container is, whatever lost updates, resurrected records and
\* resurrected workers there were.
PlacementAgrees ==
    \A w \in Workers, r \in Replicas :
        AtWorker(w, r) => pick[r] = w /\ (Found(r) => store[r].worker = w)

\* Stale copies and the detector may overwrite a record, but never so that a
\* running replica is assigned to nobody: stopReplica could not find its worker.
RunningHasWorker ==
    \A r \in Replicas : store[r].state = "running" => store[r].worker \in Workers

\* No later report of a replica is sent before the deploy report is answered:
\* without client timeouts the manager never hears of the end of a container
\* before its start, though the handlers of two reports run side by side.
DeployReportFirst ==
    \A m, l \in reports :
        m.from = "deploy" /\ l.replica = m.replica => l.from = "deploy"

\* Nothing about r is on its way or under way any more.
Quiet(r) ==
    /\ sched[r] \in {"none", "done", "failed"}
    /\ \A m \in reports : m.replica # r
    /\ \A c \in stopCalls : c.replica # r
    /\ \A o \in orphans : o.replica # r
    /\ \A w \in Workers :
        /\ ~InLoop(w, r) /\ ~InQueue(w, r)
        /\ monitor[w][r] # "calling"
        /\ monitor[w][r] = "waiting" => container[w][r] = "running"

RunsAt(w, r) == container[w][r] = "running"

\* Once a replica is quiet and its worker is up, the manager records it as
\* running exactly if its container runs -- unless a lost update or a blind stop
\* hit it, the only two ways the record goes wrong while nothing fails.
SettledAgrees ==
    \A r \in Replicas :
        /\ Quiet(r) /\ r \notin tainted /\ Found(r)
        /\ pick[r] # NoWorker /\ proc[pick[r]] = "up"
        => (store[r].state = "running" <=> RunsAt(pick[r], r))

\* When the scheduling call is over, a replica that has completed or failed is
\* never recorded as running again: report handlers that overlap may disagree on
\* how it ended, not on that it ended.
EndedStays ==
    [][\A r \in Replicas :
        /\ sched[r] \in {"done", "failed"} /\ pick[r] # NoWorker /\ proc[pick[r]] = "up"
        /\ store[r].state \in {"completed", "failed"}
        => store'[r].state # "running"]_vars

\* Everything that a finite number of requests sets off comes to its end: every
\* scheduling call returns, every queue drains, every report is answered.
Settles == <>[](\A r \in Replicas : Quiet(r))

\* A stop request that knows its container ends the container, if the worker
\* stays up: the loop gets to it behind reports the manager has to answer.
StopTakesEffect ==
    \A w \in Workers, r \in Replicas :
        (\E i \in DOMAIN events[w] :
            events[w][i] = [action |-> "stop", replica |-> r, container |-> TRUE])
        ~> (container[w][r] # "running" \/ proc[w] # "up")

\* A graceful shutdown ends: the loop and every monitor come to look at the
\* cancelled context, though each may be waiting for the manager.
ShutdownEnds == \A w \in Workers : proc[w] = "stopping" ~> proc[w] = "down"

-----------------------------------------------------------------------------
\* Why PlacementAgrees and RunningHasWorker hold: the choice of a worker is made
\* once, before anything of the replica leaves the manager, and each record, copy
\* of a record, request and report that exists after it stands for that choice.

Sent(r) == pick[r] # NoWorker /\ sched[r] \in {"accepted", "done", "failed"}

\* The worker is chosen by the step from created to picked.
ChoiceInv ==
    \A r \in Replicas :
        /\ sched[r] \in {"none", "stopping", "posting", "replacing", "created"}
           => pick[r] = NoWorker
        /\ sched[r] \in {"picked", "assigned", "accepted", "done"} => pick[r] # NoWorker

\* rec is a copy of r's record from after the assignment.
Copy(r, rec) ==
    /\ pick[r] # NoWorker
    /\ rec.worker = pick[r]
    /\ sched[r] \in {"assigned", "accepted", "done", "failed"}

RecordInv ==
    \A r \in Replicas :
        /\ \/ store[r] = Absent
           \/ store[r] = NewReplica /\ (sched[r] = "picked" \/ pick[r] = NoWorker)
           \/ Copy(r, store[r])
        /\ store[r].state = "running" => Sent(r)

CopyInv ==
    /\ \A h \in handlers : Copy(h.report.replica, h.snap) /\ Sent(h.report.replica)
    /\ \A o \in orphans : Copy(o.replica, o.snap)

MessageInv ==
    /\ \A m \in reports : Sent(m.replica)
    /\ \A c \in stopCalls : Sent(c.replica) /\ c.worker = pick[c.replica]

TraceInv ==
    \A w \in Workers, r \in Replicas : AtWorker(w, r) => Sent(r) /\ pick[r] = w

PlacementInv == ChoiceInv /\ RecordInv /\ CopyInv /\ MessageInv /\ TraceInv

-----------------------------------------------------------------------------
\* Why DeployReportFirst holds, unless calls time out: the event that deploys a
\* replica comes before all others of it, and the loop that has reported the
\* start goes on to nothing else before that report is answered.

\* A deploy event comes before all other events of its replica.
QueueInv ==
    \A w \in Workers : \A i, j \in DOMAIN events[w] :
        /\ events[w][i].action = "deploy"
        /\ j # i /\ events[w][j].replica = events[w][i].replica
        => j > i /\ events[w][j].action = "stop"

Awaits(w, r) ==
    \E i \in DOMAIN events[w] : events[w][i].action = "deploy" /\ events[w][i].replica = r

Untouched(w, r) ==
    /\ ~InLoop(w, r)
    /\ monitor[w][r] = "none" /\ container[w][r] = "none"
    /\ \A m \in reports : m.replica # r

\* Before it is taken, nothing else of the replica happens.
AwaitInv == \A w \in Workers, r \in Replicas : Awaits(w, r) => Untouched(w, r)

\* A process that is gone has no loop.
GoneInv == \A w \in Workers : proc[w] = "down" => loop[w] = Idle

\* The loop waits for the answer to the deploy report, or died waiting.
DeployInv ==
    \A m \in reports :
        m.from = "deploy" =>
            LET w == pick[m.replica]
            IN  /\ proc[w] = "down" \/ (loop[w].pc = "call" /\ loop[w].report = m)
                /\ monitor[w][m.replica] = "none"
                /\ \A l \in reports : l.replica = m.replica => l = m

OrderInv == QueueInv /\ AwaitInv /\ GoneInv /\ DeployInv

-----------------------------------------------------------------------------
\* Why EndedStays holds, unless calls time out or a live worker falls silent:
\* a record says that its replica has ended only when the report of its start has
\* come and gone, or when its worker is on its way out.

Leaving(w) == proc[w] \in {"stopping", "down"}

\* Only workers on their way out are stale, so the detector handles no others.
SilenceInv ==
    /\ \A w \in stale : Leaving(w)
    /\ dead # NoWorker => Leaving(dead)
    /\ \A o \in orphans : Leaving(o.snap.worker)

\* A report is in the hands of one handler, and answered only when it is done.
HandlingInv ==
    /\ \A h \in handlers : h.report \in reports
    /\ \A h, g \in handlers : h.report = g.report => h = g
    /\ \A m \in reports : m.state = "running" => m.from = "deploy"

Started(r) ==
    /\ Sent(r)
    /\ ~Awaits(pick[r], r)
    /\ \A m \in reports : m.replica = r => m.from # "deploy"

StartedInv ==
    \A r \in Replicas :
        store[r].state \in {"completed", "failed"} /\ ~Leaving(pick[r]) => Started(r)

EndedInv == SilenceInv /\ HandlingInv /\ StartedInv

-----------------------------------------------------------------------------
\* Why SettledAgrees holds, if nothing fails but processes that stop or die: at a
\* worker that is not on its way out, whatever is still to be said of a replica is
\* in its queue, in the hands of its loop or its goroutine, or on the wire.

Live(r) == pick[r] # NoWorker /\ ~Leaving(pick[r])

Starting(w, r) ==
    /\ loop[w].pc = "call"
    /\ loop[w].report.replica = r /\ loop[w].report.from = "deploy"

Watched(w, r) == monitor[w][r] = "waiting" \/ Starting(w, r)

\* A running container has its goroutine, or gets it when the loop goes on.
WatchInv ==
    \A w \in Workers, r \in Replicas :
        /\ Starting(w, r) => loop[w].then = "monitor"
        /\ container[w][r] # "created"
        /\ container[w][r] = "running" /\ ~Leaving(w) => Watched(w, r)

\* A deploy request that was not accepted leaves nothing at the worker; one that
\* was is in the queue until the container is there.
RequestInv ==
    \A r \in Replicas :
        Live(r) =>
            /\ sched[r] = "failed" =>
                  /\ Started(r) /\ container[pick[r]][r] = "none"
                  /\ store[r].state # "running"
            /\ sched[r] \in {"accepted", "done"} /\ container[pick[r]][r] = "none" =>
                  Awaits(pick[r], r)

\* A running container is recorded or reported as running, and as nothing else;
\* one that has ended is recorded as ended, or will be reported so.
AgreeInv ==
    \A r \in Replicas :
        Live(r) /\ r \notin tainted /\ Found(r) =>
            /\ container[pick[r]][r] = "running" =>
                  /\ store[r].state = "running" \/ \E m \in reports : m.replica = r
                  /\ \A m \in reports : m.replica = r => m.state = "running"
            /\ container[pick[r]][r] \in {"exited", "removed"} =>
                  \/ Watched(pick[r], r)
                  \/ \E m \in reports : m.replica = r /\ m.state # "running"
                  \/ store[r].state \in {"completed", "failed"}

SettledInv == WatchInv /\ RequestInv /\ AgreeInv

-----------------------------------------------------------------------------
\* The abstract specification

Life(c) == CASE c = "none" -> "none" [] c = "running" -> "running" [] OTHER -> "ended"

P == INSTANCE Placement WITH
       home <- pick,
       life <- [w \in Workers |-> [r \in Replicas |-> Life(container[w][r])]]

\* One worker and one container for each replica: Placement is implemented.
Implements == P!Spec

-----------------------------------------------------------------------------
\* What a test says, and the code does not do

\* tests/integration_test.go:365, a crashed replica ends up failed: a container
\* that has exited is not recorded as running once everything about it is quiet.
CrashIsRecorded ==
    \A r \in Replicas, w \in Workers :
        Quiet(r) /\ proc[w] = "up" /\ container[w][r] = "exited"
        => store[r].state # "running"
=============================================================================
