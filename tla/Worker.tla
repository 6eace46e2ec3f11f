------------------------------- MODULE Worker -------------------------------
(***************************************************************************)
(* A worker process (worker/worker.go, worker/server.go) and its container *)
(* runtime (runtime/docker.go, runtime/podman.go).                         *)
(*                                                                         *)
(* One event loop takes deploy and stop events from the queue that the     *)
(* HTTP handlers fill; one goroutine per deployed container waits for its  *)
(* exit.  Both report to the manager by a blocking call.  The module is    *)
(* open: AcceptDeploy and AcceptStop are the callee's half of a call that  *)
(* the manager makes, and Cluster conjoins the two halves.                 *)
(***************************************************************************)
EXTENDS Reports, Sequences

CONSTANT ExitCodes  \* what containers exit with in an instance

\* signal: 137 or 143, what SIGKILL and SIGTERM leave; error: any other code.
ASSUME ExitCodesAssumption == ExitCodes \subseteq {"zero", "signal", "error"}

VARIABLES
    proc,       \* proc[w]: how far the worker process w is in its life
    events,     \* events[w]: the FIFO event queue
    loop,       \* loop[w]: where the event loop is
    stopping,   \* stopping[w]: stoppingReplicas, "being intentionally stopped"
    monitor,    \* monitor[w][r]: the goroutine waiting for r's container
    container   \* container[w][r]: the container of r in w's runtime

workerVars == <<proc, events, loop, stopping, monitor, container>>

\* joined: registered, HTTP server not listening yet; stopping: context
\* cancelled, goroutines draining; down: gone, its containers left behind.
ProcStates == {"new", "joined", "up", "stopping", "down"}

Event == [action: {"deploy", "stop"}, replica: Replicas, container: BOOLEAN]

Idle == [pc |-> "idle"]

\* What the loop does once its report is answered.
Thens == {"none", "monitor", "cleanup"}

LoopState == {Idle}
             \cup [pc: {"stop"}, replica: Replicas, container: BOOLEAN]
             \cup [pc: {"call"}, report: Report, then: Thens]

MonitorStates == {"none", "waiting", "calling", "done"}

\* created: made but never started; removed: stopped and deleted.
ContainerStates == {"none", "created", "running", "exited", "removed"}

WorkerInit ==
    /\ proc = [w \in Workers |-> "new"]
    /\ events = [w \in Workers |-> <<>>]
    /\ loop = [w \in Workers |-> Idle]
    /\ stopping = [w \in Workers |-> {}]
    /\ monitor = [w \in Workers |-> [r \in Replicas |-> "none"]]
    /\ container = [w \in Workers |-> [r \in Replicas |-> "none"]]

-----------------------------------------------------------------------------
\* Process life

Alive(w) == proc[w] \in {"joined", "up", "stopping"}

\* The HTTP server listens until Worker.Stop has waited for the goroutines.
Serving(w) == proc[w] \in {"up", "stopping"}

\* The registration call was answered; queue loop and heartbeats start.
Join(w) ==
    /\ proc[w] = "new"
    /\ proc' = [proc EXCEPT ![w] = "joined"]
    /\ UNCHANGED <<events, loop, stopping, monitor, container>>

Listen(w) ==
    /\ proc[w] = "joined"
    /\ proc' = [proc EXCEPT ![w] = "up"]
    /\ UNCHANGED <<events, loop, stopping, monitor, container, reports>>

Cancel(w) ==
    /\ "stop" \in Faults
    /\ proc[w] = "up"
    /\ proc' = [proc EXCEPT ![w] = "stopping"]
    /\ UNCHANGED <<events, loop, stopping, monitor, container, reports>>

\* The process dies with its queue, its loop and its goroutines.
Gone(w) ==
    /\ proc' = [proc EXCEPT ![w] = "down"]
    /\ events' = [events EXCEPT ![w] = <<>>]
    /\ loop' = [loop EXCEPT ![w] = Idle]
    /\ stopping' = [stopping EXCEPT ![w] = {}]
    /\ monitor' = [monitor EXCEPT ![w] = [r \in Replicas |->
                      IF @[r] = "none" THEN "none" ELSE "done"]]
    /\ UNCHANGED <<container, reports>>

\* wg.Wait returns once the loop and every monitor have returned.
Exit(w) ==
    /\ proc[w] = "stopping"
    /\ loop[w] = Idle
    /\ \A r \in Replicas : monitor[w][r] \in {"none", "done"}
    /\ Gone(w)

Crash(w) ==
    /\ "crash" \in Faults
    /\ Alive(w)
    /\ Gone(w)

-----------------------------------------------------------------------------
\* The worker's HTTP API

Accept(w, e) ==
    /\ Serving(w)
    /\ events' = [events EXCEPT ![w] = Append(@, e)]
    /\ UNCHANGED <<proc, loop, stopping, monitor, container, reports>>

AcceptDeploy(w, r) ==
    Accept(w, [action |-> "deploy", replica |-> r, container |-> FALSE])

AcceptStop(w, r, known) ==
    Accept(w, [action |-> "stop", replica |-> r, container |-> known])

-----------------------------------------------------------------------------
\* The event loop

\* The loop looks at its context before each event, never during one.
TakeEvent(w, action) ==
    /\ proc[w] = "up"
    /\ loop[w] = Idle
    /\ events[w] # <<>>
    /\ Head(events[w]).action = action
    /\ events' = [events EXCEPT ![w] = Tail(@)]

\* Variant: nothing is done after the call, so no container is watched.
CallAndForget(w, m, then) ==
    /\ Send(m)
    /\ loop' = [loop EXCEPT ![w] = [pc |-> "call", report |-> m, then |-> "none"]]

\* The loop blocks in reportReplicaStatus.
Call(w, m, then) ==
    /\ Send(m)
    /\ loop' = [loop EXCEPT ![w] = [pc |-> "call", report |-> m, then |-> then]]

SetContainer(w, r, c) == container' = [container EXCEPT ![w][r] = c]

\* A container is named after its replica, so a runtime creates it only once.
StartContainer(w) ==
    LET r == Head(events[w]).replica
    IN  /\ TakeEvent(w, "deploy")
        /\ container[w][r] = "none"
        /\ SetContainer(w, r, "running")
        /\ Call(w, [replica |-> r, from |-> "deploy", state |-> "running",
                    container |-> TRUE], "monitor")
        /\ UNCHANGED <<proc, stopping, monitor>>

\* Creating fails, or starting what was created fails.
StartFails(w) ==
    LET r == Head(events[w]).replica
    IN  /\ TakeEvent(w, "deploy")
        /\ \/ "runtime" \in Faults
           \/ container[w][r] # "none"
        /\ \/ UNCHANGED container
           \/ container[w][r] = "none" /\ SetContainer(w, r, "created")
        /\ Call(w, [replica |-> r, from |-> "deploy", state |-> "failed",
                    container |-> FALSE], "none")
        /\ UNCHANGED <<proc, stopping, monitor>>

\* Variant: the container ID of the request is dropped.
BeginBlindStop(w) ==
    LET e == Head(events[w])
    IN  /\ TakeEvent(w, "stop")
        /\ stopping' = [stopping EXCEPT ![w] = @ \cup {e.replica}]
        /\ loop' = [loop EXCEPT ![w] = [pc |-> "stop", replica |-> e.replica,
                                        container |-> FALSE]]
        /\ UNCHANGED <<proc, monitor, container, reports>>

\* handleStop marks the replica as stopping before it asks the runtime.
BeginStop(w) ==
    LET e == Head(events[w])
    IN  /\ TakeEvent(w, "stop")
        /\ stopping' = [stopping EXCEPT ![w] = @ \cup {e.replica}]
        /\ loop' = [loop EXCEPT ![w] = [pc |-> "stop", replica |-> e.replica,
                                        container |-> e.container]]
        /\ UNCHANGED <<proc, monitor, container, reports>>

ReportStop(w, r, s, known, then) ==
    Call(w, [replica |-> r, from |-> "stop", state |-> s, container |-> known], then)

\* Without a container ID there is nothing to stop: the replica is reported
\* completed all the same.
StopUnknown(w) ==
    /\ loop[w].pc = "stop"
    /\ ~loop[w].container
    /\ ReportStop(w, loop[w].replica, "completed", FALSE, "cleanup")
    /\ UNCHANGED <<proc, events, stopping, monitor, container>>

\* Stop and remove.
StopContainer(w) ==
    LET r == loop[w].replica
    IN  /\ loop[w].pc = "stop"
        /\ loop[w].container
        /\ container[w][r] \in {"running", "exited"}
        /\ SetContainer(w, r, "removed")
        /\ ReportStop(w, r, "completed", TRUE, "none")
        /\ UNCHANGED <<proc, events, stopping, monitor>>

\* isContainerNotFoundError
StopGone(w) ==
    /\ loop[w].pc = "stop"
    /\ loop[w].container
    /\ container[w][loop[w].replica] \in {"none", "removed"}
    /\ ReportStop(w, loop[w].replica, "completed", TRUE, "cleanup")
    /\ UNCHANGED <<proc, events, stopping, monitor, container>>

\* The runtime fails to stop, or stops and fails to remove.
StopFails(w) ==
    LET r == loop[w].replica
    IN  /\ "runtime" \in Faults
        /\ loop[w].pc = "stop"
        /\ loop[w].container
        /\ container[w][r] \in {"running", "exited"}
        /\ \/ UNCHANGED container
           \/ container[w][r] = "running" /\ SetContainer(w, r, "exited")
        /\ ReportStop(w, r, "failed", TRUE, "cleanup")
        /\ UNCHANGED <<proc, events, stopping, monitor>>

\* Variant: reports are sent from goroutines that nobody waits for.
ReturnsAtOnce(m) == m \in Report

\* A call returns when it is answered, or 10s later; its outcome is ignored.
Returns(m) == Answered(m) \/ "timeout" \in Faults

Return(w) ==
    LET m == loop[w].report
    IN  /\ loop[w].pc = "call"
        /\ Returns(m)
        /\ loop' = [loop EXCEPT ![w] = Idle]
        /\ monitor' = IF loop[w].then = "monitor"
                      THEN [monitor EXCEPT ![w][m.replica] = "waiting"]
                      ELSE monitor
        /\ stopping' = IF loop[w].then = "cleanup"
                       THEN [stopping EXCEPT ![w] = @ \ {m.replica}]
                       ELSE stopping
        /\ UNCHANGED <<proc, events, container, reports>>

-----------------------------------------------------------------------------
\* The container, and the goroutine that waits for it

\* The container's main process ends: with a code of its own, or killed from
\* outside (out of memory, an operator).
ContainerExit(w, r) ==
    /\ container[w][r] = "running"
    /\ SetContainer(w, r, "exited")
    /\ UNCHANGED <<proc, events, loop, stopping, monitor, reports>>

\* A death by signal is a success if the replica was being stopped.
ExitState(code, intended) ==
    IF code = "zero" \/ (intended /\ code = "signal") THEN "completed" ELSE "failed"

MonitorReport(w, r, s) ==
    /\ proc[w] \in {"up", "stopping"}
    /\ monitor[w][r] = "waiting"
    /\ monitor' = [monitor EXCEPT ![w][r] = "calling"]
    /\ Send([replica |-> r, from |-> "exit", state |-> s, container |-> TRUE])

\* Wait yields the exit code: the application's own, the code of its SIGTERM
\* handler, or that of a signal.  Nothing else ever reads the code, so it is
\* chosen here and not when the container ends.
MonitorExit(w, r) ==
    /\ container[w][r] \in {"exited", "removed"}
    /\ \E code \in ExitCodes :
          MonitorReport(w, r, ExitState(code, r \in stopping[w]))
    /\ stopping' = [stopping EXCEPT ![w] = @ \ {r}]
    /\ UNCHANGED <<proc, events, loop, container>>

\* Wait fails: it reached the runtime after the container was removed, or the
\* runtime broke the call off.
MonitorError(w, r) ==
    /\ \/ container[w][r] = "removed"
       \/ "runtime" \in Faults
    /\ MonitorReport(w, r, "failed")
    /\ UNCHANGED <<proc, events, loop, stopping, container>>

ExitReports(r) == {m \in reports : m.replica = r /\ m.from = "exit"}

MonitorReturn(w, r) ==
    /\ monitor[w][r] = "calling"
    /\ \A m \in ExitReports(r) : Returns(m)
    /\ monitor' = [monitor EXCEPT ![w][r] = "done"]
    /\ UNCHANGED <<proc, events, loop, stopping, container, reports>>

\* Variant: the goroutine waits for its container before it looks at the context.
MonitorCancelLate(w, r) ==
    /\ proc[w] = "stopping"
    /\ monitor[w][r] = "waiting"
    /\ container[w][r] # "running"
    /\ monitor' = [monitor EXCEPT ![w][r] = "done"]
    /\ UNCHANGED <<proc, events, loop, stopping, container, reports>>

\* The context was cancelled: the container is no longer watched.
MonitorCancel(w, r) ==
    /\ proc[w] = "stopping"
    /\ monitor[w][r] = "waiting"
    /\ monitor' = [monitor EXCEPT ![w][r] = "done"]
    /\ UNCHANGED <<proc, events, loop, stopping, container, reports>>

-----------------------------------------------------------------------------
WorkerTypeOK ==
    /\ proc \in [Workers -> ProcStates]
    /\ events \in [Workers -> Seq(Event)]
    /\ loop \in [Workers -> LoopState]
    /\ stopping \in [Workers -> SUBSET Replicas]
    /\ monitor \in [Workers -> [Replicas -> MonitorStates]]
    /\ container \in [Workers -> [Replicas -> ContainerStates]]
    /\ reports \subseteq Report
=============================================================================
