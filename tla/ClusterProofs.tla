--------------------------- MODULE ClusterProofs ---------------------------
(***************************************************************************)
(* What holds of Cluster for any set of workers and replicas, any faults   *)
(* and any number of stop requests.                                        *)
(***************************************************************************)
EXTENDS Cluster, TLAPS

-----------------------------------------------------------------------------
\* Records

\* A status update turns a replica record into a replica record.
LEMMA ApplyReportType ==
    ASSUME NEW r \in ReplicaRecord, NEW m \in Report
    PROVE  ApplyReport(r, m) \in ReplicaRecord
BY DEF ApplyReport, SetState, SetContainerID, ReplicaRecord, Report, ReplicaStates

\* So does the detector's marking.
LEMMA SetErrorType ==
    ASSUME NEW r \in ReplicaRecord
    PROVE  SetError(r) \in ReplicaRecord
BY DEF SetError, SetState, ReplicaRecord, ReplicaStates

\* A new record, assigned to a worker or not, and set to running or not.
LEMMA AssignedType ==
    ASSUME NEW r \in Replicas, pick[r] \in Workers \cup {NoWorker}
    PROVE  /\ NewReplica \in ReplicaRecord
           /\ Assigned(r) \in ReplicaRecord
           /\ SetState(Assigned(r), "running") \in ReplicaRecord
BY DEF Assigned, NewReplica, SetWorkerID, SetState, ReplicaRecord, ReplicaStates

\* A record that is found is no Absent: its state is one of a replica.
LEMMA AbsentIsNoRecord == Absent \notin ReplicaRecord
BY DEF Absent, ReplicaRecord, ReplicaStates

-----------------------------------------------------------------------------
\* Type correctness

LEMMA InitType == Init => TypeOK
<1> SUFFICES ASSUME Init PROVE TypeOK
  OBVIOUS
<1>1. ManagerTypeOK
  BY MaxStopsAssumption
  DEF Init, ManagerInit, ManagerTypeOK, Absent, SchedStates, StopCall, Handler, Orphan
<1>2. WorkerTypeOK
  BY DEF Init, WorkerInit, ReportsInit, WorkerTypeOK, ProcStates, LoopState,
         MonitorStates, ContainerStates
<1> QED
  BY <1>1, <1>2 DEF Init, TypeOK

\* An event that is accepted makes the queue an event longer.
LEMMA AcceptType ==
    ASSUME TypeOK, NEW w, NEW e \in Event, Accept(w, e)
    PROVE  events' \in [Workers -> Seq(Event)]
<1>1. CASE w \in Workers
  <2>1. Append(events[w], e) \in Seq(Event)
    BY <1>1 DEF TypeOK, WorkerTypeOK
  <2> QED
    BY <1>1, <2>1 DEF Accept, TypeOK, WorkerTypeOK
<1>2. CASE w \notin Workers
  BY <1>2 DEF Accept, TypeOK, WorkerTypeOK
<1> QED
  BY <1>1, <1>2

\* Scheduling a replica keeps the types.
LEMMA ScheduleType ==
    ASSUME TypeOK, NEW r \in Replicas, ScheduleNext(r)
    PROVE  TypeOK'
<1> USE DEF TypeOK, ManagerTypeOK, WorkerTypeOK, managerVars, schedVars, stopVars,
            registryVars, detectorVars, workerVars, Manage, Work, Meet, History
<1>a. /\ NewReplica \in ReplicaRecord /\ Assigned(r) \in ReplicaRecord
      /\ SetState(Assigned(r), "running") \in ReplicaRecord
  BY AssignedType
<1>1. CASE Manage(CreateReplica(r))
  BY <1>1, <1>a DEF CreateReplica, Advance, Put, SchedStates
<1>2. CASE Manage(PickWorker(r))
  BY <1>2 DEF PickWorker, Advance, SchedStates
<1>3. CASE Manage(NoWorkerAvailable(r))
  BY <1>3 DEF NoWorkerAvailable, Advance, SchedStates
<1>4. CASE Manage(AssignWorker(r))
  BY <1>4, <1>a DEF AssignWorker, Advance, Put, SchedStates
<1>5. CASE Manage(MarkScheduled(r))
  BY <1>5, <1>a DEF MarkScheduled, Advance, Put, SchedStates
<1>6. CASE Meet(Deploy(r))
  <2>1. [action |-> "deploy", replica |-> r, container |-> FALSE] \in Event
    BY DEF Event
  <2>2. events' \in [Workers -> Seq(Event)]
    BY <1>6, <2>1, AcceptType DEF Deploy, AcceptDeploy
  <2> QED
    BY <1>6, <2>2 DEF Deploy, DeployAccepted, AcceptDeploy, Accept, Advance, SchedStates
<1>7. CASE Meet(DeployRefused(r))
  BY <1>7 DEF DeployRefused, DeployFailed, Advance, SchedStates
<1>8. CASE Meet(DeployAnswerLost(r))
  BY <1>8 DEF DeployAnswerLost, DeployFailed, Advance, SchedStates
<1> QED
  BY <1>1, <1>2, <1>3, <1>4, <1>5, <1>6, <1>7, <1>8 DEF ScheduleNext

\* stopReplica goes on with a record whose worker is registered.
LEMMA StoppableType ==
    ASSUME TypeOK, NEW r \in Replicas, Stoppable(r)
    PROVE  store[r].worker \in Workers /\ store[r].container \in BOOLEAN
BY DEF TypeOK, ManagerTypeOK, Stoppable, ReplicaRecord, Absent

\* So do stops and restarts, up to the request to the worker.
LEMMA StopType ==
    ASSUME TypeOK, NEW r \in Replicas, StopNext(r)
    PROVE  TypeOK'
<1> USE DEF TypeOK, ManagerTypeOK, WorkerTypeOK, managerVars, schedVars, stopVars,
            registryVars, detectorVars, workerVars, Manage, Work, Meet, History
<1>a. /\ NewReplica \in ReplicaRecord /\ Assigned(r) \in ReplicaRecord
      /\ SetState(Assigned(r), "running") \in ReplicaRecord
  BY AssignedType
<1>1. CASE Manage(StopReplica(r))
  BY <1>1, StoppableType, MaxStopsAssumption DEF StopReplica, SendStop, StopCall
<1>2. ASSUME NEW n \in Replicas, Manage(BeginRestart(r, n)) PROVE TypeOK'
  BY <1>2 DEF BeginRestart, Advance, SchedStates
<1>3. ASSUME NEW n \in Replicas, Manage(RestartStop(r, n)) PROVE TypeOK'
  <2>1. sched' \in [Replicas -> SchedStates]
    BY <1>3 DEF RestartStop, Advance, SchedStates
  <2>2. stopCalls' \subseteq StopCall
    <3>1. CASE SendStop(r, n, 0)
      BY <3>1, StoppableType, MaxStopsAssumption DEF SendStop, StopCall
    <3>2. CASE UNCHANGED stopCalls
      BY <3>2
    <3> QED
      BY <1>3, <3>1, <3>2 DEF RestartStop
  <2> QED
    BY <1>3, <2>1, <2>2 DEF RestartStop
<1>4. ASSUME NEW n \in Replicas, Manage(ReplaceReplica(r, n)) PROVE TypeOK'
  BY <1>4, <1>a DEF ReplaceReplica, Advance, SchedStates, Absent
<1> QED
  BY <1>1, <1>2, <1>3, <1>4 DEF StopNext

\* So does the end of a request to stop.
LEMMA StopCallType ==
    ASSUME TypeOK, NEW c \in stopCalls, StopCallNext(c)
    PROVE  TypeOK'
<1> USE DEF TypeOK, ManagerTypeOK, WorkerTypeOK, managerVars, schedVars, stopVars,
            registryVars, detectorVars, workerVars, Manage, Work, Meet, History
<1>1. CASE Meet(StopDelivered(c))
  <2>1. [action |-> "stop", replica |-> c.replica, container |-> c.container] \in Event
    BY DEF Event, StopCall
  <2>2. events' \in [Workers -> Seq(Event)]
    BY <1>1, <2>1, AcceptType DEF StopDelivered, AcceptStop
  <2> QED
    BY <1>1, <2>2 DEF StopDelivered, StopCallEnds, Advance, StopCall, AcceptStop, Accept, SchedStates
<1>2. CASE Meet(StopRefused(c))
  BY <1>2 DEF StopRefused, StopCallEnds, Advance, StopCall, SchedStates
<1> QED
  BY <1>1, <1>2 DEF StopCallNext

\* So does a report that arrives, is turned away or gets lost.
LEMMA ReportType ==
    ASSUME TypeOK, NEW m \in reports, ReportNext(m)
    PROVE  TypeOK'
<1> USE DEF TypeOK, ManagerTypeOK, WorkerTypeOK, managerVars, schedVars, stopVars,
            registryVars, detectorVars, workerVars, Manage, Work, Meet, History
<1>1. CASE Manage(ReceiveReport(m))
  BY <1>1 DEF ReceiveReport, Handler, Report, Found
<1>2. CASE Manage(RejectReport(m))
  BY <1>2 DEF RejectReport
<1>3. CASE Manage(LoseReport(m))
  BY <1>3 DEF LoseReport
<1> QED
  BY <1>1, <1>2, <1>3 DEF ReportNext

\* So does a status update that is saved.
LEMMA SaveType ==
    ASSUME TypeOK, NEW h \in handlers, Manage(SaveReport(h))
    PROVE  TypeOK'
<1> USE DEF TypeOK, ManagerTypeOK, WorkerTypeOK, managerVars, schedVars, stopVars,
            registryVars, detectorVars, workerVars, Manage, Work, Meet, History
<1>1. /\ h.report \in Report /\ h.report.replica \in Replicas
      /\ ApplyReport(h.snap, h.report) \in ReplicaRecord
  BY ApplyReportType DEF Handler, Report
<1> QED
  BY <1>1 DEF SaveReport, Put

\* So do registrations, heartbeats, silence and removals.
LEMMA RegistryType ==
    ASSUME TypeOK, NEW w \in Workers, RegistryNext(w)
    PROVE  TypeOK'
<1> USE DEF TypeOK, ManagerTypeOK, WorkerTypeOK, managerVars, schedVars, stopVars,
            registryVars, detectorVars, workerVars, Manage, Work, Meet, History
<1>1. CASE Meet(Boot(w))
  BY <1>1 DEF Boot, Register, Join, ProcStates
<1>2. CASE Manage(Heartbeat(w))
  BY <1>2 DEF Heartbeat, HeartbeatRead
<1>3. CASE Manage(Silence(w))
  BY <1>3 DEF Silence, GoStale
<1>4. CASE Manage(HeartbeatSave(w))
  BY <1>4 DEF HeartbeatSave
<1>5. CASE Manage(DetectorRemove(w))
  BY <1>5 DEF DetectorRemove
<1> QED
  BY <1>1, <1>2, <1>3, <1>4, <1>5 DEF RegistryNext

\* So does the detector when it lists orphans.
LEMMA ListType ==
    ASSUME TypeOK, Manage(DetectorList)
    PROVE  TypeOK'
<1> USE DEF TypeOK, ManagerTypeOK, WorkerTypeOK, managerVars, schedVars, stopVars,
            registryVars, detectorVars, workerVars, Manage, Work, Meet, History
<1>1. \A r \in Replicas : store[r].state \in OrphanStates => store[r] \in ReplicaRecord
  BY DEF OrphanStates, Absent
<1> QED
  BY <1>1 DEF DetectorList, Orphan

\* So does the detector when it marks one.
LEMMA MarkType ==
    ASSUME TypeOK, NEW o \in orphans, Manage(DetectorMark(o))
    PROVE  TypeOK'
<1> USE DEF TypeOK, ManagerTypeOK, WorkerTypeOK, managerVars, schedVars, stopVars,
            registryVars, detectorVars, workerVars, Manage, Work, Meet, History
<1>1. o.replica \in Replicas /\ SetError(o.snap) \in ReplicaRecord
  BY SetErrorType DEF Orphan
<1> QED
  BY <1>1 DEF DetectorMark, Put

\* A worker's loop that makes a call is left in a call, with one report more.
LEMMA CallType ==
    ASSUME TypeOK, NEW w \in Workers, NEW m \in Report, NEW then \in Thens,
           Call(w, m, then)
    PROVE  loop' \in [Workers -> LoopState] /\ reports' \subseteq Report
<1>1. [pc |-> "call", report |-> m, then |-> then] \in LoopState
  BY DEF LoopState
<1> QED
  BY <1>1 DEF Call, Send, TypeOK, WorkerTypeOK

\* The reports of the loop and of the goroutines are reports.
LEMMA ReportsAreReports ==
    ASSUME NEW r \in Replicas, NEW known \in BOOLEAN
    PROVE  /\ \A s \in {"running", "failed"} :
                [replica |-> r, from |-> "deploy", state |-> s, container |-> known] \in Report
           /\ \A from \in {"stop", "exit"}, s \in {"completed", "failed"} :
                [replica |-> r, from |-> from, state |-> s, container |-> known] \in Report
BY DEF Report, Senders

\* A loop in the middle of a stop knows a replica.
LEMMA StopTypes ==
    ASSUME TypeOK, NEW w \in Workers, loop[w].pc = "stop"
    PROVE  loop[w].replica \in Replicas
<1>1. loop[w] \in LoopState
  BY DEF TypeOK, WorkerTypeOK
<1>2. loop[w] # Idle
  BY DEF Idle
<1>3. loop[w] \notin [pc: {"call"}, report: Report, then: Thens]
  OBVIOUS
<1> QED
  BY <1>1, <1>2, <1>3 DEF LoopState

\* So does a worker, whatever its loop and its process do.
LEMMA WorkerType ==
    ASSUME TypeOK, NEW w \in Workers, WorkerNext(w)
    PROVE  TypeOK'
<1> USE DEF TypeOK, ManagerTypeOK, WorkerTypeOK, managerVars, schedVars, stopVars,
            registryVars, detectorVars, workerVars, Manage, Work, Meet, History
<1>e. ASSUME events[w] # <<>>
      PROVE  Head(events[w]) \in Event /\ Tail(events[w]) \in Seq(Event)
  BY <1>e
<1>1. CASE Work(Listen(w))
  BY <1>1 DEF Listen, ProcStates
<1>2. CASE Work(Cancel(w))
  BY <1>2 DEF Cancel, ProcStates
<1>3. CASE Work(Exit(w))
  BY <1>3 DEF Exit, Gone, ProcStates, LoopState, MonitorStates
<1>4. CASE Work(Crash(w))
  BY <1>4 DEF Crash, Gone, ProcStates, LoopState, MonitorStates
<1>5. CASE Work(StartContainer(w))
  <2>1. loop' \in [Workers -> LoopState] /\ reports' \subseteq Report
    BY <1>5, CallType, ReportsAreReports, <1>e DEF StartContainer, TakeEvent, Event, Thens
  <2> QED
    BY <1>5, <2>1, <1>e DEF StartContainer, TakeEvent, Event, SetContainer, ContainerStates
<1>6. CASE Work(StartFails(w))
  <2>1. loop' \in [Workers -> LoopState] /\ reports' \subseteq Report
    BY <1>6, CallType, ReportsAreReports, <1>e DEF StartFails, TakeEvent, Event, Thens
  <2>2. container' \in [Workers -> [Replicas -> ContainerStates]]
    <3>1. CASE UNCHANGED container
      BY <3>1
    <3>2. CASE SetContainer(w, Head(events[w]).replica, "created")
      BY <3>2 DEF SetContainer, ContainerStates
    <3> QED
      BY <1>6, <3>1, <3>2 DEF StartFails
  <2> QED
    BY <1>6, <2>1, <2>2, <1>e DEF StartFails, TakeEvent, Event
<1>7. CASE Work(BeginStop(w))
  BY <1>7, <1>e DEF BeginStop, TakeEvent, Event, LoopState, Report, Senders, Thens, Send, Call
<1>8. CASE Work(StopUnknown(w))
  <2>1. loop' \in [Workers -> LoopState] /\ reports' \subseteq Report
    BY <1>8, CallType, ReportsAreReports, StopTypes DEF StopUnknown, ReportStop, Thens
  <2> QED
    BY <1>8, <2>1 DEF StopUnknown
<1>9. CASE Work(StopContainer(w))
  <2>1. loop' \in [Workers -> LoopState] /\ reports' \subseteq Report
    BY <1>9, CallType, ReportsAreReports, StopTypes DEF StopContainer, ReportStop, Thens
  <2> QED
    BY <1>9, <2>1, StopTypes DEF StopContainer, SetContainer, ContainerStates
<1>10. CASE Work(StopGone(w))
  <2>1. loop' \in [Workers -> LoopState] /\ reports' \subseteq Report
    BY <1>10, CallType, ReportsAreReports, StopTypes DEF StopGone, ReportStop, Thens
  <2> QED
    BY <1>10, <2>1 DEF StopGone
<1>11. CASE Work(StopFails(w))
  <2>1. loop' \in [Workers -> LoopState] /\ reports' \subseteq Report
    BY <1>11, CallType, ReportsAreReports, StopTypes DEF StopFails, ReportStop, Thens
  <2>2. container' \in [Workers -> [Replicas -> ContainerStates]]
    <3>1. CASE UNCHANGED container
      BY <3>1
    <3>2. CASE SetContainer(w, loop[w].replica, "exited")
      BY <3>2 DEF SetContainer, ContainerStates
    <3> QED
      BY <1>11, <3>1, <3>2 DEF StopFails
  <2> QED
    BY <1>11, <2>1, <2>2 DEF StopFails
<1>12. CASE Work(Return(w))
  BY <1>12 DEF Return, LoopState, Report, MonitorStates, Idle
<1> QED
  BY <1>1, <1>2, <1>3, <1>4, <1>5, <1>6, <1>7, <1>8, <1>9, <1>10, <1>11, <1>12 DEF WorkerNext

\* So do the containers and the goroutines that watch them.
LEMMA ContainerType ==
    ASSUME TypeOK, NEW w \in Workers, NEW r \in Replicas, ContainerNext(w, r)
    PROVE  TypeOK'
<1> USE DEF TypeOK, ManagerTypeOK, WorkerTypeOK, managerVars, schedVars, stopVars,
            registryVars, detectorVars, workerVars, Manage, Work, Meet, History
<1>1. CASE Work(ContainerExit(w, r))
  BY <1>1 DEF ContainerExit, SetContainer, ContainerStates
<1>2. CASE Work(MonitorExit(w, r))
  <2>1. reports' \subseteq Report
    BY <1>2, ReportsAreReports DEF MonitorExit, MonitorReport, Send, ExitState
  <2> QED
    BY <1>2, <2>1 DEF MonitorExit, MonitorReport, MonitorStates
<1>3. CASE Work(MonitorError(w, r))
  <2>1. reports' \subseteq Report
    BY <1>3, ReportsAreReports DEF MonitorError, MonitorReport, Send
  <2> QED
    BY <1>3, <2>1 DEF MonitorError, MonitorReport, MonitorStates
<1>4. CASE Work(MonitorReturn(w, r))
  BY <1>4 DEF MonitorReturn, MonitorStates
<1>5. CASE Work(MonitorCancel(w, r))
  BY <1>5 DEF MonitorCancel, MonitorStates
<1> QED
  BY <1>1, <1>2, <1>3, <1>4, <1>5 DEF ContainerNext

\* Every variable keeps its type, in every behaviour of the cluster.
THEOREM TypeCorrect == Spec => []TypeOK
<1>1. Init => TypeOK
  BY InitType
<1>2. TypeOK /\ [Next]_vars => TypeOK'
  <2> SUFFICES ASSUME TypeOK, [Next]_vars PROVE TypeOK'
    OBVIOUS
  <2>1. CASE Next
    BY <2>1, ScheduleType, StopType, StopCallType, ReportType, SaveType, RegistryType,
       ListType, MarkType, WorkerType, ContainerType DEF Next
  <2>2. CASE UNCHANGED vars
    BY <2>2 DEF vars, TypeOK, ManagerTypeOK, WorkerTypeOK, managerVars, schedVars,
       stopVars, registryVars, detectorVars, workerVars
  <2> QED
    BY <2>1, <2>2
<1> QED
  BY <1>1, <1>2, PTL DEF Spec
=============================================================================
