-------------------------- MODULE PlacementProofs --------------------------
(***************************************************************************)
(* PlacementInv is an invariant of Cluster, and with it PlacementAgrees    *)
(* and RunningHasWorker; and Cluster implements Placement.                 *)
(***************************************************************************)
EXTENDS ClusterProofs, SequenceTheorems

-----------------------------------------------------------------------------
\* Queues

\* The next event of a queue is in the queue.
LEMMA HeadInQueue ==
    ASSUME TypeOK, NEW w \in Workers, events[w] # <<>>
    PROVE  InQueue(w, Head(events[w]).replica)
<1>1. events[w] \in Seq(Event)
  BY DEF TypeOK, WorkerTypeOK
<1>2. 1 \in DOMAIN events[w] /\ Head(events[w]) = events[w][1]
  BY <1>1
<1> QED
  BY <1>2 DEF InQueue

\* What is in a queue after an event was taken was in it before.
LEMMA TakeKeepsQueue ==
    ASSUME TypeOK, NEW w \in Workers, NEW v \in Workers, NEW r \in Replicas,
           events[w] # <<>>, events' = [events EXCEPT ![w] = Tail(@)],
           InQueue(v, r)'
    PROVE  InQueue(v, r)
<1>1. events \in [Workers -> Seq(Event)]
  BY DEF TypeOK, WorkerTypeOK
<1>2. PICK i \in DOMAIN events'[v] : events'[v][i].replica = r
  BY DEF InQueue
<1>3. CASE v # w
  BY <1>1, <1>2, <1>3 DEF InQueue
<1>4. CASE v = w
  <2>1. events'[v] = Tail(events[w]) /\ events[w] \in Seq(Event)
    BY <1>1, <1>4
  <2>2. /\ Tail(events[w]) \in Seq(Event) /\ Len(Tail(events[w])) = Len(events[w]) - 1
        /\ \A k \in 1..Len(Tail(events[w])) : Tail(events[w])[k] = events[w][k + 1]
    BY <2>1, HeadTailProperties
  <2>3. DOMAIN Tail(events[w]) = 1..Len(Tail(events[w]))
    BY <2>2, LenProperties
  <2>4. DOMAIN events[w] = 1..Len(events[w]) /\ Len(events[w]) \in Nat
    BY <2>1, LenProperties
  <2>5. i \in 1..Len(Tail(events[w]))
    BY <1>2, <1>4, <2>1, <2>3
  <2>6. i + 1 \in DOMAIN events[w] /\ Tail(events[w])[i] = events[w][i + 1]
    BY <2>2, <2>4, <2>5
  <2> QED
    BY <1>2, <1>4, <2>1, <2>6 DEF InQueue
<1> QED
  BY <1>3, <1>4

\* What is in a queue after an event was put there is that event's replica or
\* was in it before.
LEMMA AcceptKeepsQueue ==
    ASSUME TypeOK, NEW w \in Workers, NEW e \in Event, Accept(w, e),
           NEW v \in Workers, NEW r \in Replicas, InQueue(v, r)'
    PROVE  InQueue(v, r) \/ (v = w /\ r = e.replica)
<1>1. events \in [Workers -> Seq(Event)]
  BY DEF TypeOK, WorkerTypeOK
<1>2. PICK i \in DOMAIN events'[v] : events'[v][i].replica = r
  BY DEF InQueue
<1>3. CASE v # w
  BY <1>1, <1>2, <1>3 DEF InQueue, Accept
<1>4. CASE v = w
  <2>1. events'[v] = Append(events[w], e) /\ events[w] \in Seq(Event)
    BY <1>1, <1>4 DEF Accept
  <2>2. CASE i \in DOMAIN events[w]
    <3>1. Append(events[w], e)[i] = events[w][i]
      BY <2>1, <2>2
    <3> QED
      BY <1>2, <1>4, <2>1, <2>2, <3>1 DEF InQueue
  <2>3. CASE i \notin DOMAIN events[w]
    <3>1. i = Len(events[w]) + 1 /\ Append(events[w], e)[i] = e
      BY <1>2, <2>1, <2>3
    <3> QED
      BY <1>2, <1>4, <2>1, <3>1
  <2> QED
    BY <2>2, <2>3
<1> QED
  BY <1>3, <1>4

-----------------------------------------------------------------------------
\* A worker by itself spreads nothing: what it holds of a replica after a step it
\* held something of before, and only of such replicas does it report.

LEMMA WorkerTraces ==
    ASSUME TypeOK, NEW w \in Workers, WorkerNext(w)
    PROVE  /\ \A v \in Workers, r \in Replicas : AtWorker(v, r)' => AtWorker(v, r)
           /\ \A m \in reports' : m \in reports \/ AtWorker(w, m.replica)
<1> USE DEF TypeOK, WorkerTypeOK, workerVars, Work
<1> DEFINE Goal == /\ \A v \in Workers, r \in Replicas : AtWorker(v, r)' => AtWorker(v, r)
                   /\ \A m \in reports' : m \in reports \/ AtWorker(w, m.replica)
<1>e. ASSUME NEW action, TakeEvent(w, action)
      PROVE  /\ InQueue(w, Head(events[w]).replica)
             /\ \A v \in Workers, r \in Replicas : InQueue(v, r)' => InQueue(v, r)
  BY <1>e, HeadInQueue, TakeKeepsQueue DEF TakeEvent
<1>1. CASE Work(Listen(w))
  BY <1>1 DEF Listen, AtWorker, InLoop, InQueue
<1>2. CASE Work(Cancel(w))
  BY <1>2 DEF Cancel, AtWorker, InLoop, InQueue
<1>3. ASSUME Gone(w) PROVE Goal
  BY <1>3 DEF Gone, AtWorker, InLoop, InQueue, Idle
<1>4. CASE Work(Exit(w))
  BY <1>3, <1>4 DEF Exit
<1>5. CASE Work(Crash(w))
  BY <1>3, <1>5 DEF Crash
<1>6. CASE Work(StartContainer(w))
  BY <1>6, <1>e DEF StartContainer, SetContainer, Call, Send, AtWorker, InLoop
<1>7. CASE Work(StartFails(w))
  BY <1>7, <1>e DEF StartFails, SetContainer, Call, Send, AtWorker, InLoop
<1>8. CASE Work(BeginStop(w))
  BY <1>8, <1>e DEF BeginStop, AtWorker, InLoop
<1>9. CASE Work(StopUnknown(w))
  BY <1>9 DEF StopUnknown, ReportStop, Call, Send, AtWorker, InLoop, InQueue
<1>10. CASE Work(StopContainer(w))
  BY <1>10 DEF StopContainer, ReportStop, SetContainer, Call, Send, AtWorker, InLoop, InQueue
<1>11. CASE Work(StopGone(w))
  BY <1>11 DEF StopGone, ReportStop, Call, Send, AtWorker, InLoop, InQueue
<1>12. CASE Work(StopFails(w))
  BY <1>12 DEF StopFails, ReportStop, SetContainer, Call, Send, AtWorker, InLoop, InQueue
<1>13. CASE Work(Return(w))
  BY <1>13 DEF Return, AtWorker, InLoop, InQueue, Idle
<1> QED
  BY <1>1, <1>2, <1>4, <1>5, <1>6, <1>7, <1>8, <1>9, <1>10, <1>11, <1>12, <1>13
  DEF WorkerNext

LEMMA ContainerTraces ==
    ASSUME TypeOK, NEW w \in Workers, NEW q \in Replicas, ContainerNext(w, q)
    PROVE  /\ \A v \in Workers, r \in Replicas : AtWorker(v, r)' => AtWorker(v, r)
           /\ \A m \in reports' : m \in reports \/ AtWorker(w, m.replica)
<1> USE DEF TypeOK, WorkerTypeOK, workerVars, Work, AtWorker, InLoop, InQueue
<1>1. CASE Work(ContainerExit(w, q))
  BY <1>1 DEF ContainerExit, SetContainer
<1>2. CASE Work(MonitorExit(w, q))
  BY <1>2 DEF MonitorExit, MonitorReport, Send
<1>3. CASE Work(MonitorError(w, q))
  BY <1>3 DEF MonitorError, MonitorReport, Send
<1>4. CASE Work(MonitorReturn(w, q))
  BY <1>4 DEF MonitorReturn
<1>5. CASE Work(MonitorCancel(w, q))
  BY <1>5 DEF MonitorCancel
<1> QED
  BY <1>1, <1>2, <1>3, <1>4, <1>5 DEF ContainerNext

-----------------------------------------------------------------------------
\* A call that has chosen its worker sticks to it, and goes forward only.
Keeps ==
    \A q \in Replicas : pick[q] # NoWorker =>
        /\ pick'[q] = pick[q]
        /\ \A S \in {{"assigned", "accepted", "done", "failed"},
                     {"accepted", "done", "failed"}} :
              sched[q] \in S => sched'[q] \in S

\* Copies, messages and traces stay right as long as there are no new ones.
LEMMA KeptCopies ==
    ASSUME TypeOK, CopyInv, Keeps, handlers' \subseteq handlers, orphans' \subseteq orphans
    PROVE  CopyInv'
BY DEF TypeOK, ManagerTypeOK, Handler, Orphan, Report, CopyInv, Copy, Sent, Keeps

LEMMA KeptMessages ==
    ASSUME TypeOK, MessageInv, Keeps, reports' \subseteq reports,
           stopCalls' \subseteq stopCalls
    PROVE  MessageInv'
BY DEF TypeOK, ManagerTypeOK, WorkerTypeOK, StopCall, Report, MessageInv, Sent, Keeps

LEMMA KeptTraces ==
    ASSUME TraceInv, Keeps,
           \A w \in Workers, r \in Replicas : AtWorker(w, r)' => AtWorker(w, r)
    PROVE  TraceInv'
BY DEF TraceInv, Sent, Keeps

LEMMA SameTraces ==
    ASSUME UNCHANGED workerVars
    PROVE  \A w \in Workers, r \in Replicas : AtWorker(w, r)' => AtWorker(w, r)
BY DEF workerVars, AtWorker, InLoop, InQueue

\* A step that leaves the calls alone keeps them.
LEMMA SameCalls ==
    ASSUME UNCHANGED <<sched, pick>>
    PROVE  /\ Keeps /\ (ChoiceInv => ChoiceInv')
           /\ \A q \in Replicas : Sent(q)' = Sent(q)
           /\ \A q \in Replicas : \A rec : Copy(q, rec)' = Copy(q, rec)
BY DEF Keeps, ChoiceInv, Sent, Copy

-----------------------------------------------------------------------------
\* PlacementInv holds initially and is kept by every step.

LEMMA InitPlacement == Init => PlacementInv
BY DEF Init, ManagerInit, WorkerInit, ReportsInit, PlacementInv, ChoiceInv, RecordInv,
       CopyInv, MessageInv, TraceInv, AtWorker, InLoop, InQueue, Idle, Absent

LEMMA SchedulePlacement ==
    ASSUME TypeOK, PlacementInv, NEW r \in Replicas, ScheduleNext(r)
    PROVE  PlacementInv'
<1> USE DEF TypeOK, ManagerTypeOK, PlacementInv, Manage, Meet, stopVars, registryVars,
            detectorVars
<1> DEFINE Calls == Keeps /\ ChoiceInv' /\ RecordInv'
<1>m. ASSUME Calls, handlers' = handlers, orphans' = orphans, reports' = reports,
             stopCalls' = stopCalls, UNCHANGED workerVars
      PROVE  PlacementInv'
  BY <1>m, KeptCopies, KeptMessages, KeptTraces, SameTraces
<1>1. CASE Manage(CreateReplica(r))
  <2>1. Calls
    BY <1>1 DEF CreateReplica, Advance, Put, Keeps, ChoiceInv, RecordInv, Copy, Sent,
       NewReplica
  <2> QED
    BY <1>1, <1>m, <2>1 DEF CreateReplica
<1>2. CASE Manage(PickWorker(r))
  <2>1. Calls
    BY <1>2, NoWorkerAssumption DEF PickWorker, Advance, Keeps, ChoiceInv, RecordInv, Copy,
       Sent, NewReplica
  <2> QED
    BY <1>2, <1>m, <2>1 DEF PickWorker
<1>3. CASE Manage(NoWorkerAvailable(r))
  <2>1. Calls
    BY <1>3 DEF NoWorkerAvailable, Advance, Keeps, ChoiceInv, RecordInv, Copy, Sent
  <2> QED
    BY <1>3, <1>m, <2>1 DEF NoWorkerAvailable
<1>4. CASE Manage(AssignWorker(r))
  <2>1. Calls
    BY <1>4 DEF AssignWorker, Advance, Put, Keeps, ChoiceInv, RecordInv, Copy, Sent,
       Assigned, NewReplica, SetWorkerID
  <2> QED
    BY <1>4, <1>m, <2>1 DEF AssignWorker
<1>5. CASE Manage(MarkScheduled(r))
  <2>1. Calls
    BY <1>5 DEF MarkScheduled, Advance, Put, Keeps, ChoiceInv, RecordInv, Copy, Sent,
       Assigned, NewReplica, SetWorkerID, SetState
  <2> QED
    BY <1>5, <1>m, <2>1 DEF MarkScheduled
<1>6. CASE Meet(DeployRefused(r)) \/ Meet(DeployAnswerLost(r))
  <2>1. Calls
    BY <1>6 DEF DeployRefused, DeployAnswerLost, DeployFailed, Advance, Keeps, ChoiceInv,
       RecordInv, Copy, Sent
  <2> QED
    BY <1>6, <1>m, <2>1 DEF DeployRefused, DeployAnswerLost, DeployFailed
<1>7. CASE Meet(Deploy(r))
  <2>1. Calls
    BY <1>7 DEF Deploy, DeployAccepted, Advance, Keeps, ChoiceInv, RecordInv, Copy, Sent
  <2>2. CopyInv' /\ MessageInv'
    BY <1>7, <2>1, KeptCopies, KeptMessages
    DEF Deploy, DeployAccepted, AcceptDeploy, Accept
  <2>3. pick'[r] = pick[r] /\ Sent(r)'
    BY <1>7, <2>1 DEF Deploy, DeployAccepted, Advance, ChoiceInv, Sent
  <2>4. pick[r] \in Workers
    BY <2>3 DEF Sent
  <2>5. \A w \in Workers, q \in Replicas :
          AtWorker(w, q)' => AtWorker(w, q) \/ (w = pick[r] /\ q = r)
    <3>1. [action |-> "deploy", replica |-> r, container |-> FALSE] \in Event
      BY DEF Event
    <3>2. Accept(pick[r], [action |-> "deploy", replica |-> r, container |-> FALSE])
      BY <1>7 DEF Deploy, AcceptDeploy
    <3>3. \A w \in Workers, q \in Replicas :
            InQueue(w, q)' => InQueue(w, q) \/ (w = pick[r] /\ q = r)
      BY <2>4, <3>1, <3>2, AcceptKeepsQueue
    <3> QED
      BY <3>2, <3>3 DEF Accept, AtWorker, InLoop
  <2>6. TraceInv'
    BY <2>1, <2>3, <2>5 DEF TraceInv, Sent, Keeps
  <2> QED
    BY <2>1, <2>2, <2>6
<1> QED
  BY <1>1, <1>2, <1>3, <1>4, <1>5, <1>6, <1>7 DEF ScheduleNext

LEMMA StopPlacement ==
    ASSUME TypeOK, PlacementInv, NEW r \in Replicas, StopNext(r)
    PROVE  PlacementInv'
<1> USE DEF TypeOK, ManagerTypeOK, PlacementInv, Manage, stopVars, schedVars, registryVars,
            detectorVars
<1>m. ASSUME Keeps, handlers' = handlers, orphans' = orphans, reports' = reports,
             UNCHANGED workerVars
      PROVE  CopyInv' /\ TraceInv' /\ (stopCalls' = stopCalls => MessageInv')
  BY <1>m, KeptCopies, KeptMessages, KeptTraces, SameTraces
<1>s. ASSUME NEW by, NEW n, SendStop(r, by, n), Keeps, reports' = reports
      PROVE  MessageInv'
  <2>1. Sent(r) /\ store[r].worker = pick[r]
    BY <1>s DEF SendStop, Stoppable, RecordInv, Copy, NewReplica, Absent
  <2>2. Sent(r)' /\ pick'[r] = pick[r]
    BY <1>s, <2>1 DEF Keeps, Sent
  <2>3. \A c \in stopCalls' : c \in stopCalls \/ (c.replica = r /\ c.worker = pick[r])
    BY <1>s, <2>1 DEF SendStop
  <2> QED
    BY <1>s, <2>2, <2>3 DEF MessageInv, Sent, Keeps, StopCall, Report, WorkerTypeOK
<1>1. CASE Manage(StopReplica(r))
  <2>1. Keeps /\ ChoiceInv' /\ RecordInv'
    BY <1>1, SameCalls DEF StopReplica, RecordInv, ChoiceInv
  <2> QED
    BY <1>1, <1>m, <1>s, <2>1 DEF StopReplica
<1>2. ASSUME NEW n \in Replicas, Manage(BeginRestart(r, n)) PROVE PlacementInv'
  <2>1. Keeps /\ ChoiceInv' /\ RecordInv'
    BY <1>2 DEF BeginRestart, Advance, Keeps, ChoiceInv, RecordInv, Copy, Sent
  <2> QED
    BY <1>2, <1>m, <2>1 DEF BeginRestart
<1>3. ASSUME NEW n \in Replicas, Manage(RestartStop(r, n)) PROVE PlacementInv'
  <2>1. Keeps /\ ChoiceInv' /\ RecordInv'
    BY <1>3 DEF RestartStop, Advance, Keeps, ChoiceInv, RecordInv, Copy, Sent
  <2> QED
    BY <1>3, <1>m, <1>s, <2>1 DEF RestartStop
<1>4. ASSUME NEW n \in Replicas, Manage(ReplaceReplica(r, n)) PROVE PlacementInv'
  <2>1. Keeps /\ ChoiceInv' /\ RecordInv'
    BY <1>4 DEF ReplaceReplica, Advance, Keeps, ChoiceInv, RecordInv, Copy, Sent, NewReplica,
       Absent
  <2> QED
    BY <1>4, <1>m, <2>1 DEF ReplaceReplica
<1> QED
  BY <1>1, <1>2, <1>3, <1>4 DEF StopNext

LEMMA StopCallPlacement ==
    ASSUME TypeOK, PlacementInv, NEW c \in stopCalls, StopCallNext(c)
    PROVE  PlacementInv'
<1> USE DEF TypeOK, ManagerTypeOK, PlacementInv, Meet, registryVars, detectorVars
<1>1. StopCallEnds(c) /\ c \in StopCall
  BY DEF StopCallNext, StopDelivered, StopRefused
<1>2. Keeps /\ ChoiceInv' /\ RecordInv'
  <2>1. CASE c.by = NoReplica
    BY <1>1, <2>1, SameCalls DEF StopCallEnds, RecordInv
  <2>2. CASE c.by # NoReplica
    BY <1>1, <2>2 DEF StopCallEnds, StopCall, Advance, Keeps, ChoiceInv, RecordInv, Copy, Sent
  <2> QED
    BY <2>1, <2>2
<1>3. UNCHANGED reports
  BY DEF StopCallNext, StopDelivered, StopRefused, AcceptStop, Accept
<1>4. CopyInv' /\ MessageInv'
  BY <1>1, <1>2, <1>3, KeptCopies, KeptMessages DEF StopCallEnds
<1>5. TraceInv'
  <2>1. CASE Meet(StopRefused(c))
    BY <1>2, <2>1, KeptTraces, SameTraces DEF StopRefused
  <2>2. CASE Meet(StopDelivered(c))
    <3>1. [action |-> "stop", replica |-> c.replica, container |-> c.container] \in Event
      BY <1>1 DEF Event, StopCall
    <3>2. /\ Accept(c.worker, [action |-> "stop", replica |-> c.replica,
                               container |-> c.container])
          /\ c.worker \in Workers /\ c.replica \in Replicas
      BY <1>1, <2>2 DEF StopDelivered, AcceptStop, StopCall
    <3>3. \A w \in Workers, q \in Replicas :
            InQueue(w, q)' => InQueue(w, q) \/ (w = c.worker /\ q = c.replica)
      BY <3>1, <3>2, AcceptKeepsQueue
    <3>4. \A w \in Workers, q \in Replicas :
            AtWorker(w, q)' => AtWorker(w, q) \/ (w = c.worker /\ q = c.replica)
      BY <3>2, <3>3 DEF Accept, AtWorker, InLoop
    <3>5. Sent(c.replica) /\ c.worker = pick[c.replica]
      BY DEF MessageInv
    <3> QED
      BY <1>2, <3>2, <3>4, <3>5 DEF TraceInv, Sent, Keeps
  <2> QED
    BY <2>1, <2>2 DEF StopCallNext
<1> QED
  BY <1>2, <1>4, <1>5

\* Steps that leave the calls, the stop requests and the workers alone, and send
\* no report: what they do to records and copies is all there is to check.
LEMMA StillPlacement ==
    ASSUME TypeOK, PlacementInv, UNCHANGED <<sched, pick, stopCalls, workerVars>>,
           reports' \subseteq reports, RecordInv', CopyInv'
    PROVE  PlacementInv'
BY SameCalls, KeptMessages, KeptTraces, SameTraces DEF PlacementInv

\* What the store holds of a replica that is sent is a copy from after the
\* assignment, if it is there at all.
LEMMA FoundIsCopy ==
    ASSUME PlacementInv, NEW r \in Replicas, Sent(r), Found(r)
    PROVE  Copy(r, store[r])
BY DEF PlacementInv, RecordInv, Sent, Found

LEMMA ReportPlacement ==
    ASSUME TypeOK, PlacementInv, NEW m \in reports, ReportNext(m)
    PROVE  PlacementInv'
<1> USE DEF Manage, schedVars, stopVars
<1>1. m.replica \in Replicas /\ Sent(m.replica)
  BY DEF TypeOK, WorkerTypeOK, Report, PlacementInv, MessageInv
<1>2. UNCHANGED <<sched, pick, stopCalls, workerVars, store, orphans>>
  BY DEF ReportNext, ReceiveReport, RejectReport, LoseReport, managerVars, detectorVars
<1>3. reports' \subseteq reports
  BY DEF ReportNext, ReceiveReport, RejectReport, LoseReport
<1>4. RecordInv'
  BY <1>2, SameCalls DEF PlacementInv, RecordInv
<1>5. CopyInv'
  <2>1. \A h \in handlers' :
          h \in handlers \/ (/\ h.report = m /\ h.snap = store[m.replica]
                            /\ Found(m.replica))
    BY DEF ReportNext, ReceiveReport, RejectReport, LoseReport, managerVars
  <2>2. \A h \in handlers' : Copy(h.report.replica, h.snap) /\ Sent(h.report.replica)
    BY <1>1, <2>1, FoundIsCopy DEF PlacementInv, CopyInv
  <2> QED
    BY <1>2, <2>2 DEF PlacementInv, CopyInv, Copy, Sent
<1> QED
  BY <1>2, <1>3, <1>4, <1>5, StillPlacement

LEMMA SavePlacement ==
    ASSUME TypeOK, PlacementInv, NEW h \in handlers, Manage(SaveReport(h))
    PROVE  PlacementInv'
<1> USE DEF Manage, SaveReport, schedVars, stopVars, detectorVars
<1> DEFINE q == h.report.replica
           rec == ApplyReport(h.snap, h.report)
<1>1. q \in Replicas /\ h.report \in Report /\ h.snap \in ReplicaRecord
  BY DEF TypeOK, ManagerTypeOK, Handler, Report
<1>2. Copy(q, h.snap) /\ Sent(q)
  BY DEF PlacementInv, CopyInv
<1>3. rec.worker = h.snap.worker
  BY <1>1 DEF ApplyReport, SetState, SetContainerID, ReplicaRecord
<1>4. Copy(q, rec)
  BY <1>2, <1>3 DEF Copy
<1>5. store' = [store EXCEPT ![q] = rec]
  BY DEF Put
<1>6. RecordInv'
  <2> HIDE DEF q, rec
  <2>1. \A r \in Replicas : r # q => store'[r] = store[r]
    BY <1>5 DEF TypeOK, ManagerTypeOK
  <2>2. store'[q] = rec
    BY <1>1, <1>5 DEF TypeOK, ManagerTypeOK, q
  <2> QED
    BY <1>2, <1>4, <2>1, <2>2, SameCalls DEF PlacementInv, RecordInv, q
<1>7. CopyInv'
  BY SameCalls, KeptCopies DEF PlacementInv
<1> QED
  BY <1>6, <1>7, StillPlacement

LEMMA RegistryPlacement ==
    ASSUME TypeOK, PlacementInv, NEW w \in Workers, RegistryNext(w)
    PROVE  PlacementInv'
<1> USE DEF Manage, Meet, schedVars, stopVars, detectorVars
<1>1. UNCHANGED <<sched, pick, store, stopCalls, handlers, orphans, reports>>
  BY DEF RegistryNext, Boot, Register, Heartbeat, HeartbeatRead, Silence, GoStale,
     HeartbeatSave, DetectorRemove
<1>2. RecordInv'
  BY <1>1, SameCalls DEF PlacementInv, RecordInv
<1>3. CopyInv' /\ MessageInv'
  BY <1>1, SameCalls, KeptCopies, KeptMessages DEF PlacementInv
<1>4. UNCHANGED <<events, loop, stopping, monitor, container>>
  BY DEF RegistryNext, Boot, Join, workerVars
<1>5. TraceInv'
  BY <1>1, <1>4, SameCalls, KeptTraces DEF PlacementInv, AtWorker, InLoop, InQueue
<1> QED
  BY <1>1, <1>2, <1>3, <1>5, SameCalls DEF PlacementInv

\* The detector lists records that are assigned, and these are copies.
LEMMA ListPlacement ==
    ASSUME TypeOK, PlacementInv, Manage(DetectorList)
    PROVE  PlacementInv'
<1> USE DEF Manage, DetectorList, schedVars, stopVars
<1>1. \A r \in Replicas : store[r].worker # NoWorker => Copy(r, store[r])
  BY DEF PlacementInv, RecordInv, NewReplica, Absent
<1>2. \A o \in orphans' : \E r \in Replicas :
        o = [replica |-> r, snap |-> store[r]] /\ store[r].worker # NoWorker
  OBVIOUS
<1>3. CopyInv'
  <2>1. \A o \in orphans' : Copy(o.replica, o.snap)
    BY <1>1, <1>2
  <2> QED
    BY <2>1 DEF PlacementInv, CopyInv, Copy, Sent
<1>4. RecordInv'
  BY SameCalls DEF PlacementInv, RecordInv
<1> QED
  BY <1>3, <1>4, StillPlacement

LEMMA MarkPlacement ==
    ASSUME TypeOK, PlacementInv, NEW o \in orphans, Manage(DetectorMark(o))
    PROVE  PlacementInv'
<1> USE DEF Manage, DetectorMark, schedVars, stopVars
<1> DEFINE q == o.replica
           rec == SetError(o.snap)
<1>1. q \in Replicas /\ o.snap \in ReplicaRecord
  BY DEF TypeOK, ManagerTypeOK, Orphan
<1>2. rec.worker = o.snap.worker /\ rec.state = "failed"
  BY <1>1 DEF SetError, SetState, ReplicaRecord
<1>3. Copy(q, rec)
  BY <1>2 DEF PlacementInv, CopyInv, Copy
<1>4. store' = [store EXCEPT ![q] = rec]
  BY DEF Put
<1>5. RecordInv'
  <2> HIDE DEF q, rec
  <2>1. \A r \in Replicas : r # q => store'[r] = store[r]
    BY <1>4 DEF TypeOK, ManagerTypeOK
  <2>2. store'[q] = rec
    BY <1>1, <1>4 DEF TypeOK, ManagerTypeOK
  <2> QED
    BY <1>2, <1>3, <2>1, <2>2, SameCalls DEF PlacementInv, RecordInv
<1>6. CopyInv'
  BY SameCalls, KeptCopies DEF PlacementInv
<1> QED
  BY <1>5, <1>6, StillPlacement

\* A worker reports only of what it holds, and that was sent.
LEMMA WorkPlacement ==
    ASSUME TypeOK, PlacementInv, NEW w \in Workers, UNCHANGED managerVars,
           \A v \in Workers, r \in Replicas : AtWorker(v, r)' => AtWorker(v, r),
           \A m \in reports' : m \in reports \/ AtWorker(w, m.replica),
           reports' \subseteq Report
    PROVE  PlacementInv'
<1> USE DEF managerVars, schedVars, stopVars, detectorVars
<1>1. RecordInv'
  BY SameCalls DEF PlacementInv, RecordInv
<1>2. CopyInv' /\ TraceInv'
  BY SameCalls, KeptCopies, KeptTraces DEF PlacementInv
<1>3. \A m \in reports' : Sent(m.replica)
  BY DEF PlacementInv, MessageInv, TraceInv, Report
<1>4. MessageInv'
  BY <1>3 DEF PlacementInv, MessageInv, Sent
<1> QED
  BY <1>1, <1>2, <1>4, SameCalls DEF PlacementInv

LEMMA NextPlacement ==
    ASSUME TypeOK, TypeOK', PlacementInv, Next
    PROVE  PlacementInv'
<1>1. ASSUME NEW w \in Workers, WorkerNext(w) PROVE PlacementInv'
  <2>1. UNCHANGED managerVars
    BY <1>1 DEF WorkerNext, Work
  <2> QED
    BY <1>1, <2>1, WorkerTraces, WorkPlacement DEF TypeOK, WorkerTypeOK
<1>2. ASSUME NEW w \in Workers, NEW r \in Replicas, ContainerNext(w, r)
      PROVE  PlacementInv'
  <2>1. UNCHANGED managerVars
    BY <1>2 DEF ContainerNext, Work
  <2> QED
    BY <1>2, <2>1, ContainerTraces, WorkPlacement DEF TypeOK, WorkerTypeOK
<1> QED
  BY <1>1, <1>2, SchedulePlacement, StopPlacement, StopCallPlacement, ReportPlacement,
     SavePlacement, RegistryPlacement, ListPlacement, MarkPlacement DEF Next

-----------------------------------------------------------------------------
\* The theorems

\* A replica's worker is chosen once, and every record, copy, request, report and
\* trace of the replica stands for that choice, in every execution.
THEOREM Placed == Spec => []PlacementInv
<1>1. Init => PlacementInv
  BY InitPlacement
<1>2. TypeOK /\ TypeOK' /\ PlacementInv /\ [Next]_vars => PlacementInv'
  <2> SUFFICES ASSUME TypeOK, TypeOK', PlacementInv, [Next]_vars PROVE PlacementInv'
    OBVIOUS
  <2>1. CASE Next
    BY <2>1, NextPlacement
  <2>2. CASE UNCHANGED vars
    <3>1. /\ UNCHANGED <<managerVars, workerVars, reports>>
          /\ \A v \in Workers, r \in Replicas : AtWorker(v, r)' => AtWorker(v, r)
      BY <2>2, SameTraces DEF vars
    <3>2. UNCHANGED <<sched, pick, stopCalls, store, handlers, orphans>>
      BY <3>1 DEF managerVars, schedVars, stopVars, detectorVars
    <3>3. RecordInv' /\ CopyInv'
      BY <3>2, SameCalls, KeptCopies DEF PlacementInv, RecordInv
    <3> QED
      BY <3>1, <3>2, <3>3, StillPlacement
  <2> QED
    BY <2>1, <2>2
<1> QED
  BY <1>1, <1>2, TypeCorrect, PTL DEF Spec

\* Containers, events and goroutines of a replica are at the worker the manager's
\* record names and nowhere else.
THEOREM PlacementHolds == Spec => []PlacementAgrees
<1>1. PlacementInv => PlacementAgrees
  <2> SUFFICES ASSUME PlacementInv, NEW w \in Workers, NEW r \in Replicas, AtWorker(w, r)
               PROVE  pick[r] = w /\ (Found(r) => store[r].worker = w)
    BY DEF PlacementAgrees
  <2>1. Sent(r) /\ pick[r] = w
    BY DEF PlacementInv, TraceInv
  <2> QED
    BY <2>1, FoundIsCopy DEF Copy
<1> QED
  BY <1>1, Placed, PTL

\* A running replica is always recorded with its worker, so that it can be stopped.
THEOREM RunningHasWorkerHolds == Spec => []RunningHasWorker
<1>1. TypeOK /\ PlacementInv => RunningHasWorker
  <2> SUFFICES ASSUME TypeOK, PlacementInv, NEW r \in Replicas, store[r].state = "running"
               PROVE  store[r].worker \in Workers
    BY DEF RunningHasWorker
  <2>1. Sent(r) /\ Found(r)
    BY DEF PlacementInv, RecordInv, Found, Absent
  <2>2. store[r].worker = pick[r] /\ pick[r] # NoWorker
    BY <2>1, FoundIsCopy DEF Copy
  <2> QED
    BY <2>2 DEF TypeOK, ManagerTypeOK
<1> QED
  BY <1>1, Placed, TypeCorrect, PTL

-----------------------------------------------------------------------------
\* Cluster implements Placement: the choice of a worker maps to Place, the start of
\* a container to Launch, its end or its failure to start to End, and every other
\* step to a stutter.

life == [w \in Workers |-> [r \in Replicas |-> Life(container[w][r])]]

-----------------------------------------------------------------------------
\* A step that neither chooses a worker nor changes a container is a stutter.
LEMMA Stutter ==
    ASSUME UNCHANGED <<pick, container>>
    PROVE  [P!Next]_P!vars
BY DEF P!vars

\* A container changes at the replica's own worker only, and then it starts for
\* the first time or it comes to an end: Launch, End or a stutter.
LEMMA ContainerStep ==
    ASSUME TypeOK, NEW w \in Workers, NEW r \in Replicas, NEW c,
           SetContainer(w, r, c), UNCHANGED pick, pick[r] = w,
           \/ container[w][r] = "none" /\ c = "running"
           \/ c \in {"created", "exited", "removed"}
    PROVE  [P!Next]_P!vars
<1>1. life' = [life EXCEPT ![w][r] = Life(c)]
  BY DEF life, SetContainer, TypeOK, WorkerTypeOK
<1>2. life[w][r] = Life(container[w][r])
  BY DEF life
<1>3. CASE container[w][r] = "none" /\ c = "running"
  <2>1. life[w][r] = "none" /\ Life(c) = "running"
    BY <1>2, <1>3 DEF Life
  <2>2. P!Launch(r, w)
    BY <1>1, <2>1 DEF P!Launch, life
  <2> QED
    BY <2>2 DEF P!Next
<1>4. CASE c \in {"created", "exited", "removed"}
  <2>1. Life(c) = "ended"
    BY <1>4 DEF Life
  <2>2. CASE life[w][r] = "ended"
    <3>1. Life(container[w][r]) = Life(c)
      BY <1>2, <2>1, <2>2
    <3>2. \A v \in Workers, q \in Replicas :
            container'[v][q] = container[v][q] \/ (v = w /\ q = r /\ container'[v][q] = c)
      BY DEF SetContainer, TypeOK, WorkerTypeOK
    <3>3. \A v \in Workers, q \in Replicas :
            Life(container'[v][q]) = Life(container[v][q])
      BY <3>1, <3>2
    <3>4. life' = life
      BY <3>3 DEF life
    <3> QED
      BY <3>4 DEF P!vars, life
  <2>3. CASE life[w][r] # "ended"
    <3>1. P!End(r, w)
      BY <1>1, <2>1, <2>3 DEF P!End, life
    <3> QED
      BY <3>1 DEF P!Next
  <2> QED
    BY <2>2, <2>3
<1> QED
  BY <1>3, <1>4

\* The manager's choice of a worker is made for a replica that has none.
LEMMA PickStep ==
    ASSUME TypeOK, PlacementInv, NEW r \in Replicas, Manage(PickWorker(r))
    PROVE  [P!Next]_P!vars
<1>1. PICK w \in Workers : pick' = [pick EXCEPT ![r] = w]
  BY DEF Manage, PickWorker, TypeOK, ManagerTypeOK
<1>2. pick[r] = NoWorker
  BY DEF Manage, PickWorker, Advance, PlacementInv, ChoiceInv
<1>3. container' = container
  BY DEF Manage, workerVars
<1>4. P!Place(r, w)
  BY <1>1, <1>2, <1>3 DEF P!Place
<1> QED
  BY <1>4 DEF P!Next

\* The worker's loop touches containers of replicas it was sent.
LEMMA WorkerStep ==
    ASSUME TypeOK, PlacementInv, NEW w \in Workers, WorkerNext(w)
    PROVE  [P!Next]_P!vars
<1>1. UNCHANGED pick
  BY DEF WorkerNext, Work, managerVars, schedVars
<1>2. ASSUME NEW r \in Replicas, AtWorker(w, r) PROVE pick[r] = w
  BY <1>2 DEF PlacementInv, TraceInv
<1>3. ASSUME NEW action, TakeEvent(w, action)
      PROVE  /\ Head(events[w]).replica \in Replicas
             /\ pick[Head(events[w]).replica] = w
  <2>1. Head(events[w]) \in Event
    BY <1>3 DEF TakeEvent, TypeOK, WorkerTypeOK
  <2> QED
    BY <1>2, <1>3, <2>1, HeadInQueue DEF TakeEvent, Event, AtWorker
<1>4. ASSUME loop[w].pc = "stop" PROVE loop[w].replica \in Replicas /\ pick[loop[w].replica] = w
  BY <1>2, <1>4, StopTypes DEF AtWorker, InLoop
<1>5. CASE Work(StartContainer(w))
  BY <1>1, <1>3, <1>5, ContainerStep DEF Work, StartContainer
<1>6. CASE Work(StartFails(w))
  <2>1. CASE UNCHANGED container
    BY <1>1, <2>1, Stutter
  <2>2. CASE SetContainer(w, Head(events[w]).replica, "created")
    BY <1>1, <1>3, <1>6, <2>2, ContainerStep DEF Work, StartFails
  <2> QED
    BY <1>6, <2>1, <2>2 DEF Work, StartFails
<1>7. CASE Work(StopContainer(w))
  BY <1>1, <1>4, <1>7, ContainerStep DEF Work, StopContainer
<1>8. CASE Work(StopFails(w))
  <2>1. CASE UNCHANGED container
    BY <1>1, <2>1, Stutter
  <2>2. CASE SetContainer(w, loop[w].replica, "exited")
    BY <1>1, <1>4, <1>8, <2>2, ContainerStep DEF Work, StopFails
  <2> QED
    BY <1>8, <2>1, <2>2 DEF Work, StopFails
<1>9. CASE \/ Work(Listen(w)) \/ Work(Cancel(w)) \/ Work(Exit(w)) \/ Work(Crash(w))
           \/ Work(BeginStop(w)) \/ Work(StopUnknown(w)) \/ Work(StopGone(w))
           \/ Work(Return(w))
  <2>1. UNCHANGED container
    BY <1>9 DEF Work, Listen, Cancel, Exit, Crash, Gone, BeginStop, StopUnknown, StopGone,
       Return
  <2> QED
    BY <1>1, <2>1, Stutter
<1> QED
  BY <1>5, <1>6, <1>7, <1>8, <1>9 DEF WorkerNext

\* A container that ends by itself was started by the replica's worker.
LEMMA RunStep ==
    ASSUME TypeOK, PlacementInv, NEW w \in Workers, NEW r \in Replicas, ContainerNext(w, r)
    PROVE  [P!Next]_P!vars
<1>1. UNCHANGED pick
  BY DEF ContainerNext, Work, managerVars, schedVars
<1>2. CASE Work(ContainerExit(w, r))
  <2>1. pick[r] = w
    BY <1>2 DEF Work, ContainerExit, AtWorker, PlacementInv, TraceInv
  <2> QED
    BY <1>1, <1>2, <2>1, ContainerStep DEF Work, ContainerExit
<1>3. CASE \/ Work(MonitorExit(w, r)) \/ Work(MonitorError(w, r))
           \/ Work(MonitorReturn(w, r)) \/ Work(MonitorCancel(w, r))
  BY <1>1, <1>3, Stutter DEF Work, MonitorExit, MonitorError, MonitorReturn, MonitorCancel
<1> QED
  BY <1>2, <1>3 DEF ContainerNext

\* The rest of the manager, and what the two do together, neither choose a worker
\* nor touch a container.
LEMMA ManagerStep ==
    ASSUME TypeOK, PlacementInv, Next,
           ~ \E w \in Workers : WorkerNext(w) \/ \E r \in Replicas : ContainerNext(w, r)
    PROVE  [P!Next]_P!vars
<1> USE DEF Manage, Meet, workerVars, schedVars
<1>1. CASE \E r \in Replicas : Manage(PickWorker(r))
  BY <1>1, PickStep
<1>2. CASE \E r \in Replicas : ScheduleNext(r) /\ ~Manage(PickWorker(r))
  BY <1>2, Stutter
  DEF ScheduleNext, CreateReplica, NoWorkerAvailable, AssignWorker, MarkScheduled, Deploy,
      DeployAccepted, AcceptDeploy, Accept, DeployRefused, DeployAnswerLost, DeployFailed
<1>3. CASE \E r \in Replicas : StopNext(r)
  BY <1>3, Stutter DEF StopNext, StopReplica, BeginRestart, RestartStop, ReplaceReplica
<1>4. CASE \E c \in stopCalls : StopCallNext(c)
  BY <1>4, Stutter DEF StopCallNext, StopDelivered, StopRefused, StopCallEnds, AcceptStop,
     Accept
<1>5. CASE \E m \in reports : ReportNext(m)
  BY <1>5, Stutter DEF ReportNext, ReceiveReport, RejectReport, LoseReport, managerVars
<1>6. CASE \E w \in Workers : RegistryNext(w)
  BY <1>6, Stutter DEF RegistryNext, Boot, Register, Join, Heartbeat, HeartbeatRead, Silence,
     GoStale, HeartbeatSave, DetectorRemove
<1>7. CASE \/ \E h \in handlers : Manage(SaveReport(h))
           \/ Manage(DetectorList)
           \/ \E o \in orphans : Manage(DetectorMark(o))
  BY <1>7, Stutter DEF SaveReport, DetectorList, DetectorMark
<1> QED
  BY <1>1, <1>2, <1>3, <1>4, <1>5, <1>6, <1>7 DEF Next

-----------------------------------------------------------------------------
\* At most one worker is chosen for a replica, and at most one container of it is
\* ever started, there: whatever is lost, crashes or is resurrected.
THEOREM Refinement == Spec => Implements
<1>1. Init => P!Init
  BY DEF Init, ManagerInit, WorkerInit, P!Init, Life
<1>2. TypeOK /\ PlacementInv /\ [Next]_vars => [P!Next]_P!vars
  <2> SUFFICES ASSUME TypeOK, PlacementInv, [Next]_vars PROVE [P!Next]_P!vars
    OBVIOUS
  <2>1. CASE Next
    BY <2>1, WorkerStep, RunStep, ManagerStep
  <2>2. CASE UNCHANGED vars
    BY <2>2, Stutter DEF vars, managerVars, schedVars, workerVars
  <2> QED
    BY <2>1, <2>2
<1> QED
  BY <1>1, <1>2, TypeCorrect, Placed, PTL DEF Spec, Implements, P!Spec
=============================================================================
