---------------------------- MODULE ReportProofs ----------------------------
(***************************************************************************)
(* What the manager comes to know of a replica.  OrderInv, and with it     *)
(* DeployReportFirst, when no call of a worker times out; EndedInv, and    *)
(* with it EndedStays, when besides no live worker falls silent;           *)
(* SettledInv, and with it SettledAgrees, when nothing fails but workers   *)
(* that are told to stop or die.                                           *)
(***************************************************************************)
EXTENDS PlacementProofs

-----------------------------------------------------------------------------
\* Queues

\* What a queue holds after its first event was taken it held one place on.
LEMMA TakenQueue ==
    ASSUME TypeOK, NEW w \in Workers, events[w] # <<>>,
           events' = [events EXCEPT ![w] = Tail(@)]
    PROVE  /\ \A v \in Workers : v # w => events'[v] = events[v]
           /\ 1 \in DOMAIN events[w] /\ Head(events[w]) = events[w][1]
           /\ \A i \in DOMAIN events'[w] : /\ i \in Nat /\ i >= 1
                                           /\ i + 1 \in DOMAIN events[w]
                                           /\ events'[w][i] = events[w][i + 1]
<1>1. events \in [Workers -> Seq(Event)]
  BY DEF TypeOK, WorkerTypeOK
<1>2. events'[w] = Tail(events[w]) /\ events[w] \in Seq(Event)
  BY <1>1
<1>3. /\ Tail(events[w]) \in Seq(Event) /\ Len(Tail(events[w])) = Len(events[w]) - 1
      /\ \A k \in 1..Len(Tail(events[w])) : Tail(events[w])[k] = events[w][k + 1]
  BY <1>2, HeadTailProperties
<1>4. /\ DOMAIN Tail(events[w]) = 1..Len(Tail(events[w]))
      /\ DOMAIN events[w] = 1..Len(events[w]) /\ Len(events[w]) \in Nat
  BY <1>2, <1>3, LenProperties
<1>5. 1 \in DOMAIN events[w] /\ Head(events[w]) = events[w][1]
  BY <1>2
<1> QED
  BY <1>1, <1>2, <1>3, <1>4, <1>5

\* Taking an event keeps the order, and the replica taken is no longer awaited.
LEMMA TakeOrder ==
    ASSUME TypeOK, QueueInv, NEW w \in Workers, events[w] # <<>>,
           events' = [events EXCEPT ![w] = Tail(@)]
    PROVE  /\ QueueInv'
           /\ \A v \in Workers, r \in Replicas : Awaits(v, r)' => Awaits(v, r)
           /\ \A r \in Replicas : Awaits(w, r)' => r # Head(events[w]).replica
           /\ Head(events[w]).action = "deploy" => Awaits(w, Head(events[w]).replica)
<1>1. /\ \A v \in Workers : v # w => events'[v] = events[v]
      /\ 1 \in DOMAIN events[w] /\ Head(events[w]) = events[w][1]
      /\ \A i \in DOMAIN events'[w] : /\ i \in Nat /\ i >= 1
                                      /\ i + 1 \in DOMAIN events[w]
                                      /\ events'[w][i] = events[w][i + 1]
  BY TakenQueue
<1>2. QueueInv'
  <2> SUFFICES ASSUME NEW v \in Workers, NEW i \in DOMAIN events'[v],
                      NEW j \in DOMAIN events'[v], events'[v][i].action = "deploy",
                      j # i, events'[v][j].replica = events'[v][i].replica
               PROVE  j > i /\ events'[v][j].action = "stop"
    BY DEF QueueInv
  <2>1. CASE v # w
    BY <1>1, <2>1 DEF QueueInv
  <2>2. CASE v = w
    <3>1. /\ i \in Nat /\ i + 1 \in DOMAIN events[w] /\ events'[w][i] = events[w][i + 1]
          /\ j \in Nat /\ j + 1 \in DOMAIN events[w] /\ events'[w][j] = events[w][j + 1]
      BY <1>1, <2>2
    <3>2. j + 1 # i + 1 /\ (j + 1 > i + 1 => j > i)
      BY <3>1
    <3>3. j + 1 > i + 1 /\ events[w][j + 1].action = "stop"
      BY <2>2, <3>1, <3>2 DEF QueueInv
    <3> QED
      BY <2>2, <3>1, <3>2, <3>3
  <2> QED
    BY <2>1, <2>2
<1>3. ASSUME NEW v \in Workers, NEW r \in Replicas, Awaits(v, r)' PROVE Awaits(v, r)
  <2>1. CASE v # w
    BY <1>1, <1>3, <2>1 DEF Awaits
  <2>2. CASE v = w
    <3>1. PICK i \in DOMAIN events'[w] : /\ events'[w][i].action = "deploy"
                                         /\ events'[w][i].replica = r
      BY <1>3, <2>2 DEF Awaits
    <3>2. PICK k \in DOMAIN events[w] : events'[w][i] = events[w][k]
      BY <1>1, <3>1
    <3> QED
      BY <2>2, <3>1, <3>2 DEF Awaits
  <2> QED
    BY <2>1, <2>2
<1>4. ASSUME NEW r \in Replicas, Awaits(w, r)', r = Head(events[w]).replica PROVE FALSE
  <2>1. PICK i \in DOMAIN events'[w] : /\ events'[w][i].action = "deploy"
                                       /\ events'[w][i].replica = events[w][1].replica
    BY <1>1, <1>4 DEF Awaits
  <2>2. PICK k \in DOMAIN events[w] : /\ events[w][k].action = "deploy"
                                      /\ events[w][1].replica = events[w][k].replica
                                      /\ 1 # k /\ ~(1 > k)
    <3>1. i \in Nat /\ i >= 1
      BY <1>1, <2>1
    <3>2. 1 # i + 1 /\ ~(1 > i + 1)
      BY <3>1
    <3> QED
      BY <1>1, <2>1, <3>2
  <2> QED
    BY <1>1, <2>2 DEF QueueInv
<1>5. Head(events[w]).action = "deploy" => Awaits(w, Head(events[w]).replica)
  BY <1>1 DEF Awaits
<1> QED
  BY <1>2, <1>3, <1>4, <1>5

\* An accepted event is the last of its queue.
LEMMA AcceptedQueue ==
    ASSUME TypeOK, NEW w \in Workers, NEW e \in Event, Accept(w, e)
    PROVE  /\ \A v \in Workers : v # w => events'[v] = events[v]
           /\ \A i \in DOMAIN events'[w] :
                 \/ i \in DOMAIN events[w] /\ events'[w][i] = events[w][i]
                 \/ /\ events'[w][i] = e /\ i \notin DOMAIN events[w]
                    /\ \A j \in DOMAIN events[w] : i > j
           /\ \A i, j \in DOMAIN events'[w] :
                 i \notin DOMAIN events[w] /\ j \notin DOMAIN events[w] => i = j
<1>1. events \in [Workers -> Seq(Event)]
  BY DEF TypeOK, WorkerTypeOK
<1>2. events'[w] = Append(events[w], e) /\ events[w] \in Seq(Event)
  BY <1>1 DEF Accept
<1>3. /\ DOMAIN events[w] = 1..Len(events[w]) /\ Len(events[w]) \in Nat
      /\ DOMAIN events'[w] = 1..(Len(events[w]) + 1)
      /\ \A i \in 1..Len(events[w]) : events'[w][i] = events[w][i]
      /\ events'[w][Len(events[w]) + 1] = e
  BY <1>2
<1>4. \A v \in Workers : v # w => events'[v] = events[v]
  BY <1>1 DEF Accept
<1> QED
  BY <1>3, <1>4

\* Accepting a stop event changes nothing about what is awaited.
LEMMA AcceptStopOrder ==
    ASSUME TypeOK, QueueInv, NEW w \in Workers, NEW e \in Event, Accept(w, e),
           e.action = "stop"
    PROVE  /\ QueueInv'
           /\ \A v \in Workers, r \in Replicas : Awaits(v, r)' => Awaits(v, r)
<1>1. /\ \A v \in Workers : v # w => events'[v] = events[v]
      /\ \A i \in DOMAIN events'[w] :
            \/ i \in DOMAIN events[w] /\ events'[w][i] = events[w][i]
            \/ /\ events'[w][i] = e /\ i \notin DOMAIN events[w]
               /\ \A j \in DOMAIN events[w] : i > j
  BY AcceptedQueue
<1>2. QueueInv'
  <2> SUFFICES ASSUME NEW v \in Workers, NEW i \in DOMAIN events'[v],
                      NEW j \in DOMAIN events'[v], events'[v][i].action = "deploy",
                      j # i, events'[v][j].replica = events'[v][i].replica
               PROVE  j > i /\ events'[v][j].action = "stop"
    BY DEF QueueInv
  <2>1. CASE v # w
    BY <1>1, <2>1 DEF QueueInv
  <2>2. CASE v = w
    <3>1. i \in DOMAIN events[w] /\ events'[w][i] = events[w][i]
      BY <1>1, <2>2
    <3> QED
      BY <1>1, <2>2, <3>1 DEF QueueInv
  <2> QED
    BY <2>1, <2>2
<1>3. ASSUME NEW v \in Workers, NEW r \in Replicas, Awaits(v, r)' PROVE Awaits(v, r)
  <2>1. PICK i \in DOMAIN events'[v] : /\ events'[v][i].action = "deploy"
                                       /\ events'[v][i].replica = r
    BY <1>3 DEF Awaits
  <2>2. i \in DOMAIN events[v] /\ events'[v][i] = events[v][i]
    BY <1>1, <2>1
  <2> QED
    BY <2>1, <2>2 DEF Awaits
<1> QED
  BY <1>2, <1>3

\* Accepting the deploy event of a replica that has no event in the queue awaits
\* that replica.
LEMMA AcceptDeployOrder ==
    ASSUME TypeOK, QueueInv, NEW w \in Workers, NEW e \in Event, Accept(w, e),
           ~InQueue(w, e.replica)
    PROVE  /\ QueueInv'
           /\ \A v \in Workers, r \in Replicas :
                 Awaits(v, r)' => Awaits(v, r) \/ (v = w /\ r = e.replica)
<1>1. /\ \A v \in Workers : v # w => events'[v] = events[v]
      /\ \A i \in DOMAIN events'[w] :
            \/ i \in DOMAIN events[w] /\ events'[w][i] = events[w][i]
            \/ /\ events'[w][i] = e /\ i \notin DOMAIN events[w]
               /\ \A j \in DOMAIN events[w] : i > j
      /\ \A i, j \in DOMAIN events'[w] :
            i \notin DOMAIN events[w] /\ j \notin DOMAIN events[w] => i = j
  BY AcceptedQueue
<1>2. QueueInv'
  <2> SUFFICES ASSUME NEW v \in Workers, NEW i \in DOMAIN events'[v],
                      NEW j \in DOMAIN events'[v], events'[v][i].action = "deploy",
                      j # i, events'[v][j].replica = events'[v][i].replica
               PROVE  j > i /\ events'[v][j].action = "stop"
    BY DEF QueueInv
  <2>1. CASE v # w
    BY <1>1, <2>1 DEF QueueInv
  <2>2. CASE v = w
    <3>1. CASE i \in DOMAIN events[w] /\ j \in DOMAIN events[w]
      BY <1>1, <2>2, <3>1 DEF QueueInv
    <3>2. CASE i \notin DOMAIN events[w] \/ j \notin DOMAIN events[w]
      <4>1. ASSUME NEW k \in DOMAIN events[w] PROVE events[w][k].replica # e.replica
        BY <4>1 DEF InQueue
      <4>2. \/ /\ i \notin DOMAIN events[w] /\ events'[w][i] = e
               /\ j \in DOMAIN events[w] /\ events'[w][j] = events[w][j]
            \/ /\ j \notin DOMAIN events[w] /\ events'[w][j] = e
               /\ i \in DOMAIN events[w] /\ events'[w][i] = events[w][i]
        BY <1>1, <2>2, <3>2
      <4> QED
        BY <2>2, <4>1, <4>2
    <3> QED
      BY <3>1, <3>2
  <2> QED
    BY <2>1, <2>2
<1>3. ASSUME NEW v \in Workers, NEW r \in Replicas, Awaits(v, r)'
      PROVE  Awaits(v, r) \/ (v = w /\ r = e.replica)
  <2>1. PICK i \in DOMAIN events'[v] : /\ events'[v][i].action = "deploy"
                                       /\ events'[v][i].replica = r
    BY <1>3 DEF Awaits
  <2>2. \/ i \in DOMAIN events[v] /\ events'[v][i] = events[v][i]
        \/ v = w /\ events'[v][i] = e
    BY <1>1, <2>1
  <2> QED
    BY <2>1, <2>2 DEF Awaits
<1> QED
  BY <1>2, <1>3

-----------------------------------------------------------------------------
\* The manager by itself, and the two together

\* Every step of the system sticks to the choices that were made.
LEMMA NextKeeps ==
    ASSUME TypeOK, PlacementInv, Next
    PROVE  Keeps
<1> USE DEF TypeOK, ManagerTypeOK, Manage, Work, Meet
<1>1. ASSUME NEW r \in Replicas, ScheduleNext(r) PROVE Keeps
  <2>1. CASE Manage(PickWorker(r))
    BY <2>1 DEF PickWorker, Advance, Keeps, PlacementInv, ChoiceInv
  <2>2. CASE ~Manage(PickWorker(r))
    <3>1. UNCHANGED pick
      BY <1>1, <2>2 DEF ScheduleNext, CreateReplica, NoWorkerAvailable, AssignWorker,
         MarkScheduled, Deploy, DeployAccepted, DeployRefused, DeployAnswerLost, DeployFailed
    <3>2. \E from, to \in SchedStates :
            /\ Advance(r, from, to)
            /\ from \in {"assigned", "accepted"} => to \in {"accepted", "done", "failed"}
            /\ from \notin {"done", "failed"}
      BY <1>1, <2>2 DEF ScheduleNext, CreateReplica, NoWorkerAvailable, AssignWorker,
         MarkScheduled, Deploy, DeployAccepted, DeployRefused, DeployAnswerLost, DeployFailed,
         Advance, SchedStates
    <3> QED
      BY <3>1, <3>2 DEF Advance, Keeps
  <2> QED
    BY <2>1, <2>2
<1>2. ASSUME NEW r \in Replicas, StopNext(r) PROVE Keeps
  <2>1. UNCHANGED pick
    BY <1>2 DEF StopNext, StopReplica, BeginRestart, RestartStop, ReplaceReplica, schedVars
  <2>2. UNCHANGED sched \/ \E n \in Replicas :
          sched[n] \in {"none", "stopping", "replacing"} /\ \E s : sched' = [sched EXCEPT ![n] = s]
    BY <1>2 DEF StopNext, StopReplica, BeginRestart, RestartStop, ReplaceReplica, schedVars,
       Advance
  <2> QED
    BY <2>1, <2>2 DEF Keeps
<1>3. ASSUME NEW c \in stopCalls, StopCallNext(c) PROVE Keeps
  <2>1. UNCHANGED pick
    BY <1>3 DEF StopCallNext, StopDelivered, StopRefused, StopCallEnds
  <2>2. UNCHANGED sched \/ Advance(c.by, "posting", "replacing")
    BY <1>3 DEF StopCallNext, StopDelivered, StopRefused, StopCallEnds
  <2> QED
    BY <2>1, <2>2 DEF Keeps, Advance
<1>4. UNCHANGED <<sched, pick>> => Keeps
  BY DEF Keeps
<1>5. CASE \E m \in reports : ReportNext(m)
  BY <1>4, <1>5 DEF ReportNext, ReceiveReport, RejectReport, LoseReport, managerVars, schedVars
<1>6. CASE \E w \in Workers : RegistryNext(w)
  BY <1>4, <1>6 DEF RegistryNext, Boot, Register, Heartbeat, HeartbeatRead, Silence, GoStale,
     HeartbeatSave, DetectorRemove, schedVars
<1>7. CASE \/ \E h \in handlers : Manage(SaveReport(h))
           \/ Manage(DetectorList) \/ \E o \in orphans : Manage(DetectorMark(o))
  BY <1>4, <1>7 DEF SaveReport, DetectorList, DetectorMark, schedVars
<1>8. CASE \E w \in Workers : WorkerNext(w) \/ \E r \in Replicas : ContainerNext(w, r)
  BY <1>4, <1>8 DEF WorkerNext, ContainerNext, managerVars, schedVars
<1> QED
  BY <1>1, <1>2, <1>3, <1>5, <1>6, <1>7, <1>8 DEF Next

\* A step that sends no report and starts nothing at a worker keeps the order,
\* if the queues keep theirs.
LEMMA StillOrder ==
    ASSUME TypeOK, PlacementInv, OrderInv, Keeps, UNCHANGED <<loop, monitor, container>>,
           reports' \subseteq reports,
           \A w \in Workers : proc'[w] = "down" <=> proc[w] = "down",
           QueueInv',
           \A w \in Workers, r \in Replicas :
               Awaits(w, r)' => Awaits(w, r) \/ ~(AtWorker(w, r) \/ Sent(r))
    PROVE  OrderInv'
<1>1. AwaitInv'
  <2> SUFFICES ASSUME NEW w \in Workers, NEW r \in Replicas, Awaits(w, r)'
               PROVE  Untouched(w, r)'
    BY DEF AwaitInv
  <2>1. Untouched(w, r)
    BY DEF OrderInv, AwaitInv, Untouched, AtWorker, PlacementInv, MessageInv
  <2> QED
    BY <2>1 DEF Untouched, InLoop
<1>2. GoneInv'
  BY DEF OrderInv, GoneInv
<1>3. DeployInv'
  <2> SUFFICES ASSUME NEW m \in reports', m.from = "deploy"
               PROVE  /\ proc'[pick'[m.replica]] = "down"
                         \/ (loop'[pick'[m.replica]].pc = "call"
                             /\ loop'[pick'[m.replica]].report = m)
                      /\ monitor'[pick'[m.replica]][m.replica] = "none"
                      /\ \A l \in reports' : l.replica = m.replica => l = m
    BY DEF DeployInv
  <2>1. m.replica \in Replicas /\ Sent(m.replica)
    BY DEF TypeOK, WorkerTypeOK, Report, PlacementInv, MessageInv
  <2>2. pick'[m.replica] = pick[m.replica] /\ pick[m.replica] \in Workers
    BY <2>1 DEF Keeps, Sent, TypeOK, ManagerTypeOK
  <2> QED
    BY <2>2 DEF OrderInv, DeployInv
<1> QED
  BY <1>1, <1>2, <1>3 DEF OrderInv

LEMMA SameQueues ==
    ASSUME UNCHANGED events
    PROVE  /\ QueueInv => QueueInv'
           /\ \A w \in Workers, r \in Replicas : Awaits(w, r)' => Awaits(w, r)
BY DEF QueueInv, Awaits

\* The manager's requests, and everything it does by itself.
LEMMA ManagerOrder ==
    ASSUME TypeOK, PlacementInv, OrderInv, Next,
           ~ \E w \in Workers : WorkerNext(w) \/ \E r \in Replicas : ContainerNext(w, r)
    PROVE  OrderInv'
<1> USE DEF Manage, Meet
<1>k. Keeps
  BY NextKeeps
<1>q. QueueInv
  BY DEF OrderInv
<1>1. ASSUME UNCHANGED workerVars, reports' \subseteq reports PROVE OrderInv'
  BY <1>1, <1>k, <1>q, SameQueues, StillOrder DEF workerVars
<1>2. ASSUME NEW r \in Replicas, Meet(Deploy(r)) PROVE OrderInv'
  <2> DEFINE e == [action |-> "deploy", replica |-> r, container |-> FALSE]
  <2>1. e \in Event /\ e.replica = r
    BY DEF Event
  <2>2. Accept(pick[r], e)
    BY <1>2 DEF Deploy, AcceptDeploy
  <2>3. ~Sent(r) /\ pick[r] # NoWorker
    BY <1>2 DEF Deploy, DeployAccepted, Advance, Sent, PlacementInv, ChoiceInv
  <2>4. pick[r] \in Workers
    BY <2>3 DEF TypeOK, ManagerTypeOK
  <2>5. \A w \in Workers : ~AtWorker(w, r)
    BY <2>3 DEF PlacementInv, TraceInv
  <2>6. ~InQueue(pick[r], r)
    BY <2>4, <2>5 DEF AtWorker
  <2> HIDE DEF e
  <2>7. QueueInv' /\ \A v \in Workers, q \in Replicas :
                       Awaits(v, q)' => Awaits(v, q) \/ (v = pick[r] /\ q = r)
    BY <1>q, <2>1, <2>2, <2>4, <2>6, AcceptDeployOrder
  <2>8. \A v \in Workers, q \in Replicas :
          Awaits(v, q)' => Awaits(v, q) \/ ~(AtWorker(v, q) \/ Sent(q))
    BY <2>3, <2>5, <2>7
  <2>9. UNCHANGED <<proc, loop, monitor, container, reports>>
    BY <2>2 DEF Accept
  <2> QED
    BY <1>k, <2>7, <2>8, <2>9, StillOrder
<1>3. ASSUME NEW c \in stopCalls, Meet(StopDelivered(c)) PROVE OrderInv'
  <2> DEFINE e == [action |-> "stop", replica |-> c.replica, container |-> c.container]
  <2>1. e \in Event /\ e.action = "stop" /\ c.worker \in Workers
    BY DEF Event, StopCall, TypeOK, ManagerTypeOK
  <2>2. Accept(c.worker, e)
    BY <1>3 DEF StopDelivered, AcceptStop
  <2> HIDE DEF e
  <2>3. QueueInv' /\ \A v \in Workers, q \in Replicas : Awaits(v, q)' => Awaits(v, q)
    BY <1>q, <2>1, <2>2, AcceptStopOrder
  <2>4. UNCHANGED <<proc, loop, monitor, container, reports>>
    BY <2>2 DEF Accept
  <2> QED
    BY <1>k, <2>3, <2>4, StillOrder
<1>4. ASSUME NEW w \in Workers, RegistryNext(w) PROVE OrderInv'
  <2>1. UNCHANGED <<events, loop, monitor, container, reports>>
    BY <1>4 DEF RegistryNext, Boot, Register, Join, Heartbeat, HeartbeatRead, Silence, GoStale,
       HeartbeatSave, DetectorRemove, workerVars
  <2>2. \A v \in Workers : proc'[v] = "down" <=> proc[v] = "down"
    BY <1>4 DEF RegistryNext, Boot, Join, workerVars, TypeOK, WorkerTypeOK
  <2> QED
    BY <1>k, <1>q, <2>1, <2>2, SameQueues, StillOrder
<1>5. CASE \E r \in Replicas : ScheduleNext(r)
  BY <1>1, <1>2, <1>5 DEF ScheduleNext, CreateReplica, PickWorker, NoWorkerAvailable,
     AssignWorker, MarkScheduled, DeployRefused, DeployAnswerLost
<1>6. CASE \E r \in Replicas : StopNext(r)
  BY <1>1, <1>6 DEF StopNext, StopReplica, BeginRestart, RestartStop, ReplaceReplica
<1>7. CASE \E c \in stopCalls : StopCallNext(c)
  BY <1>1, <1>3, <1>7 DEF StopCallNext, StopRefused
<1>8. CASE \E m \in reports : ReportNext(m)
  BY <1>1, <1>8 DEF ReportNext, ReceiveReport, RejectReport, LoseReport
<1>9. CASE \/ \E h \in handlers : Manage(SaveReport(h))
           \/ Manage(DetectorList) \/ \E o \in orphans : Manage(DetectorMark(o))
  BY <1>1, <1>9 DEF SaveReport, DetectorList, DetectorMark
<1> QED
  BY <1>4, <1>5, <1>6, <1>7, <1>8, <1>9 DEF Next

-----------------------------------------------------------------------------
\* A worker by itself

\* The deploy report m of w is the only one of its replica, and keeps w's loop.
Waits(w, m) ==
    /\ proc[w] = "down" \/ (loop[w].pc = "call" /\ loop[w].report = m)
    /\ monitor[w][m.replica] = "none"
    /\ \A l \in reports : l.replica = m.replica => l = m

\* It is enough to look at the worker that makes the step.
LEMMA WorkOrder ==
    ASSUME TypeOK, PlacementInv, OrderInv, NEW w \in Workers, UNCHANGED managerVars,
           \A v \in Workers : v # w => /\ proc'[v] = proc[v] /\ loop'[v] = loop[v]
                                       /\ monitor'[v] = monitor[v]
                                       /\ container'[v] = container[v],
           QueueInv', \A v \in Workers, r \in Replicas : Awaits(v, r)' => Awaits(v, r),
           reports' \subseteq Report,
           \A m \in reports' : m \in reports \/ AtWorker(w, m.replica),
           \A r \in Replicas : Awaits(w, r)' /\ Untouched(w, r) => Untouched(w, r)',
           proc'[w] = "down" => loop'[w] = Idle,
           \A m \in reports' : m.from = "deploy" /\ pick[m.replica] = w => Waits(w, m)'
    PROVE  OrderInv'
<1>1. UNCHANGED pick
  BY DEF managerVars, schedVars
<1>2. \A m \in reports' : /\ m.replica \in Replicas
                          /\ m \in reports \/ pick[m.replica] = w
                          /\ pick[m.replica] \in Workers
  BY DEF Report, TypeOK, ManagerTypeOK, PlacementInv, TraceInv, MessageInv, Sent
<1>3. AwaitInv'
  <2> SUFFICES ASSUME NEW v \in Workers, NEW r \in Replicas, Awaits(v, r)'
               PROVE  Untouched(v, r)'
    BY DEF AwaitInv
  <2>1. Awaits(v, r) /\ Untouched(v, r)
    BY DEF OrderInv, AwaitInv
  <2>2. pick[r] = v
    BY <2>1 DEF Awaits, AtWorker, InQueue, PlacementInv, TraceInv
  <2>3. CASE v = w
    BY <2>1, <2>3
  <2>4. CASE v # w
    <3>1. \A m \in reports' : m.replica # r
      BY <1>2, <2>1, <2>2, <2>4 DEF Untouched
    <3> QED
      BY <2>1, <2>4, <3>1 DEF Untouched, InLoop
  <2> QED
    BY <2>3, <2>4
<1>4. GoneInv'
  BY DEF OrderInv, GoneInv
<1>5. ASSUME NEW m \in reports', m.from = "deploy"
      PROVE  Waits(pick[m.replica], m)'
  <2>1. CASE pick[m.replica] = w
    BY <1>1, <1>5, <2>1 DEF Waits
  <2>2. CASE pick[m.replica] # w
    <3>1. m \in reports /\ pick[m.replica] \in Workers
      BY <1>2, <2>2
    <3>2. Waits(pick[m.replica], m)
      BY <1>5, <3>1 DEF OrderInv, DeployInv, Waits
    <3>3. \A l \in reports' : l.replica = m.replica => l \in reports
      BY <1>2, <2>2
    <3> QED
      BY <1>1, <2>2, <3>1, <3>2, <3>3 DEF Waits
  <2> QED
    BY <2>1, <2>2
<1>6. DeployInv'
  BY <1>5 DEF DeployInv, Waits
<1> QED
  BY <1>3, <1>4, <1>6 DEF OrderInv

\* A worker's loop that is free, or busy with something else than the answer to
\* a report, has no deploy report on the wire.
LEMMA FreeLoop ==
    ASSUME OrderInv, NEW w \in Workers, proc[w] # "down" \/ loop[w] # Idle,
           NEW m \in reports, m.from = "deploy", pick[m.replica] = w
    PROVE  proc[w] # "down" /\ loop[w].pc = "call" /\ loop[w].report = m
BY DEF OrderInv, GoneInv, DeployInv

\* The deploy event leaves the queue, and the loop waits for its report's answer.
LEMMA DeployOrder ==
    ASSUME TypeOK, TypeOK', PlacementInv, OrderInv, NEW w \in Workers,
           Work(StartContainer(w)) \/ Work(StartFails(w))
    PROVE  OrderInv'
<1> DEFINE q == Head(events[w]).replica
<1>1. /\ TakeEvent(w, "deploy") /\ UNCHANGED <<proc, stopping, monitor, managerVars>>
      /\ \E m \in reports' \ reports :
            /\ m.replica = q /\ m.from = "deploy" /\ reports' = reports \cup {m}
            /\ \E then : loop' = [loop EXCEPT ![w] =
                             [pc |-> "call", report |-> m, then |-> then]]
      /\ UNCHANGED container \/ \E c : SetContainer(w, q, c)
  BY DEF Work, StartContainer, StartFails, Call, Send
<1>2. /\ QueueInv' /\ \A v \in Workers, r \in Replicas : Awaits(v, r)' => Awaits(v, r)
      /\ \A r \in Replicas : Awaits(w, r)' => r # q
      /\ Awaits(w, q)
  BY <1>1, TakeOrder DEF TakeEvent, OrderInv
<1>3. q \in Replicas
  <2>1. Head(events[w]) \in Event
    BY <1>1 DEF TakeEvent, TypeOK, WorkerTypeOK
  <2> QED
    BY <2>1 DEF Event
<1> HIDE DEF q
<1>4. Untouched(w, q) /\ AtWorker(w, q)
  BY <1>2, <1>3 DEF OrderInv, AwaitInv, Awaits, AtWorker, InQueue
<1>5. PICK m \in reports' : /\ m.replica = q /\ m.from = "deploy"
                            /\ reports' = reports \cup {m}
                            /\ loop'[w].pc = "call" /\ loop'[w].report = m
                            /\ \A v \in Workers : v # w => loop'[v] = loop[v]
  BY <1>1 DEF TypeOK, WorkerTypeOK
<1>6. \A v \in Workers, r \in Replicas : v # w \/ r # q => container'[v][r] = container[v][r]
  BY <1>1 DEF SetContainer, TypeOK, WorkerTypeOK
<1>7. \A v \in Workers : v # w => container'[v] = container[v]
  BY <1>1 DEF SetContainer, TypeOK, WorkerTypeOK
<1>8. ASSUME NEW r \in Replicas, Awaits(w, r)', Untouched(w, r) PROVE Untouched(w, r)'
  <2>1. r # q
    BY <1>2, <1>8
  <2> QED
    BY <1>1, <1>5, <1>6, <1>8, <2>1 DEF Untouched, InLoop
<1>9. ASSUME NEW l \in reports', l.from = "deploy", pick[l.replica] = w
      PROVE  Waits(w, l)'
  <2>1. proc[w] = "up" /\ loop[w].pc = "idle"
    BY <1>1 DEF TakeEvent, Idle
  <2>2. l = m
    BY <1>5, <1>9, <2>1, FreeLoop
  <2> QED
    BY <1>1, <1>4, <1>5, <2>2 DEF Waits, Untouched
<1>10. proc'[w] # "down"
  BY <1>1 DEF TakeEvent
<1>r. reports' \subseteq Report
  BY DEF TypeOK, WorkerTypeOK
<1> QED
  BY <1>1, <1>2, <1>4, <1>5, <1>7, <1>8, <1>9, <1>10, <1>r, WorkOrder

\* A stop event is taken by a loop that waits for nothing.
LEMMA BeginStopOrder ==
    ASSUME TypeOK, PlacementInv, OrderInv, NEW w \in Workers, Work(BeginStop(w))
    PROVE  OrderInv'
<1> DEFINE q == Head(events[w]).replica
<1>1. /\ TakeEvent(w, "stop") /\ UNCHANGED <<proc, monitor, container, reports, managerVars>>
      /\ \E known : loop' = [loop EXCEPT ![w] =
                         [pc |-> "stop", replica |-> q, container |-> known]]
  BY DEF Work, BeginStop
<1>2. /\ QueueInv' /\ \A v \in Workers, r \in Replicas : Awaits(v, r)' => Awaits(v, r)
      /\ \A r \in Replicas : Awaits(w, r)' => r # q
  BY <1>1, TakeOrder DEF TakeEvent, OrderInv
<1> HIDE DEF q
<1>3. /\ loop'[w].pc = "stop" /\ loop'[w].replica = q
      /\ \A v \in Workers : v # w => loop'[v] = loop[v]
  BY <1>1 DEF TypeOK, WorkerTypeOK
<1>4. ASSUME NEW r \in Replicas, Awaits(w, r)', Untouched(w, r) PROVE Untouched(w, r)'
  BY <1>1, <1>2, <1>3, <1>4 DEF Untouched, InLoop
<1>5. ASSUME NEW l \in reports', l.from = "deploy", pick[l.replica] = w PROVE FALSE
  <2>1. proc[w] = "up" /\ loop[w].pc = "idle"
    BY <1>1 DEF TakeEvent, Idle
  <2> QED
    BY <1>1, <1>5, <2>1, FreeLoop
<1>6. proc'[w] # "down"
  BY <1>1 DEF TakeEvent
<1>r. reports' \subseteq Report
  BY <1>1 DEF TypeOK, WorkerTypeOK
<1> QED
  BY <1>1, <1>2, <1>3, <1>4, <1>5, <1>6, <1>r, WorkOrder

\* The end of a stop is reported by a loop that waits for nothing yet.
LEMMA StopReportOrder ==
    ASSUME TypeOK, TypeOK', PlacementInv, OrderInv, NEW w \in Workers,
           \/ Work(StopUnknown(w)) \/ Work(StopContainer(w)) \/ Work(StopGone(w))
           \/ Work(StopFails(w))
    PROVE  OrderInv'
<1> DEFINE q == loop[w].replica
<1>1. /\ loop[w].pc = "stop" /\ UNCHANGED <<proc, events, monitor, managerVars>>
      /\ \E m \in reports' \ reports :
            /\ m.replica = q /\ m.from = "stop" /\ reports' = reports \cup {m}
            /\ \E then : loop' = [loop EXCEPT ![w] =
                             [pc |-> "call", report |-> m, then |-> then]]
      /\ UNCHANGED container \/ \E c : SetContainer(w, q, c)
  BY DEF Work, StopUnknown, StopContainer, StopGone, StopFails, ReportStop, Call, Send
<1>2. QueueInv' /\ \A v \in Workers, r \in Replicas : Awaits(v, r)' => Awaits(v, r)
  BY <1>1, SameQueues DEF OrderInv
<1>3. q \in Replicas /\ InLoop(w, q)
  BY <1>1, StopTypes DEF InLoop
<1> HIDE DEF q
<1>4. PICK m \in reports' : /\ m.replica = q /\ m.from = "stop"
                            /\ reports' = reports \cup {m}
                            /\ loop'[w].pc = "call" /\ loop'[w].report = m
                            /\ \A v \in Workers : v # w => loop'[v] = loop[v]
  BY <1>1 DEF TypeOK, WorkerTypeOK
<1>5. \A v \in Workers, r \in Replicas : v # w \/ r # q => container'[v][r] = container[v][r]
  BY <1>1 DEF SetContainer, TypeOK, WorkerTypeOK
<1>6. \A v \in Workers : v # w => container'[v] = container[v]
  BY <1>1 DEF SetContainer, TypeOK, WorkerTypeOK
<1>7. ASSUME NEW r \in Replicas, Awaits(w, r)', Untouched(w, r) PROVE Untouched(w, r)'
  <2>1. r # q
    BY <1>3, <1>7 DEF Untouched
  <2> QED
    BY <1>1, <1>4, <1>5, <1>7, <2>1 DEF Untouched, InLoop
<1>8. proc[w] # "down" /\ loop[w].pc # "call"
  BY <1>1 DEF OrderInv, GoneInv, Idle
<1>9. ASSUME NEW l \in reports', l.from = "deploy", pick[l.replica] = w PROVE FALSE
  <2>1. l \in reports
    BY <1>4, <1>9
  <2> QED
    BY <1>8, <1>9, <2>1, FreeLoop
<1>10. AtWorker(w, q)
  BY <1>3 DEF AtWorker
<1>r. reports' \subseteq Report
  BY DEF TypeOK, WorkerTypeOK
<1> QED
  BY <1>1, <1>2, <1>4, <1>6, <1>7, <1>8, <1>9, <1>10, <1>r, WorkOrder

\* A call that returns was answered: no call times out.
LEMMA ReturnOrder ==
    ASSUME TypeOK, PlacementInv, OrderInv, "timeout" \notin Faults, NEW w \in Workers,
           Work(Return(w))
    PROVE  OrderInv'
<1> DEFINE q == loop[w].report.replica
<1>1. /\ loop[w].pc = "call" /\ loop[w].report \notin reports
      /\ UNCHANGED <<proc, events, container, reports, managerVars>>
      /\ \A v \in Workers, r \in Replicas : v # w \/ r # q => monitor'[v][r] = monitor[v][r]
      /\ \A v \in Workers : v # w => loop'[v] = loop[v] /\ monitor'[v] = monitor[v]
      /\ loop'[w] = Idle
  BY DEF Work, Return, Returns, Answered, TypeOK, WorkerTypeOK
<1>2. QueueInv' /\ \A v \in Workers, r \in Replicas : Awaits(v, r)' => Awaits(v, r)
  BY <1>1, SameQueues DEF OrderInv
<1>3. ASSUME NEW r \in Replicas, Awaits(w, r)', Untouched(w, r) PROVE Untouched(w, r)'
  <2>1. r # q
    BY <1>1, <1>3 DEF Untouched, InLoop
  <2> QED
    BY <1>1, <1>3, <2>1 DEF Untouched, InLoop, Idle
<1>4. ASSUME NEW l \in reports', l.from = "deploy", pick[l.replica] = w PROVE FALSE
  <2>1. loop[w] # Idle
    BY <1>1 DEF Idle
  <2> QED
    BY <1>1, <1>4, <2>1, FreeLoop
<1>r. reports' \subseteq Report
  BY <1>1 DEF TypeOK, WorkerTypeOK
<1> QED
  BY <1>1, <1>2, <1>3, <1>4, <1>r, WorkOrder

\* A process that starts, is told to stop, exits or dies.
LEMMA ProcessOrder ==
    ASSUME TypeOK, PlacementInv, OrderInv, NEW w \in Workers,
           Work(Listen(w)) \/ Work(Cancel(w)) \/ Work(Exit(w)) \/ Work(Crash(w))
    PROVE  OrderInv'
<1>1. CASE Work(Listen(w)) \/ Work(Cancel(w))
  <2>1. /\ UNCHANGED <<events, loop, monitor, container, reports, managerVars>>
        /\ \A v \in Workers : proc'[v] = "down" <=> proc[v] = "down"
    BY <1>1 DEF Work, Listen, Cancel, TypeOK, WorkerTypeOK
  <2>2. Keeps
    BY <2>1 DEF managerVars, schedVars, Keeps
  <2> QED
    BY <2>1, <2>2, SameQueues, StillOrder DEF OrderInv
<1>2. CASE Work(Exit(w)) \/ Work(Crash(w))
  <2>1. Gone(w) /\ UNCHANGED managerVars
    BY <1>2 DEF Work, Exit, Crash
  <2>2. /\ \A v \in Workers : v # w => /\ proc'[v] = proc[v] /\ loop'[v] = loop[v]
                                       /\ monitor'[v] = monitor[v] /\ events'[v] = events[v]
        /\ proc'[w] = "down" /\ loop'[w] = Idle /\ events'[w] = <<>>
        /\ \A r \in Replicas : monitor[w][r] = "none" => monitor'[w][r] = "none"
        /\ UNCHANGED <<container, reports>>
    BY <2>1 DEF Gone, TypeOK, WorkerTypeOK
  <2>3. \A r \in Replicas : ~Awaits(w, r)'
    BY <2>2 DEF Awaits
  <2>4. QueueInv' /\ \A v \in Workers, r \in Replicas : Awaits(v, r)' => Awaits(v, r)
    BY <2>2, <2>3 DEF OrderInv, QueueInv, Awaits
  <2>5. ASSUME NEW l \in reports', l.from = "deploy", pick[l.replica] = w
        PROVE  Waits(w, l)'
    <3>1. l \in reports /\ l.replica \in Replicas
      BY <2>2 DEF TypeOK, WorkerTypeOK, Report
    <3>2. Waits(w, l)
      BY <2>5, <3>1 DEF OrderInv, DeployInv, Waits
    <3> QED
      BY <2>2, <3>1, <3>2 DEF Waits
  <2> QED
    BY <2>1, <2>2, <2>3, <2>4, <2>5, WorkOrder DEF TypeOK, WorkerTypeOK
<1> QED
  BY <1>1, <1>2

\* A container's goroutine sets to work only after the deploy report was answered.
LEMMA ContainerOrder ==
    ASSUME TypeOK, TypeOK', PlacementInv, OrderInv, NEW w \in Workers, NEW q \in Replicas,
           ContainerNext(w, q)
    PROVE  OrderInv'
<1> DEFINE Here == /\ \A v \in Workers, r \in Replicas : v # w \/ r # q =>
                         monitor'[v][r] = monitor[v][r] /\ container'[v][r] = container[v][r]
                   /\ \A v \in Workers : v # w =>
                         monitor'[v] = monitor[v] /\ container'[v] = container[v]
           Told == /\ monitor[w][q] # "none"
                   /\ \A m \in reports' : m \in reports \/ (m.replica = q /\ m.from = "exit")
<1>1. /\ UNCHANGED <<proc, events, loop, managerVars>>
      /\ container[w][q] # "none" \/ monitor[w][q] # "none"
      /\ Here
      /\ UNCHANGED <<reports, monitor>> \/ Told
  <2>1. CASE Work(ContainerExit(w, q))
    <3>1. /\ UNCHANGED <<proc, events, loop, monitor, reports, managerVars>>
          /\ container[w][q] = "running"
      BY <2>1 DEF Work, ContainerExit
    <3>2. Here
      BY <2>1 DEF Work, ContainerExit, SetContainer, TypeOK, WorkerTypeOK
    <3> QED
      BY <3>1, <3>2
  <2>2. CASE Work(MonitorExit(w, q)) \/ Work(MonitorError(w, q))
    <3>1. PICK s : MonitorReport(w, q, s)
      BY <2>2 DEF Work, MonitorExit, MonitorError
    <3>2. UNCHANGED <<proc, events, loop, container, managerVars>>
      BY <2>2 DEF Work, MonitorExit, MonitorError
    <3>3. Told
      BY <3>1 DEF MonitorReport, Send
    <3>4. Here
      BY <3>1, <3>2 DEF MonitorReport, TypeOK, WorkerTypeOK
    <3> QED
      BY <3>2, <3>3, <3>4
  <2>3. CASE Work(MonitorReturn(w, q)) \/ Work(MonitorCancel(w, q))
    <3>1. /\ UNCHANGED <<proc, events, loop, container, reports, managerVars>>
          /\ monitor[w][q] # "none"
      BY <2>3 DEF Work, MonitorReturn, MonitorCancel
    <3>2. Here
      BY <2>3, <3>1 DEF Work, MonitorReturn, MonitorCancel, TypeOK, WorkerTypeOK
    <3> QED
      BY <3>1, <3>2
  <2> QED
    BY <2>1, <2>2, <2>3 DEF ContainerNext
<1>3. QueueInv' /\ \A v \in Workers, r \in Replicas : Awaits(v, r)' => Awaits(v, r)
  BY <1>1, SameQueues DEF OrderInv
<1>4. ASSUME NEW r \in Replicas, Awaits(w, r)', Untouched(w, r) PROVE Untouched(w, r)'
  <2>1. r # q
    BY <1>1, <1>4 DEF Untouched
  <2> QED
    BY <1>1, <1>4, <2>1 DEF Untouched, InLoop
<1>5. ASSUME NEW l \in reports', l.from = "deploy", pick[l.replica] = w
      PROVE  Waits(w, l)'
  <2>1. l \in reports /\ l.replica \in Replicas
    BY <1>1, <1>5 DEF TypeOK, WorkerTypeOK, Report
  <2>2. Waits(w, l)
    BY <1>5, <2>1 DEF OrderInv, DeployInv, Waits
  <2>3. CASE UNCHANGED <<reports, monitor>>
    BY <1>1, <2>2, <2>3 DEF Waits
  <2>4. CASE Told
    <3>1. l.replica # q
      BY <2>2, <2>4 DEF Waits
    <3> QED
      BY <1>1, <2>1, <2>2, <2>4, <3>1 DEF Waits
  <2> QED
    BY <1>1, <2>3, <2>4
<1>6. \A m \in reports' : m \in reports \/ AtWorker(w, m.replica)
  BY ContainerTraces
<1>7. proc'[w] = "down" => loop'[w] = Idle
  BY <1>1 DEF OrderInv, GoneInv
<1>r. reports' \subseteq Report
  BY DEF TypeOK, WorkerTypeOK
<1> QED
  BY <1>1, <1>3, <1>4, <1>5, <1>6, <1>7, <1>r, WorkOrder

-----------------------------------------------------------------------------
\* The order of reports

LEMMA InitOrder == Init => OrderInv
BY DEF Init, WorkerInit, ReportsInit, OrderInv, QueueInv, AwaitInv, Awaits, GoneInv, DeployInv

LEMMA NextOrder ==
    ASSUME TypeOK, TypeOK', PlacementInv, OrderInv, "timeout" \notin Faults, Next
    PROVE  OrderInv'
<1>1. ASSUME NEW w \in Workers, WorkerNext(w) PROVE OrderInv'
  BY <1>1, DeployOrder, BeginStopOrder, StopReportOrder, ReturnOrder, ProcessOrder
  DEF WorkerNext
<1> QED
  BY <1>1, ContainerOrder, ManagerOrder

LEMMA StutterOrder ==
    ASSUME TypeOK, PlacementInv, OrderInv, UNCHANGED vars
    PROVE  OrderInv'
<1>1. UNCHANGED <<sched, pick, proc, events, loop, monitor, container, reports>>
  BY DEF vars, managerVars, schedVars, workerVars
<1>2. Keeps
  BY <1>1 DEF Keeps
<1> QED
  BY <1>1, <1>2, SameQueues, StillOrder DEF OrderInv

\* A worker's loop reports the start of a container before anything else that
\* concerns it is done, when calls do not time out: whatever else fails.
THEOREM Ordered == ("timeout" \notin Faults) => (Spec => []OrderInv)
<1> SUFFICES ASSUME "timeout" \notin Faults PROVE Spec => []OrderInv
  OBVIOUS
<1>1. Init => OrderInv
  BY InitOrder
<1>2. TypeOK /\ TypeOK' /\ PlacementInv /\ OrderInv /\ [Next]_vars => OrderInv'
  BY NextOrder, StutterOrder
<1> QED
  BY <1>1, <1>2, TypeCorrect, Placed, PTL DEF Spec

\* The manager hears of a container's start before it hears of its end.
THEOREM DeployReportsComeFirst == ("timeout" \notin Faults) => (Spec => []DeployReportFirst)
<1> SUFFICES ASSUME "timeout" \notin Faults PROVE Spec => []DeployReportFirst
  OBVIOUS
<1>1. OrderInv => DeployReportFirst
  BY DEF OrderInv, DeployInv, DeployReportFirst
<1> QED
  BY <1>1, Ordered, PTL

-----------------------------------------------------------------------------
\* Silence

\* A worker on its way out never comes back.
LEMMA LeavingStays ==
    ASSUME TypeOK, Next, NEW w \in Workers, Leaving(w)
    PROVE  Leaving(w)'
<1> USE DEF Leaving, TypeOK, WorkerTypeOK
<1>1. ASSUME UNCHANGED proc PROVE Leaving(w)'
  BY <1>1
<1>2. ASSUME NEW v \in Workers, WorkerNext(v) PROVE Leaving(w)'
  BY <1>2 DEF WorkerNext, Work, Listen, Cancel, Exit, Crash, Gone, StartContainer, StartFails,
     BeginStop, StopUnknown, StopContainer, StopGone, StopFails, Return
<1>3. ASSUME NEW v \in Workers, RegistryNext(v) PROVE Leaving(w)'
  BY <1>3 DEF RegistryNext, Meet, Manage, Boot, Join, workerVars
<1>4. ASSUME NEW v \in Workers, NEW r \in Replicas, ContainerNext(v, r) PROVE UNCHANGED proc
  BY <1>4 DEF ContainerNext, Work, ContainerExit, MonitorExit, MonitorError, MonitorReturn,
     MonitorCancel
<1>5. ASSUME NEW r \in Replicas, ScheduleNext(r) \/ StopNext(r) PROVE UNCHANGED proc
  BY <1>5 DEF ScheduleNext, StopNext, Manage, Meet, workerVars, Deploy, AcceptDeploy, Accept,
     DeployRefused, DeployAnswerLost
<1>6. ASSUME NEW c \in stopCalls, StopCallNext(c) PROVE UNCHANGED proc
  BY <1>6 DEF StopCallNext, Meet, workerVars, StopDelivered, AcceptStop, Accept, StopRefused
<1>7. CASE \/ \E m \in reports : ReportNext(m)
           \/ \E h \in handlers : Manage(SaveReport(h))
           \/ Manage(DetectorList) \/ \E o \in orphans : Manage(DetectorMark(o))
  BY <1>1, <1>7 DEF ReportNext, Manage, workerVars
<1> QED
  BY <1>1, <1>2, <1>3, <1>4, <1>5, <1>6, <1>7 DEF Next

\* Heartbeats stay away from processes on their way out only, and the detector
\* removes what is stale and lists what it has removed.
LEMMA NextSilence ==
    ASSUME TypeOK, PlacementInv, SilenceInv, "stale" \notin Faults, Next
    PROVE  SilenceInv'
<1> DEFINE Follows == /\ \A w \in stale' : w \in stale \/ Leaving(w)
                      /\ dead' \in {dead, NoWorker} \cup stale
                      /\ \A o \in orphans' : o \in orphans \/ (/\ dead # NoWorker
                                                              /\ o.snap.worker = dead)
<1>1. Follows
  <2> USE DEF Manage, Work, Meet, registryVars, detectorVars
  <2>1. UNCHANGED <<registryVars, detectorVars>> => Follows
    OBVIOUS
  <2>2. CASE \E r \in Replicas : ScheduleNext(r)
    BY <2>1, <2>2 DEF ScheduleNext, CreateReplica, PickWorker, NoWorkerAvailable, AssignWorker,
       MarkScheduled, Deploy, DeployAccepted, DeployRefused, DeployAnswerLost, DeployFailed
  <2>3. CASE \E r \in Replicas : StopNext(r)
    BY <2>1, <2>3 DEF StopNext, StopReplica, BeginRestart, RestartStop, ReplaceReplica
  <2>4. CASE \E c \in stopCalls : StopCallNext(c)
    BY <2>1, <2>4 DEF StopCallNext, StopDelivered, StopRefused, StopCallEnds
  <2>5. CASE \E m \in reports : ReportNext(m)
    BY <2>1, <2>5 DEF ReportNext, ReceiveReport, RejectReport, LoseReport, managerVars
  <2>6. CASE \E h \in handlers : Manage(SaveReport(h))
    BY <2>1, <2>6 DEF SaveReport
  <2>7. CASE \E w \in Workers : RegistryNext(w)
    <3>1. ASSUME NEW w \in Workers, Manage(Silence(w)) PROVE Follows
      BY <3>1 DEF Silence, GoStale, Leaving
    <3>2. ASSUME NEW w \in Workers, RegistryNext(w), ~Manage(Silence(w)) PROVE Follows
      BY <3>2 DEF RegistryNext, Boot, Register, Heartbeat, HeartbeatRead, HeartbeatSave,
         DetectorRemove
    <3> QED
      BY <2>7, <3>1, <3>2
  <2>8. CASE Manage(DetectorList)
    BY <2>8 DEF DetectorList
  <2>9. CASE \E o \in orphans : Manage(DetectorMark(o))
    BY <2>9 DEF DetectorMark
  <2>10. CASE \E w \in Workers : WorkerNext(w) \/ \E r \in Replicas : ContainerNext(w, r)
    BY <2>1, <2>10 DEF WorkerNext, ContainerNext, managerVars
  <2> QED
    BY <2>2, <2>3, <2>4, <2>5, <2>6, <2>7, <2>8, <2>9, <2>10 DEF Next
<1>2. /\ stale \subseteq Workers /\ stale' \subseteq Workers
      /\ dead \in Workers \cup {NoWorker}
      /\ \A o \in orphans : o.snap.worker \in Workers
  <2>1. \A o \in orphans : /\ o.snap.worker = pick[o.replica] /\ pick[o.replica] # NoWorker
                           /\ o.replica \in Replicas
    BY DEF PlacementInv, CopyInv, Copy, TypeOK, ManagerTypeOK, Orphan
  <2>2. stale' \subseteq Workers
    <3>1. TypeOK'
      BY ScheduleType, StopType, StopCallType, ReportType, SaveType, RegistryType,
         ListType, MarkType, WorkerType, ContainerType DEF Next
    <3> QED
      BY <3>1 DEF TypeOK, ManagerTypeOK
  <2> QED
    BY <2>1, <2>2 DEF TypeOK, ManagerTypeOK
<1>3. ASSUME NEW w \in Workers, Leaving(w) PROVE Leaving(w)'
  BY <1>3, LeavingStays
<1>4. \A w \in stale' : Leaving(w)'
  BY <1>1, <1>2, <1>3 DEF SilenceInv
<1>5. dead' # NoWorker => \A w \in Workers : w = dead' => Leaving(w)'
  BY <1>1, <1>2, <1>3 DEF SilenceInv
<1>6. \A o \in orphans' : \A w \in Workers : w = o.snap.worker => Leaving(w)'
  BY <1>1, <1>2, <1>3 DEF SilenceInv
<1>7. dead' # NoWorker => dead' \in Workers
  BY <1>1, <1>2
<1>8. \A o \in orphans' : o.snap.worker \in Workers
  BY <1>1, <1>2
<1> QED
  BY <1>4, <1>5, <1>6, <1>7, <1>8 DEF SilenceInv, Leaving

-----------------------------------------------------------------------------
\* Handling

\* A worker sends reports of running replicas from its deploy handler only.
LEMMA WorkerReports ==
    ASSUME NEW w \in Workers, WorkerNext(w) \/ \E r \in Replicas : ContainerNext(w, r)
    PROVE  /\ reports \subseteq reports'
           /\ \A m \in reports' : m \in reports \/ m.state # "running" \/ m.from = "deploy"
<1> USE DEF Work
<1>1. ASSUME NEW m, Send(m), m.state # "running" \/ m.from = "deploy"
      PROVE  /\ reports \subseteq reports'
             /\ \A l \in reports' : l \in reports \/ l.state # "running" \/ l.from = "deploy"
  BY <1>1 DEF Send
<1>2. CASE WorkerNext(w)
  <2>1. CASE Work(StartContainer(w)) \/ Work(StartFails(w))
    BY <1>1, <2>1 DEF StartContainer, StartFails, Call
  <2>2. CASE \/ Work(StopUnknown(w)) \/ Work(StopContainer(w)) \/ Work(StopGone(w))
             \/ Work(StopFails(w))
    BY <1>1, <2>2 DEF StopUnknown, StopContainer, StopGone, StopFails, ReportStop, Call
  <2>3. CASE UNCHANGED reports
    BY <2>3
  <2> QED
    BY <1>2, <2>1, <2>2, <2>3 DEF WorkerNext, Listen, Cancel, Exit, Crash, Gone, BeginStop,
       Return
<1>3. CASE \E r \in Replicas : ContainerNext(w, r)
  <2>1. PICK r \in Replicas : ContainerNext(w, r)
    BY <1>3
  <2>2. CASE Work(MonitorExit(w, r)) \/ Work(MonitorError(w, r))
    <3>1. PICK s \in {"completed", "failed"} : MonitorReport(w, r, s)
      BY <2>2 DEF MonitorExit, MonitorError, ExitState
    <3>2. Send([replica |-> r, from |-> "exit", state |-> s, container |-> TRUE])
      BY <3>1 DEF MonitorReport
    <3> QED
      BY <1>1, <3>2
  <2>3. CASE UNCHANGED reports
    BY <2>3
  <2> QED
    BY <2>1, <2>2, <2>3 DEF ContainerNext, ContainerExit, MonitorReturn, MonitorCancel
<1> QED
  BY <1>2, <1>3

\* The manager answers a report when its handler is done, or for want of a record.
LEMMA NextHandling ==
    ASSUME TypeOK, HandlingInv, Next
    PROVE  HandlingInv'
<1> USE DEF Manage, Meet
<1>1. ASSUME UNCHANGED handlers, reports \subseteq reports',
             \A m \in reports' : m \in reports \/ m.state # "running" \/ m.from = "deploy"
      PROVE  HandlingInv'
  BY <1>1 DEF HandlingInv
<1>2. CASE \E w \in Workers : WorkerNext(w) \/ \E r \in Replicas : ContainerNext(w, r)
  <2>1. UNCHANGED handlers
    BY <1>2 DEF WorkerNext, ContainerNext, Work, managerVars
  <2> QED
    BY <1>1, <1>2, <2>1, WorkerReports
<1>3. CASE \E m \in reports : ReportNext(m)
  BY <1>3 DEF ReportNext, ReceiveReport, RejectReport, LoseReport, managerVars, HandlingInv
<1>4. CASE \E h \in handlers : Manage(SaveReport(h))
  BY <1>4 DEF SaveReport, HandlingInv
<1>5. UNCHANGED <<handlers, reports>> => HandlingInv'
  BY <1>1
<1>6. CASE \E r \in Replicas : ScheduleNext(r)
  BY <1>5, <1>6 DEF ScheduleNext, CreateReplica, PickWorker, NoWorkerAvailable, AssignWorker,
     MarkScheduled, Deploy, DeployAccepted, AcceptDeploy, Accept, DeployRefused,
     DeployAnswerLost, DeployFailed
<1>7. CASE \E r \in Replicas : StopNext(r)
  BY <1>5, <1>7 DEF StopNext, StopReplica, BeginRestart, RestartStop, ReplaceReplica
<1>8. CASE \E c \in stopCalls : StopCallNext(c)
  BY <1>5, <1>8 DEF StopCallNext, StopDelivered, StopRefused, StopCallEnds, AcceptStop, Accept
<1>9. CASE \E w \in Workers : RegistryNext(w)
  BY <1>5, <1>9 DEF RegistryNext, Boot, Register, Heartbeat, HeartbeatRead, Silence, GoStale,
     HeartbeatSave, DetectorRemove
<1>10. CASE Manage(DetectorList) \/ \E o \in orphans : Manage(DetectorMark(o))
  BY <1>5, <1>10 DEF DetectorList, DetectorMark
<1> QED
  BY <1>2, <1>3, <1>4, <1>6, <1>7, <1>8, <1>9, <1>10 DEF Next

-----------------------------------------------------------------------------
\* What has started

\* What a worker does by itself awaits nothing new, and reports the start only of
\* what it awaited.
LEMMA WorkerAwaits ==
    ASSUME TypeOK, QueueInv, NEW w \in Workers, WorkerNext(w)
    PROVE  /\ \A v \in Workers, r \in Replicas : Awaits(v, r)' => Awaits(v, r)
           /\ \A m \in reports' :
                 m \in reports \/ m.from # "deploy" \/ Awaits(w, m.replica)
<1> USE DEF Work
<1>1. CASE Work(StartContainer(w)) \/ Work(StartFails(w))
  <2>1. TakeEvent(w, "deploy")
    BY <1>1 DEF StartContainer, StartFails
  <2>2. /\ \A v \in Workers, r \in Replicas : Awaits(v, r)' => Awaits(v, r)
        /\ Awaits(w, Head(events[w]).replica)
    BY <2>1, TakeOrder DEF TakeEvent
  <2>3. \A m \in reports' : m \in reports \/ m.replica = Head(events[w]).replica
    BY <1>1 DEF StartContainer, StartFails, Call, Send
  <2> QED
    BY <2>2, <2>3
<1>2. CASE Work(BeginStop(w))
  <2>1. TakeEvent(w, "stop")
    BY <1>2 DEF BeginStop
  <2>2. \A v \in Workers, r \in Replicas : Awaits(v, r)' => Awaits(v, r)
    BY <2>1, TakeOrder DEF TakeEvent
  <2> QED
    BY <1>2, <2>2 DEF BeginStop
<1>3. CASE Work(Exit(w)) \/ Work(Crash(w))
  <2>1. /\ \A v \in Workers : v # w => events'[v] = events[v]
        /\ events'[w] = <<>> /\ UNCHANGED reports
    BY <1>3 DEF Exit, Crash, Gone, TypeOK, WorkerTypeOK
  <2> QED
    BY <2>1 DEF Awaits
<1>4. CASE \/ Work(StopUnknown(w)) \/ Work(StopContainer(w)) \/ Work(StopGone(w))
           \/ Work(StopFails(w))
  <2>1. UNCHANGED events
    BY <1>4 DEF StopUnknown, StopContainer, StopGone, StopFails
  <2>2. \A m \in reports' : m \in reports \/ m.from = "stop"
    BY <1>4 DEF StopUnknown, StopContainer, StopGone, StopFails, ReportStop, Call, Send
  <2> QED
    BY <2>1, <2>2, SameQueues
<1>5. CASE Work(Listen(w)) \/ Work(Cancel(w)) \/ Work(Return(w))
  <2>1. UNCHANGED <<events, reports>>
    BY <1>5 DEF Listen, Cancel, Return
  <2> QED
    BY <2>1, SameQueues
<1> QED
  BY <1>1, <1>2, <1>3, <1>4, <1>5 DEF WorkerNext

\* That the start of a replica is over stays so.
LEMMA StartedStays ==
    ASSUME TypeOK, PlacementInv, OrderInv, Next, NEW r \in Replicas, Started(r)
    PROVE  Started(r)'
<1> USE DEF Manage, Meet
<1>k. Keeps /\ pick'[r] = pick[r] /\ pick[r] \in Workers /\ Sent(r)'
  BY NextKeeps DEF Keeps, Started, Sent, TypeOK, ManagerTypeOK
<1>q. QueueInv
  BY DEF OrderInv
<1>0. ASSUME Awaits(pick[r], r)' => Awaits(pick[r], r),
             \A m \in reports' : m \in reports \/ m.from # "deploy" \/ m.replica # r
      PROVE  Started(r)'
  BY <1>k, <1>0 DEF Started
<1>1. ASSUME UNCHANGED events, reports' \subseteq reports PROVE Started(r)'
  <2>1. Awaits(pick[r], r)' => Awaits(pick[r], r)
    BY <1>k, <1>1 DEF Awaits
  <2> QED
    BY <1>0, <1>1, <2>1
<1>2. ASSUME NEW w \in Workers, WorkerNext(w) PROVE Started(r)'
  <2>1. /\ \A v \in Workers, q \in Replicas : Awaits(v, q)' => Awaits(v, q)
        /\ \A m \in reports' : m \in reports \/ m.from # "deploy" \/ Awaits(w, m.replica)
    BY <1>2, <1>q, WorkerAwaits
  <2>2. ~Awaits(w, r)
    <3>1. CASE w = pick[r]
      BY <3>1 DEF Started
    <3>2. CASE w # pick[r]
      BY <3>2 DEF Awaits, AtWorker, InQueue, PlacementInv, TraceInv
    <3> QED
      BY <3>1, <3>2
  <2>3. ~Awaits(pick[r], r)'
    <3>1. \A v \in Workers : v = pick[r] => ~Awaits(v, r)'
      BY <2>1 DEF Started
    <3> QED
      BY <1>k, <3>1 DEF Awaits
  <2> QED
    BY <1>0, <2>1, <2>2, <2>3
<1>3. ASSUME NEW w \in Workers, NEW q \in Replicas, ContainerNext(w, q) PROVE Started(r)'
  <2>1. UNCHANGED events
    BY <1>3 DEF ContainerNext, Work, ContainerExit, MonitorExit, MonitorError, MonitorReturn,
       MonitorCancel
  <2>2. \A m \in reports' : m \in reports \/ m.from = "exit"
    <3>1. CASE Work(MonitorExit(w, q)) \/ Work(MonitorError(w, q))
      <4>1. PICK s : MonitorReport(w, q, s)
        BY <3>1 DEF Work, MonitorExit, MonitorError
      <4> QED
        BY <4>1 DEF MonitorReport, Send
    <3>2. CASE ~(Work(MonitorExit(w, q)) \/ Work(MonitorError(w, q)))
      BY <1>3, <3>2 DEF ContainerNext, Work, ContainerExit, MonitorReturn, MonitorCancel
    <3> QED
      BY <3>1, <3>2
  <2>3. Awaits(pick[r], r)' => Awaits(pick[r], r)
    BY <1>k, <2>1 DEF Awaits
  <2> QED
    BY <1>0, <2>2, <2>3
<1>4. ASSUME NEW w \in Workers, NEW e \in Event, Accept(w, e),
             e.replica # r \/ e.action = "stop"
      PROVE  Started(r)'
  <2>1. \A i \in DOMAIN events'[pick[r]] :
           \/ i \in DOMAIN events[pick[r]] /\ events'[pick[r]][i] = events[pick[r]][i]
           \/ events'[pick[r]][i] = e
    BY <1>k, <1>4, AcceptedQueue
  <2>2. Awaits(pick[r], r)' => Awaits(pick[r], r)
    BY <1>k, <1>4, <2>1 DEF Awaits
  <2> QED
    BY <1>0, <1>4, <2>2 DEF Accept
<1>5. ASSUME NEW q \in Replicas, Meet(Deploy(q)) PROVE Started(r)'
  <2>1. sched[q] = "assigned"
    BY <1>5 DEF Deploy, DeployAccepted, Advance
  <2>2. q # r /\ pick[q] \in Workers
    BY <2>1 DEF Started, Sent, PlacementInv, ChoiceInv, TypeOK, ManagerTypeOK
  <2>3. [action |-> "deploy", replica |-> q, container |-> FALSE] \in Event
    BY DEF Event
  <2> QED
    BY <1>4, <1>5, <2>2, <2>3 DEF Deploy, AcceptDeploy
<1>6. ASSUME NEW c \in stopCalls, Meet(StopDelivered(c)) PROVE Started(r)'
  <2>1. /\ [action |-> "stop", replica |-> c.replica, container |-> c.container] \in Event
        /\ c.worker \in Workers
    BY DEF Event, StopCall, TypeOK, ManagerTypeOK
  <2> QED
    BY <1>4, <1>6, <2>1 DEF StopDelivered, AcceptStop
<1>7. CASE \E q \in Replicas : ScheduleNext(q)
  BY <1>1, <1>5, <1>7 DEF ScheduleNext, CreateReplica, PickWorker, NoWorkerAvailable,
     AssignWorker, MarkScheduled, DeployRefused, DeployAnswerLost, workerVars
<1>8. CASE \E q \in Replicas : StopNext(q)
  BY <1>1, <1>8 DEF StopNext, StopReplica, BeginRestart, RestartStop, ReplaceReplica, workerVars
<1>9. CASE \E c \in stopCalls : StopCallNext(c)
  BY <1>1, <1>6, <1>9 DEF StopCallNext, StopRefused, workerVars
<1>10. CASE \E m \in reports : ReportNext(m)
  BY <1>1, <1>10 DEF ReportNext, ReceiveReport, RejectReport, LoseReport, workerVars
<1>11. CASE \E w \in Workers : RegistryNext(w)
  BY <1>1, <1>11 DEF RegistryNext, Boot, Register, Join, Heartbeat, HeartbeatRead, Silence,
     GoStale, HeartbeatSave, DetectorRemove, workerVars
<1>12. CASE \/ \E h \in handlers : Manage(SaveReport(h))
            \/ Manage(DetectorList) \/ \E o \in orphans : Manage(DetectorMark(o))
  BY <1>1, <1>12 DEF SaveReport, DetectorList, DetectorMark, workerVars
<1> QED
  BY <1>2, <1>3, <1>7, <1>8, <1>9, <1>10, <1>11, <1>12 DEF Next

\* A record changes when a status update or the detector saves its copy, when the
\* scheduling call ends well, and otherwise only to nothing or to a new record.
LEMMA ChangedRecord ==
    ASSUME TypeOK, Next, NEW r \in Replicas, store'[r] # store[r]
    PROVE  \/ \E h \in handlers : Manage(SaveReport(h)) /\ h.report.replica = r
           \/ \E o \in orphans : Manage(DetectorMark(o)) /\ o.replica = r
           \/ sched[r] = "accepted" /\ store'[r].state = "running"
           \/ store'[r].state \in {"absent", "pending"}
<1> USE DEF Manage, Meet, Put, TypeOK, ManagerTypeOK
<1>0. store'[r] # store[r]
  OBVIOUS
<1>1. CASE \E q \in Replicas : ScheduleNext(q)
  <2>1. PICK q \in Replicas : ScheduleNext(q)
    BY <1>1
  <2>2. \/ UNCHANGED store
        \/ store' = [store EXCEPT ![q] = NewReplica]
        \/ store' = [store EXCEPT ![q] = Assigned(q)]
        \/ sched[q] = "accepted" /\ store' = [store EXCEPT ![q] = SetState(Assigned(q), "running")]
    BY <2>1 DEF ScheduleNext, CreateReplica, PickWorker, NoWorkerAvailable, AssignWorker,
       MarkScheduled, Advance, Deploy, DeployAccepted, DeployRefused, DeployAnswerLost,
       DeployFailed
  <2>3. \A rec : store' = [store EXCEPT ![q] = rec] => q = r /\ store'[r] = rec
    BY <1>0
  <2>4. /\ NewReplica.state = "pending" /\ Assigned(q).state = "pending"
        /\ SetState(Assigned(q), "running").state = "running"
    BY DEF NewReplica, Assigned, SetWorkerID, SetState
  <2> QED
    BY <1>0, <2>2, <2>3, <2>4
<1>2. CASE \E q \in Replicas : StopNext(q)
  <2>1. UNCHANGED store \/ \E q, n \in Replicas :
           store' = [store EXCEPT ![q] = Absent, ![n] = NewReplica]
    BY <1>2 DEF StopNext, StopReplica, BeginRestart, RestartStop, ReplaceReplica
  <2> QED
    BY <2>1 DEF NewReplica, Absent
<1>3. CASE \E c \in stopCalls : StopCallNext(c)
  BY <1>3 DEF StopCallNext, StopDelivered, StopRefused, StopCallEnds
<1>4. CASE \E m \in reports : ReportNext(m)
  BY <1>4 DEF ReportNext, ReceiveReport, RejectReport, LoseReport, managerVars
<1>5. CASE \E h \in handlers : Manage(SaveReport(h))
  BY <1>5 DEF SaveReport
<1>6. CASE \E w \in Workers : RegistryNext(w)
  BY <1>6 DEF RegistryNext, Boot, Register, Heartbeat, HeartbeatRead, Silence, GoStale,
     HeartbeatSave, DetectorRemove
<1>7. CASE Manage(DetectorList)
  BY <1>7 DEF DetectorList
<1>8. CASE \E o \in orphans : Manage(DetectorMark(o))
  BY <1>8 DEF DetectorMark
<1>9. CASE \E w \in Workers : WorkerNext(w) \/ \E q \in Replicas : ContainerNext(w, q)
  BY <1>9 DEF WorkerNext, ContainerNext, Work, managerVars
<1> QED
  BY <1>1, <1>2, <1>3, <1>4, <1>5, <1>6, <1>7, <1>8, <1>9 DEF Next

\* The state a status update saves is that of the report.
LEMMA SavedState ==
    ASSUME TypeOK, NEW h \in handlers, Manage(SaveReport(h))
    PROVE  store'[h.report.replica].state = h.report.state
<1>1. h.report.replica \in Replicas /\ h.snap \in ReplicaRecord
  BY DEF TypeOK, ManagerTypeOK, Handler, Report
<1>2. ApplyReport(h.snap, h.report).state = h.report.state
  BY <1>1 DEF ApplyReport, SetState, SetContainerID, ReplicaRecord
<1> QED
  BY <1>1, <1>2 DEF Manage, SaveReport, Put, TypeOK, ManagerTypeOK

LEMMA NextStarted ==
    ASSUME TypeOK, TypeOK', PlacementInv, PlacementInv', OrderInv, EndedInv, Next
    PROVE  StartedInv'
<1> SUFFICES ASSUME NEW r \in Replicas, store'[r].state \in {"completed", "failed"},
                    ~Leaving(pick[r])'
             PROVE  Started(r)'
  BY DEF StartedInv
<1>1. ASSUME store[r].state \in {"completed", "failed"}
      PROVE  pick[r] \in Workers /\ pick'[r] = pick[r] /\ ~Leaving(pick[r])
  <2>1. Copy(r, store[r])
    BY <1>1 DEF PlacementInv, RecordInv, Absent, NewReplica
  <2>2. pick[r] \in Workers /\ pick'[r] = pick[r]
    BY <2>1, NextKeeps DEF Copy, Keeps, TypeOK, ManagerTypeOK
  <2> QED
    BY <2>2, LeavingStays DEF Leaving
<1>2. CASE store'[r] = store[r]
  BY <1>1, <1>2, StartedStays DEF EndedInv, StartedInv
<1>3. CASE store'[r] # store[r]
  <2>1. ASSUME NEW h \in handlers, Manage(SaveReport(h)), h.report.replica = r
        PROVE  Started(r)'
    <3>1. h.report \in reports /\ Sent(r)
      BY <2>1 DEF EndedInv, HandlingInv, PlacementInv, CopyInv
    <3>2. pick[r] \in Workers /\ pick'[r] = pick[r] /\ Sent(r)'
      BY <3>1, NextKeeps DEF Sent, Keeps, TypeOK, ManagerTypeOK
    <3>3. ~Awaits(pick[r], r)
      BY <2>1, <3>1, <3>2 DEF OrderInv, AwaitInv, Untouched
    <3>4. ~Awaits(pick[r], r)'
      BY <2>1, <3>2, <3>3 DEF Manage, workerVars, Awaits
    <3>5. \A m \in reports' : m.replica = r => m.from # "deploy"
      BY <2>1, <3>1 DEF Manage, SaveReport, OrderInv, DeployInv
    <3> QED
      BY <3>2, <3>4, <3>5 DEF Started
  <2>2. ASSUME NEW o \in orphans, Manage(DetectorMark(o)), o.replica = r PROVE FALSE
    <3>1. Copy(r, o.snap) /\ Leaving(o.snap.worker)
      BY <2>2 DEF PlacementInv, CopyInv, EndedInv, SilenceInv
    <3>2. pick[r] \in Workers /\ pick'[r] = pick[r] /\ Leaving(pick[r])
      BY <3>1, NextKeeps DEF Copy, Keeps, TypeOK, ManagerTypeOK
    <3> QED
      BY <3>2, LeavingStays DEF Leaving
  <2> QED
    BY <1>3, <2>1, <2>2, ChangedRecord
<1> QED
  BY <1>2, <1>3

-----------------------------------------------------------------------------
\* The end of a replica

LEMMA InitEnded == Init => EndedInv
BY DEF Init, ManagerInit, ReportsInit, EndedInv, SilenceInv, HandlingInv, StartedInv, Absent

LEMMA StutterEnded ==
    ASSUME EndedInv, UNCHANGED vars
    PROVE  EndedInv'
<1>1. UNCHANGED <<store, sched, pick, handlers, stale, dead, orphans, proc, events, reports>>
  BY DEF vars, managerVars, schedVars, registryVars, detectorVars, workerVars
<1>2. \A r \in Replicas : Started(r) => Started(r)'
  BY <1>1 DEF Started, Sent, Awaits
<1>3. SilenceInv' /\ HandlingInv'
  BY <1>1 DEF EndedInv, SilenceInv, HandlingInv, Leaving
<1>4. StartedInv'
  BY <1>1, <1>2 DEF EndedInv, StartedInv, Leaving
<1> QED
  BY <1>3, <1>4 DEF EndedInv

\* A replica is recorded as ended only when the report of its start has come and
\* gone, or when its worker is on its way out.
THEOREM Ended ==
    ("timeout" \notin Faults /\ "stale" \notin Faults) => (Spec => []EndedInv)
<1> SUFFICES ASSUME "timeout" \notin Faults, "stale" \notin Faults PROVE Spec => []EndedInv
  OBVIOUS
<1>1. Init => EndedInv
  BY InitEnded
<1>2. TypeOK /\ TypeOK' /\ PlacementInv /\ PlacementInv' /\ OrderInv /\ EndedInv /\ [Next]_vars
      => EndedInv'
  BY NextSilence, NextHandling, NextStarted, StutterEnded DEF EndedInv
<1> QED
  BY <1>1, <1>2, TypeCorrect, Placed, Ordered, PTL DEF Spec

\* What has ended is not recorded as running again, when its scheduling call is
\* over and its worker is up.
THEOREM EndedStaysEnded ==
    ("timeout" \notin Faults /\ "stale" \notin Faults) => (Spec => EndedStays)
<1> SUFFICES ASSUME "timeout" \notin Faults, "stale" \notin Faults PROVE Spec => EndedStays
  OBVIOUS
<1> DEFINE Stays == \A r \in Replicas :
              /\ sched[r] \in {"done", "failed"} /\ pick[r] # NoWorker /\ proc[pick[r]] = "up"
              /\ store[r].state \in {"completed", "failed"}
              => store'[r].state # "running"
<1>1. TypeOK /\ EndedInv /\ [Next]_vars => [Stays]_vars
  <2> SUFFICES ASSUME TypeOK, EndedInv, Next, NEW r \in Replicas,
                      sched[r] \in {"done", "failed"}, proc[pick[r]] = "up",
                      store[r].state \in {"completed", "failed"},
                      store'[r].state = "running"
               PROVE  FALSE
    OBVIOUS
  <2>1. Started(r)
    BY DEF EndedInv, StartedInv, Leaving
  <2>2. ASSUME NEW h \in handlers, Manage(SaveReport(h)), h.report.replica = r PROVE FALSE
    BY <2>1, <2>2, SavedState DEF EndedInv, HandlingInv, Started
  <2>3. ASSUME NEW o \in orphans, Manage(DetectorMark(o)), o.replica = r PROVE FALSE
    <3>1. store'[r] = SetError(o.snap) /\ o.snap \in ReplicaRecord
      BY <2>3 DEF Manage, DetectorMark, Put, TypeOK, ManagerTypeOK, Orphan
    <3> QED
      BY <3>1 DEF SetError, SetState, ReplicaRecord
  <2> QED
    BY <2>2, <2>3, ChangedRecord
<1>2. Spec => [][Stays]_vars
  BY <1>1, TypeCorrect, Ended, PTL DEF Spec
<1> QED
  BY <1>2 DEF EndedStays

-----------------------------------------------------------------------------
\* What the manager records

\* What may happen to the record of a replica, and to the reports about it, when
\* no report is lost.
LEMMA RecordStep ==
    ASSUME TypeOK, "loss" \notin Faults, Next, NEW r \in Replicas
    PROVE  \/ /\ store'[r] = store[r]
              /\ \A m \in reports : m.replica = r /\ Found(r) => m \in reports'
           \/ \E h \in handlers : Manage(SaveReport(h)) /\ h.report.replica = r
           \/ \E o \in orphans : Manage(DetectorMark(o)) /\ o.replica = r
           \/ Manage(MarkScheduled(r))
           \/ store'[r] = Absent
           \/ sched[r] \in {"none", "replacing", "picked"}
<1> USE DEF Manage, Meet
<1>1. CASE \E q \in Replicas : ScheduleNext(q)
  <2>1. PICK q \in Replicas : ScheduleNext(q)
    BY <1>1
  <2>2. CASE Manage(MarkScheduled(q))
    <3>1. CASE q = r
      BY <2>2, <3>1
    <3>2. CASE q # r
      BY <2>2, <3>2 DEF MarkScheduled, Put
    <3> QED
      BY <3>1, <3>2
  <2>3. CASE ~Manage(MarkScheduled(q))
    <3>1. \/ UNCHANGED store
          \/ /\ sched[q] \in {"none", "picked"}
             /\ \E rec : store' = [store EXCEPT ![q] = rec]
      BY <2>1, <2>3 DEF ScheduleNext, CreateReplica, PickWorker, NoWorkerAvailable,
         AssignWorker, Advance, Put, Deploy, DeployAccepted, DeployRefused, DeployAnswerLost,
         DeployFailed
    <3>2. UNCHANGED reports
      BY <2>1, <2>3 DEF ScheduleNext, CreateReplica, PickWorker, NoWorkerAvailable,
         AssignWorker, Deploy, AcceptDeploy, Accept, DeployRefused, DeployAnswerLost
    <3>3. store'[r] = store[r] \/ sched[r] \in {"none", "picked"}
      <4>1. CASE q = r
        BY <3>1, <4>1
      <4>2. CASE q # r
        <5>1. \A rec : [store EXCEPT ![q] = rec][r] = store[r]
          BY <4>2 DEF TypeOK, ManagerTypeOK
        <5> QED
          BY <3>1, <5>1
      <4> QED
        BY <4>1, <4>2
    <3> QED
      BY <3>2, <3>3
  <2> QED
    BY <2>2, <2>3
<1>2. CASE \E q \in Replicas : StopNext(q)
  <2>1. UNCHANGED reports
    BY <1>2 DEF StopNext, StopReplica, BeginRestart, RestartStop, ReplaceReplica
  <2>2. UNCHANGED store \/ \E q, n \in Replicas :
           /\ sched[n] = "replacing"
           /\ store' = [store EXCEPT ![q] = Absent, ![n] = NewReplica]
    BY <1>2 DEF StopNext, StopReplica, BeginRestart, RestartStop, ReplaceReplica, Advance
  <2> QED
    BY <2>1, <2>2 DEF TypeOK, ManagerTypeOK
<1>3. CASE \E c \in stopCalls : StopCallNext(c)
  BY <1>3 DEF StopCallNext, StopDelivered, StopRefused, StopCallEnds, AcceptStop, Accept
<1>4. CASE \E m \in reports : ReportNext(m)
  BY <1>4 DEF ReportNext, ReceiveReport, RejectReport, LoseReport, managerVars
<1>5. CASE \E h \in handlers : Manage(SaveReport(h))
  <2>1. PICK h \in handlers : Manage(SaveReport(h))
    BY <1>5
  <2>2. CASE h.report.replica = r
    BY <2>1, <2>2
  <2>3. CASE h.report.replica # r
    BY <2>1, <2>3 DEF SaveReport, Put
  <2> QED
    BY <2>2, <2>3
<1>6. CASE \E w \in Workers : RegistryNext(w)
  BY <1>6 DEF RegistryNext, Boot, Register, Heartbeat, HeartbeatRead, Silence, GoStale,
     HeartbeatSave, DetectorRemove
<1>7. CASE Manage(DetectorList)
  BY <1>7 DEF DetectorList
<1>8. CASE \E o \in orphans : Manage(DetectorMark(o))
  <2>1. PICK o \in orphans : Manage(DetectorMark(o))
    BY <1>8
  <2>2. CASE o.replica = r
    BY <2>1, <2>2
  <2>3. CASE o.replica # r
    BY <2>1, <2>3 DEF DetectorMark, Put
  <2> QED
    BY <2>2, <2>3
<1>9. CASE \E w \in Workers : WorkerNext(w) \/ \E q \in Replicas : ContainerNext(w, q)
  <2>1. UNCHANGED store
    BY <1>9 DEF WorkerNext, ContainerNext, Work, managerVars
  <2> QED
    BY <1>9, <2>1, WorkerReports
<1> QED
  BY <1>1, <1>2, <1>3, <1>4, <1>5, <1>6, <1>7, <1>8, <1>9 DEF Next

\* Every step writes the history.
LEMMA NextHistory ==
    ASSUME Next, NEW r \in Replicas, r \notin tainted'
    PROVE  r \notin tainted /\ ~LostUpdate(r) /\ ~BlindStop(r)
<1>1. History
  BY DEF Next, ScheduleNext, StopNext, StopCallNext, ReportNext, RegistryNext, WorkerNext,
     ContainerNext, Manage, Work, Meet
<1> QED
  BY <1>1 DEF History

\* What a worker that is not on its way out is, it was before; and the choice of
\* a worker whose replica was sent is old.
LEMMA LiveBefore ==
    ASSUME TypeOK, PlacementInv, Next, NEW r \in Replicas, Live(r)', pick[r] # NoWorker
    PROVE  Live(r) /\ pick'[r] = pick[r] /\ pick[r] \in Workers
<1>1. pick'[r] = pick[r] /\ pick[r] \in Workers
  BY NextKeeps DEF Keeps, TypeOK, ManagerTypeOK
<1>2. ~Leaving(pick[r])
  BY <1>1, LeavingStays DEF Live, Leaving
<1> QED
  BY <1>1, <1>2 DEF Live

\* A report of a running replica keeps the loop of the replica's worker.
LEMMA RunningReport ==
    ASSUME TypeOK, PlacementInv, OrderInv, HandlingInv, NEW m \in reports,
           m.state = "running", ~Leaving(pick[m.replica])
    PROVE  Starting(pick[m.replica], m.replica)
BY DEF OrderInv, DeployInv, HandlingInv, Leaving, Starting

\* When nothing fails but processes, the record keeps up with the container as
\* long as the worker keeps still.
LEMMA ManagerAgree ==
    ASSUME TypeOK, PlacementInv, OrderInv, EndedInv, AgreeInv, "loss" \notin Faults, Next,
           UNCHANGED <<loop, monitor, container>>, reports' \subseteq reports
    PROVE  AgreeInv'
<1> SUFFICES ASSUME NEW r \in Replicas, Live(r)', r \notin tainted', Found(r)',
                    container[pick'[r]][r] \in {"running", "exited", "removed"}
             PROVE  /\ container[pick'[r]][r] = "running" =>
                          /\ store'[r].state = "running" \/ \E m \in reports' : m.replica = r
                          /\ \A m \in reports' : m.replica = r => m.state = "running"
                    /\ container[pick'[r]][r] \in {"exited", "removed"} =>
                          \/ Watched(pick[r], r)'
                          \/ \E m \in reports' : m.replica = r /\ m.state # "running"
                          \/ store'[r].state \in {"completed", "failed"}
  BY DEF AgreeInv
<1>1. pick'[r] \in Workers /\ Sent(r) /\ pick[r] = pick'[r]
  <2>1. pick'[r] \in Workers
    <3>1. TypeOK'
      BY ScheduleType, StopType, StopCallType, ReportType, SaveType, RegistryType,
         ListType, MarkType, WorkerType, ContainerType DEF Next
    <3> QED
      BY <3>1 DEF TypeOK, ManagerTypeOK, Live
  <2> QED
    BY <2>1 DEF PlacementInv, TraceInv, AtWorker
<1> DEFINE w == pick[r]
<1>2. Live(r) /\ w \in Workers /\ r \notin tainted /\ ~LostUpdate(r) /\ ~Leaving(w)
  BY <1>1, LiveBefore, NextHistory DEF Sent, Live
<1>3. Watched(pick[r], r)' <=> Watched(w, r)
  BY <1>1 DEF Watched, Starting
<1>4. CASE /\ store'[r] = store[r]
           /\ \A m \in reports : m.replica = r /\ Found(r) => m \in reports'
  BY <1>1, <1>2, <1>3, <1>4 DEF AgreeInv, Found
<1>5. ASSUME NEW h \in handlers, Manage(SaveReport(h)), h.report.replica = r
      PROVE  /\ store[r] = h.snap /\ Found(r) /\ reports' = reports \ {h.report}
             /\ store'[r].state = h.report.state /\ h.report \in reports
             /\ h.report.state \in {"running", "completed", "failed"}
  <2>1. h.snap = store[r]
    BY <1>2, <1>5 DEF Manage, SaveReport, LostUpdate
  <2>2. h.snap \in ReplicaRecord /\ h.report \in Report
    BY DEF TypeOK, ManagerTypeOK, Handler
  <2>3. Found(r)
    BY <2>1, <2>2, AbsentIsNoRecord DEF Found
  <2> QED
    BY <1>5, <2>1, <2>2, <2>3, SavedState DEF Manage, SaveReport, EndedInv, HandlingInv, Report
<1>6. CASE \E h \in handlers : Manage(SaveReport(h)) /\ h.report.replica = r
  <2>1. PICK h \in handlers : Manage(SaveReport(h)) /\ h.report.replica = r
    BY <1>6
  <2>2. CASE container[w][r] = "running"
    BY <1>1, <1>2, <1>5, <2>1, <2>2 DEF AgreeInv
  <2>3. CASE container[w][r] \in {"exited", "removed"}
    <3>1. CASE h.report.state = "running"
      <4>1. Starting(w, r)
        BY <1>2, <1>5, <2>1, <3>1, RunningReport DEF EndedInv
      <4> QED
        BY <1>1, <1>3, <2>3, <4>1 DEF Watched
    <3>2. CASE h.report.state # "running"
      BY <1>1, <1>5, <2>1, <2>3, <3>2
    <3> QED
      BY <3>1, <3>2
  <2> QED
    BY <1>1, <2>2, <2>3
<1>7. ASSUME NEW o \in orphans, Manage(DetectorMark(o)), o.replica = r PROVE FALSE
  BY <1>2, <1>7 DEF PlacementInv, CopyInv, Copy, EndedInv, SilenceInv
<1>8. CASE Manage(MarkScheduled(r))
  <2>1. store[r] = Assigned(r) /\ store'[r].state = "running"
    BY <1>2, <1>8 DEF Manage, MarkScheduled, Advance, Put, LostUpdate, TypeOK, ManagerTypeOK,
       Assigned, NewReplica, SetWorkerID, SetState
  <2>2. Found(r) /\ store[r].state = "pending"
    BY <2>1 DEF Found, Absent, Assigned, NewReplica, SetWorkerID
  <2>3. UNCHANGED reports
    BY <1>8 DEF Manage, MarkScheduled
  <2> QED
    BY <1>1, <1>2, <1>3, <2>1, <2>2, <2>3 DEF AgreeInv
<1>9. store'[r] # Absent
  BY DEF Found
<1>10. sched[r] \notin {"none", "replacing", "picked"}
  BY <1>1 DEF Sent
<1> QED
  BY <1>4, <1>6, <1>7, <1>8, <1>9, <1>10, RecordStep

\* The deploy event stays in its queue until the loop takes it.
LEMMA TakeKeepsAwaits ==
    ASSUME TypeOK, NEW w \in Workers, NEW action, TakeEvent(w, action),
           NEW v \in Workers, NEW r \in Replicas, Awaits(v, r),
           v # w \/ action # "deploy" \/ Head(events[w]).replica # r
    PROVE  Awaits(v, r)'
<1>1. events \in [Workers -> Seq(Event)]
  BY DEF TypeOK, WorkerTypeOK
<1>2. PICK i \in DOMAIN events[v] : events[v][i].action = "deploy" /\ events[v][i].replica = r
  BY DEF Awaits
<1>3. CASE v # w
  BY <1>1, <1>2, <1>3 DEF TakeEvent, Awaits
<1>4. CASE v = w
  <2>1. /\ events'[w] = Tail(events[w]) /\ events[w] \in Seq(Event) /\ events[w] # <<>>
        /\ Head(events[w]).action = action /\ Head(events[w]) = events[w][1]
    BY <1>1 DEF TakeEvent
  <2>2. /\ Tail(events[w]) \in Seq(Event) /\ Len(Tail(events[w])) = Len(events[w]) - 1
        /\ \A k \in 1..Len(Tail(events[w])) : Tail(events[w])[k] = events[w][k + 1]
    BY <2>1, HeadTailProperties
  <2>3. /\ DOMAIN Tail(events[w]) = 1..Len(Tail(events[w]))
        /\ DOMAIN events[w] = 1..Len(events[w]) /\ Len(events[w]) \in Nat
    BY <2>1, <2>2, LenProperties
  <2>4. i # 1
    BY <1>2, <1>4, <2>1
  <2>5. /\ i - 1 \in DOMAIN Tail(events[w]) /\ (i - 1) + 1 = i
    BY <1>2, <1>4, <2>2, <2>3, <2>4
  <2>6. Tail(events[w])[i - 1] = events[w][i]
    BY <2>2, <2>3, <2>5
  <2> QED
    BY <1>2, <1>4, <2>1, <2>5, <2>6 DEF Awaits
<1> QED
  BY <1>3, <1>4

LEMMA AcceptKeepsAwaits ==
    ASSUME TypeOK, NEW w \in Workers, NEW e \in Event, Accept(w, e),
           NEW v \in Workers, NEW r \in Replicas,
           Awaits(v, r) \/ (v = w /\ e.action = "deploy" /\ e.replica = r)
    PROVE  Awaits(v, r)'
<1>1. events \in [Workers -> Seq(Event)]
  BY DEF TypeOK, WorkerTypeOK
<1>2. events'[w] = Append(events[w], e) /\ events[w] \in Seq(Event)
  BY <1>1 DEF Accept
<1>3. /\ DOMAIN events[w] = 1..Len(events[w]) /\ Len(events[w]) \in Nat
      /\ DOMAIN events'[w] = 1..(Len(events[w]) + 1)
      /\ \A i \in 1..Len(events[w]) : events'[w][i] = events[w][i]
      /\ events'[w][Len(events[w]) + 1] = e
  BY <1>2
<1>4. \A u \in Workers : u # w => events'[u] = events[u]
  BY <1>1 DEF Accept
<1>5. CASE Awaits(v, r)
  <2>1. PICK i \in DOMAIN events[v] : events[v][i].action = "deploy" /\ events[v][i].replica = r
    BY <1>5 DEF Awaits
  <2>2. i \in DOMAIN events'[v] /\ events'[v][i] = events[v][i]
    BY <1>3, <1>4, <2>1
  <2> QED
    BY <2>1, <2>2 DEF Awaits
<1>6. CASE v = w /\ e.action = "deploy" /\ e.replica = r
  <2>1. Len(events[w]) + 1 \in DOMAIN events'[w]
    BY <1>3
  <2> QED
    BY <1>3, <1>6, <2>1 DEF Awaits
<1> QED
  BY <1>5, <1>6

\* With a runtime that does not fail, a container is started at the first attempt.
LEMMA StartsAtOnce ==
    ASSUME TypeOK, OrderInv, "runtime" \notin Faults, NEW w \in Workers,
           TakeEvent(w, "deploy")
    PROVE  ~StartFails(w) /\ Untouched(w, Head(events[w]).replica)
<1>1. Awaits(w, Head(events[w]).replica)
  BY TakeOrder DEF TakeEvent, OrderInv
<1>2. Head(events[w]).replica \in Replicas
  <2>1. Head(events[w]) \in Event
    BY DEF TakeEvent, TypeOK, WorkerTypeOK
  <2> QED
    BY <2>1 DEF Event
<1>3. Untouched(w, Head(events[w]).replica)
  BY <1>1, <1>2 DEF OrderInv, AwaitInv
<1> QED
  BY <1>3 DEF StartFails, Untouched

\* A container is made for an awaited replica, and never unmade.
LEMMA NoneStep ==
    ASSUME TypeOK, OrderInv, Next, NEW w \in Workers, NEW r \in Replicas
    PROVE  /\ container[w][r] = "none" /\ ~Awaits(w, r) => container'[w][r] = "none"
           /\ container'[w][r] = "none" => container[w][r] = "none"
<1> USE DEF Work, Manage, Meet
<1> DEFINE Goal == /\ container[w][r] = "none" /\ ~Awaits(w, r) => container'[w][r] = "none"
                   /\ container'[w][r] = "none" => container[w][r] = "none"
<1>1. UNCHANGED container => Goal
  OBVIOUS
<1>2. ASSUME NEW v \in Workers, NEW q \in Replicas, NEW c, SetContainer(v, q, c), c # "none",
             container[v][q] # "none" \/ Awaits(v, q)
      PROVE  Goal
  BY <1>2 DEF SetContainer, TypeOK, WorkerTypeOK
<1>3. ASSUME NEW v \in Workers, WorkerNext(v) PROVE Goal
  <2>1. ASSUME TakeEvent(v, "deploy")
        PROVE  Awaits(v, Head(events[v]).replica) /\ Head(events[v]).replica \in Replicas
    <3>1. Head(events[v]) \in Event
      BY <2>1 DEF TakeEvent, TypeOK, WorkerTypeOK
    <3> QED
      BY <2>1, <3>1, TakeOrder DEF TakeEvent, OrderInv, Event
  <2>2. CASE Work(StartContainer(v))
    BY <1>2, <2>1, <2>2 DEF StartContainer
  <2>3. CASE Work(StartFails(v))
    BY <1>1, <1>2, <2>1, <2>3 DEF StartFails
  <2>4. CASE Work(StopContainer(v))
    BY <1>2, <2>4, StopTypes DEF StopContainer
  <2>5. CASE Work(StopFails(v))
    BY <1>1, <1>2, <2>5, StopTypes DEF StopFails
  <2> QED
    BY <1>1, <1>3, <2>2, <2>3, <2>4, <2>5 DEF WorkerNext, Listen, Cancel, Exit, Crash, Gone,
       BeginStop, StopUnknown, StopGone, Return
<1>4. ASSUME NEW v \in Workers, NEW q \in Replicas, ContainerNext(v, q) PROVE Goal
  <2>1. CASE Work(ContainerExit(v, q))
    BY <1>2, <2>1 DEF ContainerExit
  <2> QED
    BY <1>1, <1>4, <2>1 DEF ContainerNext, MonitorExit, MonitorError, MonitorReturn,
       MonitorCancel
<1>5. ASSUME UNCHANGED workerVars PROVE Goal
  BY <1>5 DEF workerVars
<1>6. CASE \E q \in Replicas : ScheduleNext(q)
  BY <1>1, <1>5, <1>6 DEF ScheduleNext, Deploy, AcceptDeploy, Accept, DeployRefused,
     DeployAnswerLost
<1>7. CASE \E q \in Replicas : StopNext(q)
  BY <1>5, <1>7 DEF StopNext
<1>8. CASE \E c \in stopCalls : StopCallNext(c)
  BY <1>1, <1>5, <1>8 DEF StopCallNext, StopDelivered, AcceptStop, Accept, StopRefused
<1>9. CASE \E u \in Workers : RegistryNext(u)
  BY <1>1, <1>5, <1>9 DEF RegistryNext, Boot, Join
<1>10. CASE \/ \E m \in reports : ReportNext(m)
            \/ \E h \in handlers : Manage(SaveReport(h))
            \/ Manage(DetectorList) \/ \E o \in orphans : Manage(DetectorMark(o))
  BY <1>5, <1>10 DEF ReportNext
<1> QED
  BY <1>3, <1>4, <1>6, <1>7, <1>8, <1>9, <1>10 DEF Next

\* An awaited replica is awaited until its container is there.
LEMMA AwaitsStays ==
    ASSUME TypeOK, OrderInv, "runtime" \notin Faults, Next, NEW w \in Workers,
           NEW r \in Replicas, Awaits(w, r), container'[w][r] = "none", ~Leaving(w)'
    PROVE  Awaits(w, r)'
<1> USE DEF Work, Manage, Meet
<1>1. UNCHANGED events => Awaits(w, r)'
  BY DEF Awaits
<1>2. ASSUME NEW v \in Workers, WorkerNext(v) PROVE Awaits(w, r)'
  <2>1. CASE Work(StartContainer(v))
    <3>1. TakeEvent(v, "deploy")
      BY <2>1 DEF StartContainer
    <3>2. Head(events[v]).replica \in Replicas
      <4>1. Head(events[v]) \in Event
        BY <3>1 DEF TakeEvent, TypeOK, WorkerTypeOK
      <4> QED
        BY <4>1 DEF Event
    <3>3. container'[v][Head(events[v]).replica] = "running"
      BY <2>1, <3>2 DEF StartContainer, SetContainer, TypeOK, WorkerTypeOK
    <3> QED
      BY <3>1, <3>3, TakeKeepsAwaits
  <2>2. CASE Work(StartFails(v))
    BY <2>2, StartsAtOnce DEF StartFails
  <2>3. CASE Work(BeginStop(v))
    BY <2>3, TakeKeepsAwaits DEF BeginStop
  <2>4. CASE Work(Exit(v)) \/ Work(Crash(v))
    <3>1. proc'[v] = "down" /\ \A u \in Workers : u # v => events'[u] = events[u]
      BY <2>4 DEF Exit, Crash, Gone, TypeOK, WorkerTypeOK
    <3> QED
      BY <3>1 DEF Leaving, Awaits
  <2> QED
    BY <1>1, <1>2, <2>1, <2>2, <2>3, <2>4 DEF WorkerNext, Listen, Cancel, StopUnknown,
       StopContainer, StopGone, StopFails, Return
<1>3. ASSUME NEW v \in Workers, NEW q \in Replicas, ContainerNext(v, q) PROVE UNCHANGED events
  BY <1>3 DEF ContainerNext, ContainerExit, MonitorExit, MonitorError, MonitorReturn,
     MonitorCancel
<1>4. ASSUME NEW q \in Replicas, ScheduleNext(q) PROVE Awaits(w, r)'
  <2>1. CASE Meet(Deploy(q))
    <3>1. [action |-> "deploy", replica |-> q, container |-> FALSE] \in Event
      BY DEF Event
    <3>2. Accept(pick[q], [action |-> "deploy", replica |-> q, container |-> FALSE])
      BY <2>1 DEF Deploy, AcceptDeploy
    <3>3. CASE pick[q] \in Workers
      BY <3>1, <3>2, <3>3, AcceptKeepsAwaits
    <3>4. CASE pick[q] \notin Workers
      <4>1. events'[w] = events[w]
        BY <3>2, <3>4 DEF Accept, TypeOK, WorkerTypeOK
      <4> QED
        BY <4>1 DEF Awaits
    <3> QED
      BY <3>3, <3>4
  <2> QED
    BY <1>1, <1>4, <2>1 DEF ScheduleNext, DeployRefused, DeployAnswerLost, workerVars
<1>5. ASSUME NEW c \in stopCalls, StopCallNext(c) PROVE Awaits(w, r)'
  <2>1. CASE Meet(StopDelivered(c))
    <3>1. /\ [action |-> "stop", replica |-> c.replica, container |-> c.container] \in Event
          /\ c.worker \in Workers
      BY DEF Event, StopCall, TypeOK, ManagerTypeOK
    <3>2. Accept(c.worker, [action |-> "stop", replica |-> c.replica,
                            container |-> c.container])
      BY <2>1 DEF StopDelivered, AcceptStop
    <3> QED
      BY <3>1, <3>2, AcceptKeepsAwaits
  <2> QED
    BY <1>1, <1>5, <2>1 DEF StopCallNext, StopRefused, workerVars
<1>6. CASE \E q \in Replicas : StopNext(q)
  BY <1>1, <1>6 DEF StopNext, workerVars
<1>7. CASE \E v \in Workers : RegistryNext(v)
  BY <1>1, <1>7 DEF RegistryNext, Boot, Join, workerVars
<1>8. CASE \/ \E m \in reports : ReportNext(m)
           \/ \E h \in handlers : Manage(SaveReport(h))
           \/ Manage(DetectorList) \/ \E o \in orphans : Manage(DetectorMark(o))
  BY <1>1, <1>8 DEF ReportNext, workerVars
<1> QED
  BY <1>1, <1>2, <1>3, <1>4, <1>5, <1>6, <1>7, <1>8 DEF Next

\* How a scheduling call comes to have failed or to have been accepted.
LEMMA CallStep ==
    ASSUME TypeOK, Next, NEW r \in Replicas, sched'[r] \in {"failed", "accepted", "done"}
    PROVE  /\ pick'[r] = pick[r]
           /\ \/ sched'[r] = sched[r]
              \/ sched'[r] = "accepted" /\ Meet(Deploy(r))
              \/ sched'[r] = "done" /\ sched[r] = "accepted"
              \/ sched'[r] = "failed" /\ Meet(DeployRefused(r))
              \/ sched'[r] = "failed" /\ Meet(DeployAnswerLost(r))
              \/ sched'[r] = "failed" /\ sched[r] = "created"
<1> USE DEF Manage, Meet, TypeOK, ManagerTypeOK
<1>1. CASE \E q \in Replicas : ScheduleNext(q)
  <2>1. PICK q \in Replicas : ScheduleNext(q)
    BY <1>1
  <2>2. CASE q = r
    BY <2>1, <2>2 DEF ScheduleNext, CreateReplica, PickWorker, NoWorkerAvailable, AssignWorker,
       MarkScheduled, Deploy, DeployAccepted, DeployRefused, DeployAnswerLost, DeployFailed,
       Advance
  <2>3. CASE q # r
    BY <2>1, <2>3 DEF ScheduleNext, CreateReplica, PickWorker, NoWorkerAvailable, AssignWorker,
       MarkScheduled, Deploy, DeployAccepted, DeployRefused, DeployAnswerLost, DeployFailed,
       Advance
  <2> QED
    BY <2>2, <2>3
<1>2. CASE \E q \in Replicas : StopNext(q)
  <2>1. UNCHANGED pick
    BY <1>2 DEF StopNext, StopReplica, BeginRestart, RestartStop, ReplaceReplica, schedVars
  <2>2. UNCHANGED sched \/ \E n \in Replicas, s \in {"stopping", "posting", "replacing", "created"} :
           sched' = [sched EXCEPT ![n] = s]
    BY <1>2 DEF StopNext, StopReplica, BeginRestart, RestartStop, ReplaceReplica, schedVars,
       Advance
  <2> QED
    BY <2>1, <2>2
<1>3. CASE \E c \in stopCalls : StopCallNext(c)
  <2>1. /\ UNCHANGED pick
        /\ \/ UNCHANGED sched
           \/ \E n : sched' = [sched EXCEPT ![n] = "replacing"]
    BY <1>3 DEF StopCallNext, StopDelivered, StopRefused, StopCallEnds, Advance
  <2> QED
    BY <2>1
<1>4. UNCHANGED <<sched, pick>> => pick'[r] = pick[r] /\ sched'[r] = sched[r]
  OBVIOUS
<1>5. CASE \E m \in reports : ReportNext(m)
  BY <1>4, <1>5 DEF ReportNext, ReceiveReport, RejectReport, LoseReport, managerVars, schedVars
<1>6. CASE \E w \in Workers : RegistryNext(w)
  BY <1>4, <1>6 DEF RegistryNext, Boot, Register, Heartbeat, HeartbeatRead, Silence, GoStale,
     HeartbeatSave, DetectorRemove, schedVars
<1>7. CASE \/ \E h \in handlers : Manage(SaveReport(h))
           \/ Manage(DetectorList) \/ \E o \in orphans : Manage(DetectorMark(o))
  BY <1>4, <1>7 DEF SaveReport, DetectorList, DetectorMark, schedVars
<1>8. CASE \E w \in Workers : WorkerNext(w) \/ \E q \in Replicas : ContainerNext(w, q)
  BY <1>4, <1>8 DEF WorkerNext, ContainerNext, Work, managerVars, schedVars
<1> QED
  BY <1>1, <1>2, <1>3, <1>5, <1>6, <1>7, <1>8 DEF Next

\* A record becomes running by the report of the start or by the scheduling call.
LEMMA RunningRecord ==
    ASSUME TypeOK, HandlingInv, Next, NEW r \in Replicas, Started(r), sched[r] = "failed",
           store[r].state # "running"
    PROVE  store'[r].state # "running"
<1>1. CASE store'[r] = store[r]
  BY <1>1
<1>2. ASSUME NEW h \in handlers, Manage(SaveReport(h)), h.report.replica = r
      PROVE  store'[r].state # "running"
  BY <1>2, SavedState DEF HandlingInv, Started
<1>3. ASSUME NEW o \in orphans, Manage(DetectorMark(o)), o.replica = r
      PROVE  store'[r].state # "running"
  <2>1. store'[r] = SetError(o.snap) /\ o.snap \in ReplicaRecord
    BY <1>3 DEF Manage, DetectorMark, Put, TypeOK, ManagerTypeOK, Orphan
  <2> QED
    BY <2>1 DEF SetError, SetState, ReplicaRecord
<1> QED
  BY <1>1, <1>2, <1>3, ChangedRecord

\* A deploy request whose failure the manager saw leaves nothing at the worker.
LEMMA NextFailed ==
    ASSUME TypeOK, PlacementInv, OrderInv, EndedInv, RequestInv, "loss" \notin Faults, Next,
           NEW r \in Replicas, Live(r)', sched'[r] = "failed"
    PROVE  Started(r)' /\ container'[pick[r]][r] = "none" /\ store'[r].state # "running"
<1>1. pick'[r] = pick[r] /\ pick[r] # NoWorker
  BY CallStep DEF Live
<1>2. Live(r) /\ pick[r] \in Workers
  BY <1>1, LiveBefore
<1>3. CASE sched[r] = "failed"
  <2>1. Started(r) /\ container[pick[r]][r] = "none" /\ store[r].state # "running"
    BY <1>2, <1>3 DEF RequestInv
  <2>2. ~Awaits(pick[r], r)
    BY <2>1 DEF Started
  <2> QED
    BY <1>2, <1>3, <2>1, <2>2, StartedStays, RunningRecord, NoneStep DEF EndedInv
<1>4. CASE Meet(DeployRefused(r))
  <2>1. ~Sent(r)
    BY <1>4 DEF Meet, DeployRefused, Sent
  <2>2. /\ ~AtWorker(pick[r], r) /\ store[r].state # "running"
        /\ \A m \in reports : m.replica # r
    BY <1>2, <2>1 DEF PlacementInv, TraceInv, RecordInv, MessageInv
  <2>3. UNCHANGED <<events, container, reports, store, pick>>
    BY <1>4 DEF Meet, DeployRefused, DeployFailed, workerVars
  <2>4. ~Awaits(pick[r], r)
    BY <2>2 DEF Awaits, AtWorker, InQueue
  <2>5. Started(r)'
    BY <1>1, <2>2, <2>3, <2>4 DEF Started, Sent, Awaits
  <2> QED
    BY <2>2, <2>3, <2>5 DEF AtWorker
<1>5. ~Meet(DeployAnswerLost(r))
  BY <1>2 DEF Meet, DeployAnswerLost, Live, Leaving
<1>6. sched[r] # "created"
  BY <1>1 DEF PlacementInv, ChoiceInv
<1> QED
  BY <1>3, <1>4, <1>5, <1>6, CallStep

\* One that was accepted is in the queue until the container is there.
LEMMA NextAccepted ==
    ASSUME TypeOK, PlacementInv, OrderInv, RequestInv, "runtime" \notin Faults, Next,
           NEW r \in Replicas, Live(r)', sched'[r] \in {"accepted", "done"},
           container'[pick[r]][r] = "none"
    PROVE  Awaits(pick[r], r)'
<1>1. pick'[r] = pick[r] /\ pick[r] # NoWorker
  BY CallStep DEF Live
<1>2. Live(r) /\ pick[r] \in Workers
  BY <1>1, LiveBefore
<1>3. ASSUME NEW w \in Workers, w = pick[r], Awaits(w, r)' PROVE Awaits(pick[r], r)'
  BY <1>1, <1>3 DEF Awaits
<1>4. CASE sched[r] \in {"accepted", "done"}
  <2>1. container[pick[r]][r] = "none"
    BY <1>2, NoneStep
  <2>2. Awaits(pick[r], r)
    BY <1>2, <1>4, <2>1 DEF RequestInv
  <2>3. \A w \in Workers : w = pick[r] => ~Leaving(w)'
    BY <1>1 DEF Live, Leaving
  <2>4. \A w \in Workers : w = pick[r] => Awaits(w, r)'
    BY <2>2, <2>3, AwaitsStays
  <2> QED
    BY <1>2, <1>3, <2>4
<1>5. CASE Meet(Deploy(r))
  <2>1. [action |-> "deploy", replica |-> r, container |-> FALSE] \in Event
    BY DEF Event
  <2>2. Accept(pick[r], [action |-> "deploy", replica |-> r, container |-> FALSE])
    BY <1>5 DEF Meet, Deploy, AcceptDeploy
  <2>3. \A w \in Workers : w = pick[r] => Awaits(w, r)'
    BY <2>1, <2>2, AcceptKeepsAwaits
  <2> QED
    BY <1>2, <1>3, <2>3
<1> QED
  BY <1>4, <1>5, CallStep

LEMMA NextRequest ==
    ASSUME TypeOK, PlacementInv, OrderInv, EndedInv, RequestInv,
           "loss" \notin Faults, "runtime" \notin Faults, Next
    PROVE  RequestInv'
<1> SUFFICES ASSUME NEW r \in Replicas, Live(r)'
             PROVE  /\ sched'[r] = "failed" =>
                          /\ Started(r)' /\ container'[pick'[r]][r] = "none"
                          /\ store'[r].state # "running"
                    /\ /\ sched'[r] \in {"accepted", "done"}
                       /\ container'[pick'[r]][r] = "none"
                       => Awaits(pick[r], r)'
  BY DEF RequestInv
<1>1. sched'[r] \in {"failed", "accepted", "done"} => pick'[r] = pick[r]
  BY CallStep
<1> QED
  BY <1>1, NextFailed, NextAccepted

-----------------------------------------------------------------------------
\* What the worker tells

\* What a step of worker w has to keep so that its running containers are watched.
WatchStep(w) ==
    \A r \in Replicas :
        /\ Starting(w, r)' => loop'[w].then = "monitor"
        /\ container'[w][r] # "created"
        /\ container'[w][r] = "running" /\ ~Leaving(w)' => Watched(w, r)'

\* What it has to tell: that a container runs or has ended, or nothing new.
TellStep(w) ==
    \A r \in Replicas :
        r \notin tainted' /\ ~Leaving(w)' =>
            /\ container'[w][r] = "running" =>
                  \/ /\ container[w][r] = "running"
                     /\ \A m \in reports' : m.replica = r => m \in reports
                  \/ /\ \E m \in reports' : m.replica = r
                     /\ \A m \in reports' : m.replica = r => m.state = "running"
            /\ container'[w][r] \in {"exited", "removed"} =>
                  \/ Watched(w, r)'
                  \/ \E m \in reports' : m.replica = r /\ m.state # "running"
                  \/ container[w][r] \in {"exited", "removed"} /\ ~Watched(w, r)

\* Only the worker that makes the step matters.
LEMMA WorkSettled ==
    ASSUME TypeOK, PlacementInv, WatchInv, AgreeInv, Next, NEW w \in Workers,
           UNCHANGED managerVars,
           \A v \in Workers : v # w => /\ proc'[v] = proc[v] /\ loop'[v] = loop[v]
                                       /\ monitor'[v] = monitor[v]
                                       /\ container'[v] = container[v],
           reports \subseteq reports', reports' \subseteq Report,
           \A m \in reports' : m \in reports \/ AtWorker(w, m.replica),
           WatchStep(w), TellStep(w)
    PROVE  WatchInv' /\ AgreeInv'
<1>1. WatchInv'
  <2> SUFFICES ASSUME NEW v \in Workers, NEW r \in Replicas
               PROVE  /\ Starting(v, r)' => loop'[v].then = "monitor"
                      /\ container'[v][r] # "created"
                      /\ container'[v][r] = "running" /\ ~Leaving(v)' => Watched(v, r)'
    BY DEF WatchInv
  <2>1. CASE v = w
    BY <2>1 DEF WatchStep
  <2>2. CASE v # w
    BY <2>2 DEF WatchInv, Starting, Watched, Leaving
  <2> QED
    BY <2>1, <2>2
<1>2. AgreeInv'
  <2>1. UNCHANGED <<pick, store, sched>>
    BY DEF managerVars, schedVars
  <2> SUFFICES ASSUME NEW r \in Replicas, Live(r)', r \notin tainted', Found(r)', NEW v,
                      v = pick[r]
               PROVE  /\ container'[v][r] = "running" =>
                            /\ store[r].state = "running" \/ \E m \in reports' : m.replica = r
                            /\ \A m \in reports' : m.replica = r => m.state = "running"
                      /\ container'[v][r] \in {"exited", "removed"} =>
                            \/ Watched(v, r)'
                            \/ \E m \in reports' : m.replica = r /\ m.state # "running"
                            \/ store[r].state \in {"completed", "failed"}
    BY <2>1 DEF AgreeInv, Watched, Starting
  <2>2. /\ v \in Workers /\ Live(r) /\ Found(r) /\ r \notin tainted /\ ~Leaving(v)'
        /\ Starting(v, r) <=> Starting(pick[r], r)
    BY <2>1, LiveBefore, NextHistory DEF Live, Found, Leaving
  <2>3. /\ container[v][r] = "running" =>
              /\ store[r].state = "running" \/ \E m \in reports : m.replica = r
              /\ \A m \in reports : m.replica = r => m.state = "running"
        /\ container[v][r] \in {"exited", "removed"} =>
              \/ Watched(v, r)
              \/ \E m \in reports : m.replica = r /\ m.state # "running"
              \/ store[r].state \in {"completed", "failed"}
    BY <2>2 DEF AgreeInv
  <2>4. CASE v = w
    BY <2>2, <2>3, <2>4 DEF TellStep
  <2>5. CASE v # w
    <3>1. \A m \in reports' : m.replica = r => m \in reports
      BY <2>5 DEF PlacementInv, TraceInv, Report
    <3>2. Watched(v, r)' <=> Watched(v, r)
      BY <2>2, <2>5 DEF Watched, Starting
    <3> QED
      BY <2>2, <2>3, <2>5, <3>1, <3>2
  <2> QED
    BY <2>4, <2>5
<1> QED
  BY <1>1, <1>2

\* A step that tells nothing and changes no container keeps what it watches.
LEMMA SilentWork ==
    ASSUME WatchInv, NEW w \in Workers, UNCHANGED <<container, reports>>,
           Leaving(w) => Leaving(w)',
           \A r \in Replicas : /\ Starting(w, r)' => loop'[w].then = "monitor"
                               /\ Watched(w, r) => Watched(w, r)' \/ Leaving(w)'
    PROVE  WatchStep(w) /\ TellStep(w)
<1>1. WatchStep(w)
  BY DEF WatchStep, WatchInv
<1>2. TellStep(w)
  BY DEF TellStep
<1> QED
  BY <1>1, <1>2

\* So does one that reports the end of a container, or that follows a blind stop.
LEMMA EndingWork ==
    ASSUME WatchInv, NEW w \in Workers, NEW r \in Replicas, NEW m, m.replica = r,
           m.state # "running", reports' = reports \cup {m},
           Leaving(w) => Leaving(w)',
           \/ container'[w][r] \notin {"running", "created"}
           \/ r \in tainted' /\ container'[w][r] = container[w][r],
           \A q \in Replicas :
               /\ Starting(w, q)' => loop'[w].then = "monitor"
               /\ q # r => container'[w][q] = container[w][q]
               /\ q # r \/ r \in tainted' => (Watched(w, q) => Watched(w, q)')
    PROVE  WatchStep(w) /\ TellStep(w)
<1>1. WatchStep(w)
  BY DEF WatchStep, WatchInv
<1>2. TellStep(w)
  BY DEF TellStep
<1> QED
  BY <1>1, <1>2

\* What the loop does about deployments.
LEMMA StartSettled ==
    ASSUME TypeOK, OrderInv, WatchInv, "runtime" \notin Faults, NEW w \in Workers,
           StartContainer(w)
    PROVE  WatchStep(w) /\ TellStep(w)
<1> DEFINE e == Head(events[w])
           m == [replica |-> e.replica, from |-> "deploy", state |-> "running",
                 container |-> TRUE]
<1>1. TakeEvent(w, "deploy") /\ UNCHANGED proc /\ loop[w] = Idle
  BY DEF StartContainer, TakeEvent
<1>2. e \in Event
  BY <1>1 DEF TakeEvent, TypeOK, WorkerTypeOK
<1>3. e.replica \in Replicas /\ Untouched(w, e.replica)
  BY <1>1, <1>2, StartsAtOnce DEF Event
<1>4. /\ container'[w][e.replica] = "running" /\ UNCHANGED monitor
      /\ \A r \in Replicas : r # e.replica => container'[w][r] = container[w][r]
      /\ loop'[w] = [pc |-> "call", report |-> m, then |-> "monitor"]
      /\ reports' = reports \cup {m}
  BY <1>3 DEF StartContainer, SetContainer, Call, Send, TypeOK, WorkerTypeOK
<1>5. /\ \A r \in Replicas : r = e.replica => Starting(w, r)'
      /\ \A r \in Replicas : Watched(w, r) => Watched(w, r)'
  <2>1. loop[w].pc # "call"
    BY <1>1 DEF Idle
  <2>2. \A r \in Replicas : ~Starting(w, r)
    BY <2>1 DEF Starting
  <2>3. \A r \in Replicas : r = e.replica => Starting(w, r)'
    BY <1>4 DEF Starting
  <2> QED
    BY <1>4, <2>2, <2>3 DEF Watched
<1>6. WatchStep(w)
  <2> SUFFICES ASSUME NEW r \in Replicas
               PROVE  /\ Starting(w, r)' => loop'[w].then = "monitor"
                      /\ container'[w][r] # "created"
                      /\ container'[w][r] = "running" /\ ~Leaving(w)' => Watched(w, r)'
    BY DEF WatchStep
  <2>1. loop'[w].then = "monitor" /\ (Leaving(w)' <=> Leaving(w))
    BY <1>1, <1>4 DEF Leaving
  <2>2. CASE r = e.replica
    BY <1>4, <1>5, <2>1, <2>2 DEF Watched
  <2>3. CASE r # e.replica
    BY <1>4, <1>5, <2>1, <2>3 DEF WatchInv
  <2> QED
    BY <2>2, <2>3
<1>7. TellStep(w)
  <2> SUFFICES ASSUME NEW r \in Replicas
               PROVE  /\ container'[w][r] = "running" =>
                            \/ /\ container[w][r] = "running"
                               /\ \A l \in reports' : l.replica = r => l \in reports
                            \/ /\ \E l \in reports' : l.replica = r
                               /\ \A l \in reports' : l.replica = r => l.state = "running"
                      /\ container'[w][r] \in {"exited", "removed"} =>
                            \/ Watched(w, r)'
                            \/ container[w][r] \in {"exited", "removed"} /\ ~Watched(w, r)
    BY DEF TellStep
  <2>1. CASE r = e.replica
    BY <1>3, <1>4, <2>1 DEF Untouched
  <2>2. CASE r # e.replica
    BY <1>4, <1>5, <2>2
  <2> QED
    BY <2>1, <2>2
<1> QED
  BY <1>6, <1>7

\* What it does about stops, without a failure of the runtime.
LEMMA StopSettled ==
    ASSUME TypeOK, WatchInv, Next, "runtime" \notin Faults, NEW w \in Workers,
           Work(StopUnknown(w)) \/ Work(StopContainer(w)) \/ Work(StopGone(w))
    PROVE  WatchStep(w) /\ TellStep(w)
<1> USE DEF Work
<1> DEFINE r == loop[w].replica
<1>1. loop[w].pc = "stop" /\ UNCHANGED <<proc, monitor>>
  BY DEF StopUnknown, StopContainer, StopGone
<1>2. r \in Replicas
  BY <1>1, StopTypes
<1>3. PICK m \in [replica : {r}, from : {"stop"}, state : {"completed"}, container : BOOLEAN],
           then \in Thens : Call(w, m, then)
  BY DEF StopUnknown, StopContainer, StopGone, ReportStop, Thens
<1>4. /\ m.replica = r /\ m.from = "stop" /\ m.state = "completed"
      /\ reports' = reports \cup {m}
      /\ loop'[w] = [pc |-> "call", report |-> m, then |-> then]
  BY <1>3 DEF Call, Send, TypeOK, WorkerTypeOK
<1>5. \A q \in Replicas : ~Starting(w, q) /\ ~Starting(w, q)' /\ (Watched(w, q) => Watched(w, q)')
  BY <1>1, <1>4 DEF Starting, Watched
<1>6. \A q \in Replicas : q # r => container'[w][q] = container[w][q]
  <2>1. UNCHANGED container \/ SetContainer(w, r, "removed")
    BY DEF StopUnknown, StopContainer, StopGone
  <2> HIDE DEF r
  <2> QED
    BY <1>2, <2>1 DEF SetContainer, TypeOK, WorkerTypeOK
<1>7. \/ container'[w][r] \notin {"running", "created"}
      \/ r \in tainted' /\ container'[w][r] = container[w][r]
  <2>1. CASE Work(StopUnknown(w))
    <3>1. BlindStop(r)
      BY <1>1, <1>4, <2>1 DEF BlindStop, StopUnknown
    <3> QED
      BY <1>2, <2>1, <3>1 DEF History, StopUnknown
  <2>2. CASE Work(StopContainer(w)) \/ Work(StopGone(w))
    <3>1. \/ UNCHANGED container /\ container[w][r] \in {"none", "removed"}
          \/ SetContainer(w, r, "removed")
      BY <2>2 DEF StopContainer, StopGone
    <3> HIDE DEF r
    <3> QED
      BY <1>2, <3>1 DEF SetContainer, TypeOK, WorkerTypeOK
  <2> QED
    BY <2>1, <2>2
<1>8. Leaving(w) => Leaving(w)'
  BY <1>1 DEF Leaving
<1>9. m.state # "running"
  BY <1>4
<1> HIDE DEF r
<1> QED
  BY <1>2, <1>4, <1>5, <1>6, <1>7, <1>8, <1>9, EndingWork

\* The loop goes on.
LEMMA ReturnSettled ==
    ASSUME TypeOK, WatchInv, NEW w \in Workers, Return(w)
    PROVE  WatchStep(w) /\ TellStep(w)
<1>1. /\ loop'[w] = Idle /\ loop[w].pc = "call" /\ UNCHANGED <<proc, container, reports>>
  BY DEF Return, TypeOK, WorkerTypeOK
<1>2. loop[w].report.replica \in Replicas
  BY <1>1 DEF TypeOK, WorkerTypeOK, LoopState, Idle, Report
<1>3. \A r \in Replicas : ~Starting(w, r)'
  BY <1>1 DEF Starting, Idle
<1>4. \A r \in Replicas : monitor[w][r] = "waiting" => monitor'[w][r] = "waiting"
  BY <1>2 DEF Return, TypeOK, WorkerTypeOK
<1>5. \A r \in Replicas : Starting(w, r) => monitor'[w][r] = "waiting"
  BY <1>2 DEF Return, TypeOK, WorkerTypeOK, WatchInv, Starting
<1>6. \A r \in Replicas : Watched(w, r) => Watched(w, r)'
  BY <1>4, <1>5 DEF Watched
<1> QED
  BY <1>1, <1>3, <1>6, SilentWork DEF Leaving

\* The process comes up, and goes down; the loop begins to stop a replica.
LEMMA ProcessSettled ==
    ASSUME TypeOK, WatchInv, NEW w \in Workers,
           Listen(w) \/ Cancel(w) \/ Exit(w) \/ Crash(w) \/ BeginStop(w)
    PROVE  WatchStep(w) /\ TellStep(w)
<1>1. UNCHANGED <<container, reports>>
  BY DEF Listen, Cancel, Exit, Crash, Gone, BeginStop
<1>2. CASE Listen(w) \/ Cancel(w)
  <2>1. UNCHANGED <<loop, monitor>>
    BY <1>2 DEF Listen, Cancel
  <2>2. \A r \in Replicas : /\ Starting(w, r)' => loop'[w].then = "monitor"
                            /\ Watched(w, r) => Watched(w, r)'
    BY <2>1 DEF Watched, Starting, WatchInv
  <2>3. Leaving(w) => Leaving(w)'
    BY <1>2 DEF Listen, Cancel, Leaving
  <2> QED
    BY <1>1, <2>2, <2>3, SilentWork
<1>3. CASE Exit(w) \/ Crash(w)
  <2>1. loop'[w] = Idle /\ proc'[w] = "down"
    BY <1>3 DEF Exit, Crash, Gone, TypeOK, WorkerTypeOK
  <2> QED
    BY <1>1, <2>1, SilentWork DEF Leaving, Starting, Idle
<1>4. CASE BeginStop(w)
  <2>1. loop[w] = Idle /\ loop'[w].pc = "stop" /\ UNCHANGED <<proc, monitor>>
    BY <1>4 DEF BeginStop, TakeEvent, TypeOK, WorkerTypeOK
  <2> QED
    BY <1>1, <2>1, SilentWork DEF Leaving, Starting, Watched, Idle
<1> QED
  BY <1>2, <1>3, <1>4

\* A container ends, and its goroutine tells.
LEMMA ContainerSettled ==
    ASSUME TypeOK, WatchInv, "runtime" \notin Faults, NEW w \in Workers, NEW r \in Replicas,
           \/ ContainerExit(w, r) \/ MonitorExit(w, r) \/ MonitorError(w, r)
           \/ MonitorReturn(w, r) \/ MonitorCancel(w, r)
    PROVE  WatchStep(w) /\ TellStep(w)
<1>1. UNCHANGED <<proc, loop>>
  BY DEF ContainerExit, MonitorExit, MonitorError, MonitorReturn, MonitorCancel, MonitorReport
<1>2. \A q \in Replicas : /\ Starting(w, q)' <=> Starting(w, q)
                          /\ Starting(w, q) => loop'[w].then = "monitor"
  BY <1>1 DEF Starting, WatchInv
<1>3. Leaving(w)' <=> Leaving(w)
  BY <1>1 DEF Leaving
<1>4. CASE ContainerExit(w, r)
  <2>1. /\ container[w][r] = "running" /\ container'[w][r] = "exited"
        /\ \A q \in Replicas : q # r => container'[w][q] = container[w][q]
        /\ UNCHANGED <<monitor, reports>>
    BY <1>4 DEF ContainerExit, SetContainer, TypeOK, WorkerTypeOK
  <2>2. \A q \in Replicas : Watched(w, q)' <=> Watched(w, q)
    BY <1>2, <2>1 DEF Watched
  <2>3. WatchStep(w)
    BY <1>2, <1>3, <2>1, <2>2 DEF WatchStep, WatchInv
  <2>4. TellStep(w)
    BY <1>3, <2>1, <2>2 DEF TellStep, WatchInv
  <2> QED
    BY <2>3, <2>4
<1>5. CASE MonitorExit(w, r) \/ MonitorError(w, r)
  <2>1. PICK s \in {"completed", "failed"} : MonitorReport(w, r, s)
    BY <1>5 DEF MonitorExit, MonitorError, ExitState
  <2> DEFINE m == [replica |-> r, from |-> "exit", state |-> s, container |-> TRUE]
  <2>2. /\ reports' = reports \cup {m} /\ m.replica = r /\ m.state # "running"
        /\ \A q \in Replicas : q # r => monitor'[w][q] = monitor[w][q]
    BY <2>1 DEF MonitorReport, Send, TypeOK, WorkerTypeOK
  <2>3. UNCHANGED container /\ container[w][r] \in {"exited", "removed"}
    BY <1>5 DEF MonitorExit, MonitorError
  <2>4. \A q \in Replicas : q # r => (Watched(w, q) => Watched(w, q)')
    BY <1>2, <2>2 DEF Watched
  <2>5. WatchStep(w)
    BY <1>2, <1>3, <2>3, <2>4 DEF WatchStep, WatchInv
  <2>6. TellStep(w)
    BY <2>2, <2>3, <2>4 DEF TellStep
  <2> QED
    BY <2>5, <2>6
<1>6. CASE MonitorReturn(w, r)
  <2>1. \A q \in Replicas : monitor[w][q] = "waiting" => monitor'[w][q] = "waiting"
    BY <1>6 DEF MonitorReturn, TypeOK, WorkerTypeOK
  <2> QED
    BY <1>2, <1>3, <1>6, <2>1, SilentWork DEF MonitorReturn, Watched
<1>7. CASE MonitorCancel(w, r)
  BY <1>1, <1>2, <1>7, SilentWork DEF MonitorCancel, Leaving
<1> QED
  BY <1>4, <1>5, <1>6, <1>7

\* The manager, and the requests to the workers, touch neither loops nor containers.
LEMMA ManagerSettled ==
    ASSUME TypeOK, PlacementInv, OrderInv, EndedInv, WatchInv, AgreeInv,
           "loss" \notin Faults, Next,
           ~ \E w \in Workers : WorkerNext(w) \/ \E r \in Replicas : ContainerNext(w, r)
    PROVE  WatchInv' /\ AgreeInv'
<1> USE DEF Manage, Meet
<1>1. UNCHANGED <<loop, monitor, container>> /\ reports' \subseteq reports
  <2>1. CASE \E r \in Replicas : ScheduleNext(r)
    BY <2>1 DEF ScheduleNext, CreateReplica, PickWorker, NoWorkerAvailable, AssignWorker,
       MarkScheduled, Deploy, DeployRefused, DeployAnswerLost, AcceptDeploy, Accept, workerVars
  <2>2. CASE \E r \in Replicas : StopNext(r)
    BY <2>2 DEF StopNext, StopReplica, BeginRestart, RestartStop, ReplaceReplica, workerVars
  <2>3. CASE \E c \in stopCalls : StopCallNext(c)
    BY <2>3 DEF StopCallNext, StopDelivered, StopRefused, AcceptStop, Accept, workerVars
  <2>4. CASE \E m \in reports : ReportNext(m)
    BY <2>4 DEF ReportNext, ReceiveReport, RejectReport, LoseReport, workerVars
  <2>5. CASE \E h \in handlers : Manage(SaveReport(h))
    BY <2>5 DEF SaveReport, workerVars
  <2>6. CASE \E w \in Workers : RegistryNext(w)
    BY <2>6 DEF RegistryNext, Boot, Register, Join, Heartbeat, HeartbeatRead, Silence, GoStale,
       HeartbeatSave, DetectorRemove, workerVars
  <2>7. CASE Manage(DetectorList) \/ \E o \in orphans : Manage(DetectorMark(o))
    BY <2>7 DEF DetectorList, DetectorMark, workerVars
  <2> QED
    BY <2>1, <2>2, <2>3, <2>4, <2>5, <2>6, <2>7 DEF Next
<1>2. WatchInv'
  BY <1>1, LeavingStays DEF WatchInv, Watched, Starting
<1> QED
  BY <1>1, <1>2, ManagerAgree

\* A step of a worker.
LEMMA WorkerSettled ==
    ASSUME TypeOK, TypeOK', PlacementInv, OrderInv, WatchInv, AgreeInv,
           "runtime" \notin Faults, Next, NEW w \in Workers,
           WorkerNext(w) \/ \E r \in Replicas : ContainerNext(w, r)
    PROVE  WatchInv' /\ AgreeInv'
<1> USE DEF Work
<1>1. WatchStep(w) /\ TellStep(w)
  <2>1. CASE Work(StartContainer(w))
    BY <2>1, StartSettled
  <2>2. ~Work(StartFails(w)) /\ ~Work(StopFails(w))
    BY StartsAtOnce DEF StartFails, StopFails
  <2>3. CASE Work(StopUnknown(w)) \/ Work(StopContainer(w)) \/ Work(StopGone(w))
    BY <2>3, StopSettled
  <2>4. CASE Work(Return(w))
    BY <2>4, ReturnSettled
  <2>5. CASE \/ Work(Listen(w)) \/ Work(Cancel(w)) \/ Work(Exit(w)) \/ Work(Crash(w))
             \/ Work(BeginStop(w))
    BY <2>5, ProcessSettled
  <2>6. CASE \E r \in Replicas : ContainerNext(w, r)
    BY <2>6, ContainerSettled DEF ContainerNext
  <2> QED
    BY <2>1, <2>2, <2>3, <2>4, <2>5, <2>6 DEF WorkerNext
<1>2. UNCHANGED managerVars
  BY DEF WorkerNext, ContainerNext
<1>3. reports \subseteq reports' /\ reports' \subseteq Report
  BY WorkerReports DEF TypeOK, WorkerTypeOK
<1>4. \A m \in reports' : m \in reports \/ AtWorker(w, m.replica)
  BY WorkerTraces, ContainerTraces
<1>5. \A v \in Workers : v # w => /\ proc'[v] = proc[v] /\ loop'[v] = loop[v]
                                  /\ monitor'[v] = monitor[v]
                                  /\ container'[v] = container[v]
  <2>1. CASE WorkerNext(w)
    <3>1. /\ UNCHANGED proc \/ \E x : proc' = [proc EXCEPT ![w] = x]
          /\ UNCHANGED loop \/ \E x : loop' = [loop EXCEPT ![w] = x]
          /\ UNCHANGED monitor \/ (\E x : monitor' = [monitor EXCEPT ![w] = x])
                               \/ (\E x, r : monitor' = [monitor EXCEPT ![w][r] = x])
          /\ UNCHANGED container \/ \E r, x : SetContainer(w, r, x)
      BY <2>1 DEF WorkerNext, Listen, Cancel, Exit, Crash, Gone, StartContainer, StartFails,
         BeginStop, StopUnknown, StopContainer, StopGone, StopFails, Return, ReportStop, Call
    <3> QED
      BY <3>1 DEF SetContainer, TypeOK, WorkerTypeOK
  <2>2. CASE \E r \in Replicas : ContainerNext(w, r)
    <3>1. /\ UNCHANGED <<proc, loop>>
          /\ UNCHANGED monitor \/ \E x, r : monitor' = [monitor EXCEPT ![w][r] = x]
          /\ UNCHANGED container \/ \E r, x : SetContainer(w, r, x)
      BY <2>2 DEF ContainerNext, ContainerExit, MonitorExit, MonitorError, MonitorReturn,
         MonitorCancel, MonitorReport
    <3> QED
      BY <3>1 DEF SetContainer, TypeOK, WorkerTypeOK
  <2> QED
    BY <2>1, <2>2
<1> QED
  BY <1>1, <1>2, <1>3, <1>4, <1>5, WorkSettled

-----------------------------------------------------------------------------
\* SettledInv is inductive

LEMMA InitSettled == Init => SettledInv
<1> SUFFICES ASSUME Init PROVE SettledInv
  OBVIOUS
<1>1. WatchInv
  BY DEF Init, WorkerInit, WatchInv, Starting, Idle
<1>2. RequestInv /\ AgreeInv
  BY DEF Init, ManagerInit, RequestInv, AgreeInv, Live
<1> QED
  BY <1>1, <1>2 DEF SettledInv

LEMMA StutterSettled ==
    ASSUME SettledInv, UNCHANGED vars
    PROVE  SettledInv'
<1> USE DEF vars, managerVars, workerVars, schedVars, SettledInv
<1>1. WatchInv'
  BY DEF WatchInv, Watched, Starting, Leaving
<1>2. RequestInv'
  BY DEF RequestInv, Live, Leaving, Started, Sent, Awaits
<1>3. AgreeInv'
  BY DEF AgreeInv, Live, Leaving, Watched, Starting, Found
<1> QED
  BY <1>1, <1>2, <1>3

\* The record, the reports and the container of a replica agree as SettledInv says,
\* in every reachable state, if nothing fails but workers that stop or die.
THEOREM Settled == (Faults \subseteq {"stop", "crash"}) => (Spec => []SettledInv)
<1> SUFFICES ASSUME Faults \subseteq {"stop", "crash"} PROVE Spec => []SettledInv
  OBVIOUS
<1>1. /\ "timeout" \notin Faults /\ "stale" \notin Faults
      /\ "loss" \notin Faults /\ "runtime" \notin Faults
  OBVIOUS
<1>2. TypeOK /\ TypeOK' /\ PlacementInv /\ OrderInv /\ EndedInv /\ SettledInv /\ [Next]_vars
      => SettledInv'
  <2> SUFFICES ASSUME TypeOK, TypeOK', PlacementInv, OrderInv, EndedInv, SettledInv, Next
               PROVE  SettledInv'
    BY StutterSettled
  <2>1. RequestInv'
    BY <1>1, NextRequest DEF SettledInv
  <2>2. WatchInv' /\ AgreeInv'
    BY <1>1, ManagerSettled, WorkerSettled DEF SettledInv
  <2> QED
    BY <2>1, <2>2 DEF SettledInv
<1>3. Spec => [](TypeOK /\ PlacementInv /\ OrderInv /\ EndedInv)
  BY <1>1, TypeCorrect, Placed, Ordered, Ended, PTL
<1> QED
  BY <1>2, <1>3, InitSettled, PTL DEF Spec

\* If nothing fails but workers that stop or die, a replica about which nothing is
\* on its way is recorded as running exactly if its container runs, at a worker
\* that is up: updateReplicaStatus, scheduleReplica and the worker's handlers keep
\* the two in step, but for the lost updates and blind stops that the history names.
THEOREM SettledAgreesHolds ==
    (Faults \subseteq {"stop", "crash"}) => (Spec => []SettledAgrees)
<1>1. TypeOK /\ PlacementInv /\ OrderInv /\ SettledInv => SettledAgrees
  <2> SUFFICES ASSUME TypeOK, PlacementInv, OrderInv, SettledInv, NEW r \in Replicas,
                      Quiet(r), r \notin tainted, Found(r), NEW w, w = pick[r],
                      w # NoWorker, proc[w] = "up"
               PROVE  store[r].state = "running" <=> container[w][r] = "running"
    BY DEF SettledAgrees, RunsAt
  <2>1. w \in Workers /\ Live(r) /\ ~Leaving(w)
    BY DEF TypeOK, ManagerTypeOK, Live, Leaving
  <2>2. /\ ~Awaits(w, r) /\ ~Starting(w, r)
        /\ monitor[w][r] = "waiting" => container[w][r] = "running"
        /\ \A m \in reports : m.replica # r
    BY <2>1 DEF Quiet, Awaits, InQueue, Starting, InLoop
  <2>3. sched[r] \in {"done", "failed"}
    BY <2>1 DEF Quiet, PlacementInv, ChoiceInv
  <2>4. CASE container[w][r] = "running"
    BY <2>1, <2>2, <2>4 DEF SettledInv, AgreeInv
  <2>5. CASE container[w][r] \in {"exited", "removed"}
    <3>1. ~Watched(w, r)
      BY <2>2, <2>5 DEF Watched
    <3>2. store[r].state \in {"completed", "failed"}
      BY <2>1, <2>2, <2>5, <3>1 DEF SettledInv, AgreeInv
    <3> QED
      BY <2>5, <3>2
  <2>6. CASE container[w][r] = "none"
    BY <2>1, <2>2, <2>3, <2>6 DEF SettledInv, RequestInv
  <2>7. container[w][r] \in {"none", "running", "exited", "removed"}
    BY <2>1 DEF SettledInv, WatchInv, TypeOK, WorkerTypeOK, ContainerStates
  <2> QED
    BY <2>4, <2>5, <2>6, <2>7
<1> SUFFICES ASSUME Faults \subseteq {"stop", "crash"} PROVE Spec => []SettledAgrees
  OBVIOUS
<1>2. "timeout" \notin Faults
  OBVIOUS
<1> QED
  BY <1>1, <1>2, TypeCorrect, Placed, Ordered, Settled, PTL
=============================================================================
