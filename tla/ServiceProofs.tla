--------------------------- MODULE ServiceProofs ---------------------------
(***************************************************************************)
(* How many replicas a service has.                                        *)
(*                                                                         *)
(* One that was stopped or deleted ends up with none that runs.  As long   *)
(* as one runs, somebody who is to stop it is on the way: the argument     *)
(* follows a stop from the command, over the requests it sends, to the     *)
(* worker.                                                                 *)
(*                                                                         *)
(* One that runs never has too many.  The argument follows a pass of the   *)
(* loop: what it has counted stays an upper bound on what there is, while  *)
(* replicas are made, fail and are stopped under its eyes.                 *)
(***************************************************************************)
EXTENDS AppsProofs

-----------------------------------------------------------------------------
\* What becomes of a command.

LEMMA CommandOwn ==
    ASSUME AppsInv, NEW d \in Clients, CommandNext(d), NEW c \in Clients, c # d
    PROVE  cmd'[c] = cmd[c]
<1>1. ASSUME NEW k, Becomes(d, k) PROVE cmd'[c] = cmd[c]
    BY <1>1 DEF Becomes, AppsInv, CommandsOK
<1>2. CASE \/ \E i \in Objects, k \in 0..MaxReplicas, s \in {"same", "bad"} : ScaleService(d, i, k, s)
           \/ \E i \in Objects : Remove(d, i)
           \/ DeleteApp(d)
    BY <1>2 DEF ScaleService, Remove, DeleteApp
<1>3. CASE \/ \E i \in Objects : MarkStopped(d, i) \/ ListReplicas(d, i)
           \/ StopApp(d) \/ AllMarked(d) \/ RestartApp(d) \/ Looked(d)
    BY <1>1, <1>3 DEF MarkStopped, ListReplicas, StopApp, AllMarked, RestartApp, Looked
<1>4. CASE \/ \E f \in File : DeployApp(d, f)
           \/ \E n \in Names : DeployService(d, n)
           \/ \E r \in Replicas : StopFound(d, r) \/ RestartFound(d, r)
           \/ \E s \in Listing : StartService(d, s)
    BY <1>1, <1>4 DEF DeployApp, DeployService, StopFound, RestartFound, StartService
<1> QED BY <1>2, <1>3, <1>4 DEF CommandNext

LEMMA OwnSteps ==
    ASSUME NEW c \in Clients, CommandNext(c), cmd[c] # NoCommand
    PROVE  \/ Runs(c, "mark") /\ (AllMarked(c) \/ \E i \in Objects : MarkStopped(c, i))
           \/ /\ Runs(c, "stop")
              /\ \/ \E i \in Objects : ListReplicas(c, i)
                 \/ \E r \in Replicas : StopFound(c, r)
           \/ \E op \in {"look", "restart", "start", "deploy"} : Runs(c, op)
<1>1. \A kind : ~Issue(c, kind)
    BY DEF Issue
<1>2. CASE \/ \E i \in Objects, k \in 0..MaxReplicas, s \in {"same", "bad"} : ScaleService(c, i, k, s)
           \/ \E i \in Objects : Remove(c, i)
           \/ DeleteApp(c) \/ StopApp(c) \/ RestartApp(c)
           \/ \E f \in File : DeployApp(c, f)
    BY <1>1, <1>2 DEF ScaleService, Remove, DeleteApp, StopApp, RestartApp, DeployApp
<1>3. CASE \/ \E i \in Objects : MarkStopped(c, i) \/ ListReplicas(c, i)
           \/ AllMarked(c) \/ Looked(c)
    BY <1>3 DEF MarkStopped, ListReplicas, AllMarked, Looked
<1>4. CASE \/ \E n \in Names : DeployService(c, n)
           \/ \E r \in Replicas : StopFound(c, r) \/ RestartFound(c, r)
           \/ \E s \in Listing : StartService(c, s)
    BY <1>4 DEF DeployService, StopFound, RestartFound, StartService
<1> QED BY <1>2, <1>3, <1>4 DEF CommandNext

LEMMA OneKind ==
    ASSUME NEW c, NEW op, NEW kind, Runs(c, op), Runs(c, kind)
    PROVE  op = kind
BY DEF Runs

\* A step leaves a command alone, or is one of its own.
LEMMA OwnOrNot ==
    ASSUME AppsInv, Next, NEW c \in Clients
    PROVE  cmd'[c] = cmd[c] \/ CommandNext(c)
<1>1. CASE Users
    BY <1>1, CommandOwn DEF Users
<1> QED BY <1>1 DEF Next, Handlers, Loop, Workers, commandVars

LEMMA MarkSteps ==
    ASSUME AppsInv, Next, NEW c \in Clients, Runs(c, "mark")
    PROVE  \/ cmd'[c] = cmd[c]
           \/ AllMarked(c)
           \/ \E i \in Objects : MarkStopped(c, i)
BY OwnOrNot, OwnSteps, OneKind DEF Runs

LEMMA StopSteps ==
    ASSUME AppsInv, Next, NEW c \in Clients, Runs(c, "stop")
    PROVE  \/ cmd'[c] = cmd[c]
           \/ \E i \in Objects : ListReplicas(c, i)
           \/ \E r \in Replicas : StopFound(c, r)
BY OwnOrNot, OwnSteps, OneKind DEF Runs

\* A command that goes on is what its step says.
LEMMA BecomesThat ==
    ASSUME AppsInv, NEW c \in Clients, NEW k \in Going \cup Sending, Becomes(c, k)
    PROVE  /\ Sent(k) => cmd'[c] = NoCommand
           /\ ~Sent(k) => cmd'[c] = k /\ \A op : k.op = op => Runs(c, op)'
<1>1. k # NoCommand
    BY NoCommandAssumption DEF Going, Sending, Command
<1> QED BY <1>1 DEF Becomes, AppsInv, CommandsOK, Runs

LEMMA BecomesOf ==
    ASSUME AppsInv, NEW c \in Clients, NEW k, Becomes(c, k), NEW op, Runs(c, op)'
    PROVE  cmd'[c] = k /\ k.op = op
BY DEF Becomes, AppsInv, CommandsOK, Runs

\* Only app stop begins with the marking.
LEMMA MarkBegins ==
    ASSUME AppsInv, Next, NEW c \in Clients, ~Runs(c, "mark"), Runs(c, "mark")'
    PROVE  StopApp(c)
<1> USE DEF AppsInv
<1>1. CommandNext(c) /\ cmd'[c] # cmd[c]
    BY OwnOrNot DEF Runs
<1>2. CASE \/ \E i \in Objects, k \in 0..MaxReplicas, s \in {"same", "bad"} : ScaleService(c, i, k, s)
           \/ \E i \in Objects : Remove(c, i)
           \/ DeleteApp(c)
    BY <1>1, <1>2 DEF ScaleService, Remove, DeleteApp
<1>3. CASE \/ \E i \in Objects : MarkStopped(c, i)
           \/ AllMarked(c)
    BY <1>3 DEF MarkStopped, AllMarked
<1>4. ASSUME NEW i \in Objects, ListReplicas(c, i) PROVE FALSE
    <2>1. PICK op \in {"stop", "look"} : Runs(c, op)
        BY <1>4 DEF ListReplicas
    <2>2. [cmd[c] EXCEPT !.ids = @ \ {i}, !.found = @ \cup Live(i)].op = op
        BY <2>1, CommandKinds DEF Runs, Going
    <2> QED BY <1>4, <2>1, <2>2, BecomesOf DEF ListReplicas
<1>5. CASE RestartApp(c)
    BY <1>5, BecomesOf DEF RestartApp, Over
<1>6. CASE Looked(c)
    <2>1. cmd[c] \in Going
        BY <1>6, CommandKinds DEF Looked
    <2>2. /\ [cmd[c] EXCEPT !.op = "restart"].op # "mark"
          /\ [cmd[c] EXCEPT !.op = "start", !.listed = {s \in @ : s.n > 0}].op # "mark"
        BY <2>1 DEF Going
    <2> QED BY <1>6, <2>2, BecomesOf DEF Looked
<1>7. ASSUME NEW f \in File, DeployApp(c, f) PROVE FALSE
    <2>1. [op |-> "deploy", names |-> Names, file |-> f, found |-> {}].op # "mark"
        OBVIOUS
    <2> QED BY <1>7, <2>1, BecomesOf DEF DeployApp
<1>8. ASSUME NEW n \in Names, DeployService(c, n) PROVE FALSE
    <2>1. [cmd[c] EXCEPT !.names = @ \ {n}].op # "mark"
        BY <1>8, CommandKinds DEF DeployService, Sending
    <2> QED BY <1>8, <2>1, BecomesOf DEF DeployService
<1>9. ASSUME NEW r \in Replicas, StopFound(c, r) \/ RestartFound(c, r) PROVE FALSE
    <2>1. PICK op \in {"stop", "restart"} : Runs(c, op)
        BY <1>9 DEF StopFound, RestartFound
    <2>2. [cmd[c] EXCEPT !.found = @ \ {r}].op = op
        BY <2>1, CommandKinds DEF Runs, Going
    <2> QED BY <1>9, <2>1, <2>2, BecomesOf DEF StopFound, RestartFound
<1>10. ASSUME NEW s \in Listing, StartService(c, s) PROVE FALSE
    <2>1. [cmd[c] EXCEPT !.listed = @ \ {s}].op # "mark"
        BY <1>10, CommandKinds DEF StartService, Runs, Going
    <2> QED BY <1>10, <2>1, BecomesOf DEF StartService
<1> QED BY <1>1, <1>2, <1>3, <1>4, <1>5, <1>6, <1>7, <1>8, <1>9, <1>10 DEF CommandNext

-----------------------------------------------------------------------------
\* What becomes of services and of requests.

\* Requests that have an object.
Writes == {q \in requests : q.op \in {"post", "put", "save"}}

\* A step writes no service, ...
NoWrite == UNCHANGED serviceVars /\ \A q \in requests' : q \in requests \/ q.op \notin {"post", "put", "save"}

\* ... makes a new object, or begins an update of one, ...
Posts(c) ==
    \E o \in Objects, n \in Names, f \in File : Post(c, o, n, f.replicas, f.config, f.policy)

Updates(c, i) ==
    \/ \E k, s : s \notin {"running", "stopped"} /\ cmd[c] = NoCommand /\ cmd' = cmd /\ Put(c, i, k, s)
    \/ \E k : Runs(c, "start") /\ ~Runs(c, "mark")' /\ Put(c, i, k, "running")
    \/ MarkStopped(c, i) /\ Put(c, i, OmittedCount, "stopped")

\* ... goes on with one, or deletes a service.
Unstores(q) ==
    /\ q.op \in {"delete", "dropping"} /\ q.todo = {}
    /\ services' = [services EXCEPT ![q.svc] = NoObject] /\ object' = object
    /\ \A p \in requests' : p \in requests \/ p.op \notin {"post", "put", "save"}

LEMMA UserWrites ==
    ASSUME AppsInv, NEW c \in Clients, CommandNext(c)
    PROVE  NoWrite \/ Posts(c) \/ \E i \in Objects : Updates(c, i)
<1> USE DEF AppsInv, servicesVars, Accept
<1>1. ASSUME NEW i \in Objects, NEW k \in 0..MaxReplicas, NEW s \in {"same", "bad"},
             ScaleService(c, i, k, s)
      PROVE  Updates(c, i)
    BY <1>1 DEF ScaleService, Issue, Updates
<1>2. ASSUME NEW s \in Listing, StartService(c, s)
      PROVE  NoWrite \/ Updates(c, s.id)
    <2>1. [cmd[c] EXCEPT !.listed = @ \ {s}].op # "mark"
        BY <1>2, CommandKinds DEF StartService, Runs, Going
    <2>2. ~Runs(c, "mark")'
        BY <1>2, <2>1, BecomesOf DEF StartService
    <2> QED BY <1>2, <2>2 DEF StartService, Updates, NoWrite
<1>3. ASSUME NEW i \in Objects, MarkStopped(c, i) PROVE NoWrite \/ Updates(c, i)
    BY <1>3 DEF MarkStopped, Updates, NoWrite
<1>4. ASSUME NEW n \in Names, DeployService(c, n) PROVE Posts(c)
    <2>1. First(FreeObjects) \subseteq Objects
        BY DEF First, FreeObjects
    <2>2. cmd[c].file \in File
        BY <1>4, CommandKinds DEF DeployService, Sending
    <2> QED BY <1>4, <2>1, <2>2 DEF DeployService, Posts
<1>5. CASE \/ \E i \in Objects : Remove(c, i)
           \/ DeleteApp(c)
           \/ \E r \in Replicas : StopFound(c, r) \/ RestartFound(c, r)
    <2>1. ASSUME NEW r, Restart(c, r) PROVE NoWrite
        BY <2>1 DEF Restart, NoWrite
    <2>2. ASSUME NEW r, StopReplica(r) PROVE NoWrite
        BY <2>2 DEF StopReplica, NoWrite
    <2>3. ASSUME NEW i, Delete(c, i) \/ Drop(c) PROVE NoWrite
        BY <2>3 DEF Delete, Drop, NoWrite
    <2>4. UNCHANGED servicesVars => NoWrite
        BY DEF NoWrite
    <2> QED BY <1>5, <2>1, <2>2, <2>3, <2>4 DEF Remove, DeleteApp, StopFound, RestartFound
<1>6. CASE \/ \E i \in Objects : ListReplicas(c, i)
           \/ StopApp(c) \/ AllMarked(c) \/ RestartApp(c) \/ Looked(c)
           \/ \E f \in File : DeployApp(c, f)
    BY <1>6 DEF ListReplicas, StopApp, AllMarked, RestartApp, Looked, DeployApp, NoWrite
<1>7. \A s \in Listing : s.id \in Objects
    BY DEF Listing
<1> QED BY <1>1, <1>2, <1>3, <1>4, <1>5, <1>6, <1>7 DEF CommandNext

LEMMA HandlerWrites ==
    ASSUME AppsInv, NEW q \in requests, RequestNext(q)
    PROVE  NoWrite \/ PostSave(q) \/ PutState(q) \/ PutSave(q) \/ Unstores(q)
<1> USE DEF AppsInv, ServicesOK, ServicesTypeOK, Finish, Continue
<1>1. CASE \/ PutRejected(q) \/ DropEnd(q) \/ RestartDelete(q) \/ RestartEnd(q)
           \/ \E n \in First(FreeReplicas) : RestartCreate(q, n)
           \/ \E i \in Objects : DropList(q, i)
    BY <1>1 DEF PutRejected, DropEnd, RestartDelete, RestartEnd, RestartCreate, DropList, NoWrite
<1>2. ASSUME NEW r \in Replicas, DeleteStop(q, r) PROVE NoWrite
    <2>1. [q EXCEPT !.todo = @ \ {r}].op = "delete"
        BY <1>2, RequestKinds DEF DeleteStop
    <2> QED BY <1>2, <2>1 DEF DeleteStop, NoWrite
<1>3. ASSUME NEW r \in Replicas, DropReplica(q, r) PROVE NoWrite
    <2>1. [q EXCEPT !.todo = @ \ {r}, !.ran = @ \ {r}].op = "dropping"
        BY <1>3, RequestKinds DEF DropReplica
    <2> QED BY <1>3, <2>1 DEF DropReplica, NoWrite
<1>4. CASE DeleteEnd(q) \/ DropService(q)
    BY <1>4 DEF DeleteEnd, DropService, Unstores
<1> QED BY <1>1, <1>2, <1>3, <1>4 DEF RequestNext

LEMMA LoopWrites == Loop \/ Workers => UNCHANGED serviceVars
<1>1. ASSUME Loop PROVE UNCHANGED serviceVars
    BY <1>1 DEF Loop, Reconcile, Tick, SkipStopped, Begin, ForOneService, Succeeds, Errs,
                FailedRestarted, FailedNotRestarted, ReplicaAdded, ReplicaNotAdded, RolledOne,
                NotRolledOne, DeleteFailed, UndoRestart, UndoAdd, Undo, ScaleUp, RestartFailed,
                StopExcess, RollPassesOver, RollOne, servicesVars
<1>2. ASSUME Workers PROVE UNCHANGED serviceVars
    BY <1>2 DEF Workers, WorkerNext, StopDone, End
<1> QED BY <1>1, <1>2

LEMMA WriteSteps ==
    ASSUME AppsInv, Next
    PROVE  \/ NoWrite
           \/ \E c \in Clients : Posts(c) \/ \E i \in Objects : Updates(c, i)
           \/ /\ cmd' = cmd
              /\ \E q \in requests : PostSave(q) \/ PutState(q) \/ PutSave(q) \/ Unstores(q)
<1>1. CASE Users
    BY <1>1, UserWrites DEF Users
<1>2. CASE Handlers
    BY <1>2, HandlerWrites DEF Handlers, commandVars
<1>3. CASE Loop \/ Workers
    BY <1>3, LoopWrites, LoopRequests DEF NoWrite
<1> QED BY <1>1, <1>2, <1>3 DEF Next

-----------------------------------------------------------------------------
\* A posted object is not stored yet, and nobody else has it: it is as it was made.
PostsAlone ==
    \A q \in requests : q.op = "post" =>
        /\ object[q.obj].state = "running"
        /\ \A i \in Stored : services[i] # q.obj
        /\ \A p \in requests : p.op \in {"post", "put", "save"} /\ p.obj = q.obj => p = q

LEMMA PostsAloneStep ==
    ASSUME AppsInv, PostsAlone, Next
    PROVE  PostsAlone'
<1> USE DEF AppsInv, ServicesOK
<1>0. \A q \in requests : q.op \in {"post", "put", "save"} => q.obj \in Made /\ object[q.obj] # NoService
    BY MadeOnce DEF RequestsOK
<1>1. CASE NoWrite
    BY <1>1 DEF NoWrite, PostsAlone, Stored, serviceVars
<1>2. ASSUME NEW c \in Clients, Posts(c) PROVE PostsAlone'
    <2>1. PICK o \in Objects, n \in Names, f \in File :
               Post(c, o, n, f.replicas, f.config, f.policy)
        BY <1>2 DEF Posts
    <2> DEFINE q == [by |-> c, op |-> "post", obj |-> o]
    <2>2. object'[o].state = "running" /\ \A m \in Objects : m # o => object'[m] = object[m]
        BY <2>1 DEF Post, ServicesTypeOK
    <2>3. requests' = requests \cup {q} /\ object[o] = NoService /\ services' = services
        BY <2>1 DEF Post, Accept
    <2>4. \A i \in Stored : services[i] # o
        BY <2>3, MadeOnce DEF StoreOK
    <2>5. \A m \in requests : m.op \in {"post", "put", "save"} => m.obj # o /\ m.obj \in Objects
        BY <1>0, <2>3 DEF Made
    <2> QED BY <2>2, <2>3, <2>4, <2>5 DEF PostsAlone, Stored
<1>3. ASSUME NEW c \in Clients, NEW i \in Objects, Updates(c, i) PROVE PostsAlone'
    <2>1. PICK k, s : Put(c, i, k, s)
        BY <1>3 DEF Updates
    <2> DEFINE q == [by |-> c, op |-> "put", obj |-> services[i], state |-> s]
    <2>2. /\ object' = [object EXCEPT ![services[i]].replicas = k] /\ services' = services
          /\ requests' = requests \cup {q} /\ i \in Stored /\ q.op = "put" /\ q.obj = services[i]
        BY <2>1 DEF Put, Accept
    <2>3. \A m \in Objects : m # services[i] => object'[m] = object[m]
        BY <2>2 DEF ServicesTypeOK
    <2>4. \A m \in requests : m.op = "post" => m.obj # services[i] /\ m.obj \in Objects
        BY <1>0, <2>2 DEF PostsAlone, Made
    <2> HIDE DEF q
    <2> QED BY <2>2, <2>3, <2>4 DEF PostsAlone, Stored
<1>4. ASSUME NEW q \in requests, PostSave(q) \/ PutSave(q) PROVE PostsAlone'
    <2>1. /\ q.op \in {"post", "save"} /\ object' = object /\ requests' = requests \ {q}
          /\ services' = [services EXCEPT ![object[q.obj].id] = q.obj]
        BY <1>4 DEF PostSave, PutSave, Save, Finish
    <2>2. \A i \in Stored' : services'[i] = q.obj \/ (i \in Stored /\ services'[i] = services[i])
        BY <2>1 DEF Stored, ServicesTypeOK
    <2> QED BY <2>1, <2>2 DEF PostsAlone
<1>5. ASSUME NEW q \in requests, PutState(q) PROVE PostsAlone'
    <2> DEFINE p == [by |-> q.by, op |-> "save", obj |-> q.obj]
    <2>1. /\ q.op = "put" /\ services' = services /\ requests' = (requests \ {q}) \cup {p}
          /\ p.op = "save" /\ p.obj = q.obj
        BY <1>5 DEF PutState, Continue
    <2>2. \A m \in Objects : m # q.obj => object'[m] = object[m]
        BY <1>5 DEF PutState, ServicesTypeOK
    <2>3. \A m \in requests : m.op = "post" => m.obj # q.obj /\ m.obj \in Objects
        BY <1>0, <2>1 DEF PostsAlone, Made
    <2> HIDE DEF p
    <2> QED BY <2>1, <2>2, <2>3 DEF PostsAlone, Stored
<1>6. ASSUME NEW q \in requests, Unstores(q) PROVE PostsAlone'
    <2>1. \A i \in Stored' : i \in Stored /\ services'[i] = services[i]
        BY <1>6 DEF Unstores, Stored, ServicesTypeOK
    <2> QED BY <1>6, <2>1 DEF Unstores, PostsAlone
<1> QED BY <1>1, <1>2, <1>3, <1>4, <1>5, <1>6, WriteSteps

\* Whoever sets a service to stopped is an app stop, which will stop its replicas.
Marking(c, i) == Runs(c, "mark") /\ i \in Ids(cmd[c].listed)

MarksKnown ==
    /\ \A q \in requests :
        /\ q.op \in {"put", "save"} /\ Runs(q.by, "mark") => Marking(q.by, object[q.obj].id)
        /\ q.op = "put" /\ q.state = "stopped" => Runs(q.by, "mark")
    /\ \A c \in Clients : Runs(c, "mark") => cmd[c].ids \subseteq Ids(cmd[c].listed)

\* The marking waits for its requests, and goes on to stop what it lists.
LEMMA WaitingMarks ==
    ASSUME AppsInv, Next, NEW q \in requests, q.by \in Clients
    PROVE  /\ Runs(q.by, "mark") => cmd'[q.by] = cmd[q.by]
           /\ Runs(q.by, "mark")' => Runs(q.by, "mark")
<1>1. Waiting(q.by)
    BY DEF Waiting
<1> QED BY <1>1, MarkSteps, MarkBegins DEF AllMarked, MarkStopped, StopApp, Issue

LEMMA MarkGoesOn ==
    ASSUME AppsInv, NEW c \in Clients, NEW i \in Objects, MarkStopped(c, i)
    PROVE  /\ Runs(c, "mark") /\ Runs(c, "mark")'
           /\ cmd'[c].listed = cmd[c].listed /\ cmd'[c].ids = cmd[c].ids \ {i} /\ i \in cmd[c].ids
<1> DEFINE k == [cmd[c] EXCEPT !.ids = @ \ {i}]
<1>1. cmd[c] \in Going /\ cmd[c].op = "mark"
    BY CommandKinds DEF MarkStopped, AppsInv, Runs
<1>2. /\ k \in Going /\ k.op = "mark" /\ k.listed = cmd[c].listed /\ k.ids = cmd[c].ids \ {i}
      /\ ~Sent(k)
    BY <1>1 DEF Going, Sent
<1>3. Becomes(c, k)
    BY DEF MarkStopped
<1> HIDE DEF k
<1> QED BY <1>2, <1>3, BecomesThat DEF MarkStopped

LEMMA MarkedAll ==
    ASSUME AppsInv, NEW c \in Clients, AllMarked(c)
    PROVE  /\ Runs(c, "mark") /\ ~Runs(c, "mark")'
           /\ cmd[c].listed # {} => Runs(c, "stop")' /\ cmd'[c].ids = Ids(cmd[c].listed)
<1> DEFINE k == [cmd[c] EXCEPT !.op = "stop", !.ids = {s.id : s \in cmd[c].listed}]
<1>1. cmd[c] \in Going
    BY CommandKinds DEF AllMarked, AppsInv
<1>2. k.op = "stop" /\ k.ids = Ids(cmd[c].listed)
    BY <1>1 DEF Going, Ids
<1>3. k \in Going
    <2>1. {s.id : s \in cmd[c].listed} \in SUBSET Objects
        BY <1>1 DEF Going, Listing
    <2> QED BY <1>1, <2>1, CommandChanges
<1>4. Becomes(c, k) /\ Runs(c, "mark")
    BY DEF AllMarked
<1>5. cmd[c].listed # {} => ~Sent(k)
    BY <1>2 DEF Sent, Ids
<1> HIDE DEF k
<1>6. ~Runs(c, "mark")'
    BY <1>2, <1>4, BecomesOf
<1> QED BY <1>2, <1>3, <1>4, <1>5, <1>6, BecomesThat

LEMMA MarksKnownStep ==
    ASSUME AppsInv, MarksKnown, Next
    PROVE  MarksKnown'
<1> USE DEF AppsInv, ServicesOK
<1>0. MadeStays /\ \A q \in requests : q.by \in Clients
    BY AppsStep, RequestKinds DEF ServicesTypeOK
<1> DEFINE Known(q) ==
        /\ q.op \in {"put", "save"} /\ Runs(q.by, "mark")'
           => Marking(q.by, object[q.obj].id)'
        /\ q.op = "put" /\ q.state = "stopped" => Runs(q.by, "mark")'
<1>1. ASSUME NEW q \in requests PROVE Known(q)
    <2>1. /\ Runs(q.by, "mark") => cmd'[q.by] = cmd[q.by]
          /\ Runs(q.by, "mark")' => Runs(q.by, "mark")
        BY <1>0, <1>1, WaitingMarks
    <2>2. q.op \in {"put", "save"} => object'[q.obj].id = object[q.obj].id
        BY <1>0 DEF RequestsOK, MadeStays
    <2> QED BY <2>1, <2>2 DEF MarksKnown, Marking, Runs
<1>2. ASSUME NEW c \in Clients, NEW i \in Objects, Updates(c, i), NEW q \in requests', q \notin requests
      PROVE  Known(q)
    <2>1. CASE \E k, s : /\ s \notin {"running", "stopped"} /\ cmd[c] = NoCommand /\ cmd' = cmd
                         /\ Put(c, i, k, s)
        BY <1>2, <2>1 DEF Put, Accept, Runs
    <2>2. CASE \E k : Runs(c, "start") /\ ~Runs(c, "mark")' /\ Put(c, i, k, "running")
        BY <1>2, <2>2 DEF Put, Accept
    <2>3. CASE MarkStopped(c, i) /\ Put(c, i, OmittedCount, "stopped")
        <3>1. /\ i \in Stored /\ q.by = c /\ q.obj = services[i]
            BY <1>2, <2>3 DEF Put, Accept
        <3>2. object'[q.obj].id = i
            BY <1>0, <3>1 DEF StoreOK, MadeStays
        <3>3. i \in Ids(cmd[c].listed)
            BY <2>3, MarkGoesOn DEF MarksKnown
        <3> QED BY <2>3, <3>1, <3>2, <3>3, MarkGoesOn DEF Marking
    <2> QED BY <1>2, <2>1, <2>2, <2>3 DEF Updates
<1>3. ASSUME NEW p \in requests, PutState(p), cmd' = cmd, NEW q \in requests', q \notin requests
      PROVE  Known(q)
    <2>1. q = [by |-> p.by, op |-> "save", obj |-> p.obj] /\ p.op = "put"
        BY <1>3 DEF PutState, Continue
    <2>2. q.op = "save" /\ q.by = p.by /\ q.obj = p.obj
        BY <2>1
    <2>3. object'[p.obj].id = object[p.obj].id
        BY <1>0, <2>1 DEF RequestsOK, MadeStays
    <2> QED BY <1>3, <2>1, <2>2, <2>3 DEF MarksKnown, Marking, Runs
<1>4. ASSUME NEW q \in requests', q \notin requests PROVE Known(q)
    <2>1. CASE NoWrite \/ \E p \in requests : Unstores(p)
        BY <1>4, <2>1 DEF NoWrite, Unstores
    <2>2. CASE \E c \in Clients : Posts(c)
        BY <1>4, <2>2 DEF Posts, Post, Accept
    <2>3. CASE \E p \in requests : PostSave(p) \/ PutSave(p)
        BY <1>4, <2>3 DEF PostSave, PutSave, Save, Finish
    <2> QED BY <1>2, <1>3, <1>4, <2>1, <2>2, <2>3, WriteSteps
<1>5. ASSUME NEW c \in Clients, Runs(c, "mark")' PROVE cmd'[c].ids \subseteq Ids(cmd'[c].listed)
    <2>1. CASE ~Runs(c, "mark")
        <3>1. Becomes(c, Over("mark"))
            BY <1>5, <2>1, MarkBegins DEF StopApp
        <3>2. cmd'[c] = Over("mark")
            BY <1>5, <3>1, BecomesOf
        <3>3. Stored \subseteq Ids(List)
            <4> SUFFICES ASSUME NEW i \in Stored PROVE i \in Ids(List)
                OBVIOUS
            <4> DEFINE s == [id |-> i, n |-> object[services[i]].replicas]
            <4>1. s \in List /\ s.id = i
                BY DEF List
            <4> QED BY <4>1 DEF Ids
        <3> QED BY <3>2, <3>3 DEF Over
    <2>2. CASE Runs(c, "mark")
        BY <1>5, <2>2, MarkSteps, MarkGoesOn, MarkedAll DEF MarksKnown
    <2> QED BY <2>1, <2>2
<1>6. \A q \in requests' : Known(q)
    BY <1>1, <1>4
<1> QED BY <1>5, <1>6 DEF MarksKnown

-----------------------------------------------------------------------------
\* Who makes replicas run, and for which service.

\* The replica that the loop is creating is one of the service at hand.
JobsOfService == Busy => \A j \in pass.job : j.record.service = object[pass.svc].id

LEMMA JobsOfServiceStep ==
    ASSUME AppsInv, JobsOfService, Next
    PROVE  JobsOfService'
<1> SUFFICES ASSUME Busy', NEW j \in pass'.job PROVE j.record.service = object'[pass'.svc].id
    BY DEF JobsOfService
<1>0. Busy => object'[pass.svc].id = object[pass.svc].id
    BY AppsStep DEF MadeStays, AppsInv, PassOK, Busy
<1>1. CASE pass' = pass
    BY <1>0, <1>1 DEF JobsOfService, Busy
<1>2. CASE Begins
    BY <1>2 DEF Begins
<1>3. CASE GoesForth \/ Awaits
    BY <1>0, <1>3 DEF GoesForth, Awaits, JobsOfService, Busy, Scheduling
<1>4. CASE Creates
    BY <1>0, <1>4 DEF Creates, NewJob
<1> QED BY <1>1, <1>2, <1>3, <1>4, PassSteps, OthersKeepPass

\* A replica that is recorded as running has a container ...
RunningRuns == \A r \in Replicas : replica[r].state = "running" => r \in containers

\* ... and did so before, or is being launched by somebody.
LEMMA RunningGains ==
    ASSUME AppsInv, JobsInv, RunningRuns, Next, NEW r \in Replicas, replica'[r].state = "running"
    PROVE  /\ r \in containers'
           /\ \/ replica'[r] = replica[r]
              \/ \E j \in Active : j.id = r /\ replica'[r].service = j.record.service
<1> DEFINE Goal == /\ r \in containers'
                   /\ \/ replica'[r] = replica[r]
                      \/ \E j \in Active : j.id = r /\ replica'[r].service = j.record.service
<1> USE DEF AppsInv, ServicesOK, ServicesTypeOK, RunningRuns
<1>1. CASE Trims
    BY <1>1 DEF Trims, Absent
<1>2. ASSUME NEW n \in FreeReplicas, Makes(n) PROVE Goal
    BY <1>2 DEF Makes, JobsInv, PendingRecords
<1>3. ASSUME NEW j \in Active, Schedules(j) PROVE Goal
    <2>1. j \in Job
        BY ActiveJobs
    <2>2. CASE r # j.id
        BY <1>3, <2>1, <2>2, ScheduleEffect
    <2>3. CASE r = j.id
        <3>1. replica[r] \in {Absent, j.record} /\ replica[r].state # "running"
            BY <2>3 DEF JobsInv, AllFresh, Fresh, Absent
        <3>2. ~Refused
            BY <3>1 DEF Refused, replicaVars
        <3>3. CASE Launched(j)
            <4>1. replica'[r] = [j.record EXCEPT !.state = "running"]
                BY <2>3, <3>3 DEF Launched
            <4>2. replica'[r].service = j.record.service
                BY <2>1, <4>1 DEF Job, Record
            <4> QED BY <2>3, <3>3, <4>2 DEF Launched
        <3>4. CASE AnswerLost(j)
            <4>1. replica[r] = j.record /\ replica'[r] = [j.record EXCEPT !.state = "running"]
                BY <2>3, <3>1, <3>4 DEF AnswerLost
            <4>2. replica'[r].service = j.record.service
                BY <2>1, <4>1 DEF Job, Record
            <4> QED BY <2>3, <3>4, <4>2 DEF AnswerLost
        <3> QED BY <1>3, <3>2, <3>3, <3>4 DEF Schedules
    <2> QED BY <2>2, <2>3
<1>4. ASSUME NEW s \in Replicas, StopDone(s) PROVE Goal
    <2>1. replica[s] \in Record => [replica[s] EXCEPT !.state = "completed"].state = "completed"
        BY DEF Record
    <2> QED BY <1>4, <2>1 DEF StopDone, Absent
<1>5. ASSUME NEW s \in Replicas, NEW how \in {"completed", "failed"}, End(s, how) PROVE Goal
    <2>1. replica[s] \in Record => [replica[s] EXCEPT !.state = how].state = how
        BY DEF Record
    <2> QED BY <1>5, <2>1 DEF End, Absent
<1> QED BY <1>1, <1>2, <1>3, <1>4, <1>5, StoreSteps

LEMMA ActiveBusy ==
    ASSUME JobsOfService, NEW j \in Active
    PROVE  BusyOn(j.record.service)
BY DEF Active, JobsOfService, BusyOn, Busy, Scheduling

\* Somebody may be creating replicas of a service that is to have none: that is
\* what the race is.
RacesKnown == \A i \in Objects : Leaving(i) /\ BusyOn(i) => i \in raced

LEMMA RacesKnownStep ==
    ASSUME AppsInv, RacesKnown, Next, History
    PROVE  RacesKnown'
<1> SUFFICES ASSUME NEW i \in Objects, Leaving(i)', BusyOn(i)' PROVE i \in raced'
    BY DEF RacesKnown
<1>1. ASSUME Busy', ~Busy PROVE object[pass'.svc].state = "running"
    BY <1>1, PassSteps, OthersKeepPass DEF Begins, GoesForth, Creates, Awaits, Busy, Scheduling
<1>2. CASE i \in raced
    BY <1>2 DEF History
<1>3. CASE ~Leaving(i) \/ ~BusyOn(i)
    <2>1. Races(i)
        BY <1>1, <1>3 DEF Races
    <2> QED BY <2>1 DEF History
<1> QED BY <1>2, <1>3 DEF RacesKnown

-----------------------------------------------------------------------------
\* Whoever is on the way to stopping a replica stays so until a worker has been told.

LEMMA Removed ==
    ASSUME Next, NEW q \in requests, q \notin requests'
    PROVE  RequestNext(q)
<1>1. ASSUME NEW c \in Clients, CommandNext(c) PROVE FALSE
    <2> USE DEF Accept, servicesVars
    <2>1. CASE \/ \E i \in Objects, k \in 0..MaxReplicas, s \in {"same", "bad"} : ScaleService(c, i, k, s)
               \/ \E i \in Objects : Remove(c, i) \/ MarkStopped(c, i) \/ ListReplicas(c, i)
        BY <2>1 DEF ScaleService, Remove, MarkStopped, ListReplicas, Put, Delete
    <2>2. CASE DeleteApp(c) \/ StopApp(c) \/ AllMarked(c) \/ RestartApp(c) \/ Looked(c)
        BY <2>2 DEF DeleteApp, StopApp, AllMarked, RestartApp, Looked, Drop
    <2>3. CASE \/ \E f \in File : DeployApp(c, f)
               \/ \E n \in Names : DeployService(c, n)
               \/ \E s \in Listing : StartService(c, s)
        BY <2>3 DEF DeployApp, DeployService, StartService, Post, Put
    <2>4. CASE \E r \in Replicas : StopFound(c, r) \/ RestartFound(c, r)
        BY <2>4 DEF StopFound, RestartFound, StopReplica, Restart
    <2> QED BY <1>1, <2>1, <2>2, <2>3, <2>4 DEF CommandNext
<1>2. ASSUME NEW m \in requests, RequestNext(m) PROVE m = q
    BY <1>2 DEF RequestNext, PostSave, PutRejected, PutState, PutSave, Save, DeleteEnd, DropService,
                DropEnd, DropList, DeleteStop, DropReplica, RestartDelete, RestartEnd, RestartCreate,
                Finish, Continue
<1> QED BY <1>1, <1>2, LoopRequests DEF Next, Users, Handlers

LEMMA DeletersGoOn ==
    ASSUME AppsInv, Next, NEW q \in requests, q.op \in {"delete", "dropping"}, NEW r \in q.todo,
           r \in Replicas, replica[r].state = "running", replica'[r].state = "running"
    PROVE  \/ r \in stopping'
           \/ \E p \in requests' : p.op \in {"delete", "dropping"} /\ p.svc = q.svc /\ r \in p.todo
<1> DEFINE Goal == \/ r \in stopping'
                   \/ \E p \in requests' : /\ p.op \in {"delete", "dropping"} /\ p.svc = q.svc
                                           /\ r \in p.todo
<1> USE DEF AppsInv, ServicesOK, ServicesTypeOK
<1> SUFFICES ASSUME q \notin requests' PROVE Goal
    OBVIOUS
<1>1. RequestNext(q)
    BY Removed
<1>2. ASSUME NEW s \in Replicas, DeleteStop(q, s) PROVE Goal
    <2> DEFINE p == [q EXCEPT !.todo = @ \ {s}]
    <2>1. p.op = "delete" /\ p.svc = q.svc /\ p.todo = q.todo \ {s}
        BY <1>2, RequestKinds DEF DeleteStop
    <2>2. p \in requests' /\ stopping' = stopping \cup Stops(s)
        BY <1>2 DEF DeleteStop, Continue
    <2> HIDE DEF p
    <2> QED BY <2>1, <2>2 DEF Stops
<1>3. ASSUME NEW s \in Replicas, DropReplica(q, s) PROVE Goal
    <2> DEFINE p == [q EXCEPT !.todo = @ \ {s}, !.ran = @ \ {s}]
    <2>1. p.op = "dropping" /\ p.svc = q.svc /\ p.todo = q.todo \ {s}
        BY <1>3, RequestKinds DEF DropReplica
    <2>2. p \in requests' /\ s # r
        BY <1>3 DEF DropReplica, Continue, Absent
    <2> HIDE DEF p
    <2> QED BY <2>1, <2>2
<1> QED BY <1>1, <1>2, <1>3
        DEF RequestNext, PostSave, PutRejected, PutState, PutSave, Save, DeleteEnd, DropService,
            DropEnd, DropList, RestartDelete, RestartEnd, RestartCreate

\* The command lists the replica, or has yet to list the service's.
Stopping(c, i, r) == Runs(c, "stop") /\ (i \in cmd[c].ids \/ r \in cmd[c].found)

LEMMA ListingGoesOn ==
    ASSUME AppsInv, NEW c \in Clients, NEW i \in Objects, NEW r \in InState(i, "running"),
           Stopping(c, i, r), NEW m \in Objects, ListReplicas(c, m)
    PROVE  Stopping(c, i, r)'
<1> DEFINE k == [cmd[c] EXCEPT !.ids = @ \ {m}, !.found = @ \cup Live(m)]
<1>1. cmd[c] \in Going /\ cmd[c].op = "stop"
    BY CommandKinds DEF Stopping, AppsInv, Runs
<1>2. Live(m) \subseteq Replicas
    BY DEF Live, InState, Of
<1>3. k \in Going
    BY <1>1, <1>2, CommandChanges DEF Going
<1>4. k.op = "stop" /\ k.ids = cmd[c].ids \ {m} /\ k.found = cmd[c].found \cup Live(m)
    BY <1>1 DEF Going
<1>5. i \in k.ids \/ r \in k.found
    BY <1>4 DEF Stopping, Live
<1>6. Becomes(c, k) /\ ~Sent(k)
    BY <1>4, <1>5 DEF ListReplicas, Sent
<1> HIDE DEF k
<1> QED BY <1>3, <1>4, <1>5, <1>6, BecomesThat DEF Stopping

LEMMA StoppingGoesOn ==
    ASSUME AppsInv, NEW c \in Clients, NEW i, NEW r, Stopping(c, i, r), replica[r].state = "running",
           NEW s \in Replicas, StopFound(c, s)
    PROVE  Stopping(c, i, r)' \/ r \in stopping'
<1> DEFINE k == [cmd[c] EXCEPT !.found = @ \ {s}]
<1>1. cmd[c] \in Going /\ cmd[c].op = "stop" /\ cmd[c].ids = {} /\ r \in cmd[c].found
    BY CommandKinds DEF Stopping, StopFound, AppsInv, Runs
<1>2. k \in Going /\ k.op = "stop" /\ k.found = cmd[c].found \ {s}
    BY <1>1, CommandChanges DEF Going
<1>3. CASE s = r
    BY <1>3 DEF StopFound, StopReplica, Stops
<1>4. CASE s # r
    <2>1. Becomes(c, k) /\ ~Sent(k)
        BY <1>1, <1>2, <1>4 DEF StopFound, Sent
    <2> HIDE DEF k
    <2> QED BY <1>1, <1>2, <1>4, <2>1, BecomesThat DEF Stopping
<1> QED BY <1>3, <1>4

LEMMA CommandsGoOn ==
    ASSUME AppsInv, Next, NEW c \in Clients, NEW i \in Objects, NEW r \in InState(i, "running"),
           Marking(c, i) \/ Stopping(c, i, r)
    PROVE  Marking(c, i)' \/ Stopping(c, i, r)' \/ r \in stopping'
<1>1. CASE cmd'[c] = cmd[c]
    BY <1>1 DEF Marking, Stopping, Runs
<1>2. CASE Marking(c, i) /\ AllMarked(c)
    BY <1>2, MarkedAll DEF Marking, Stopping, Ids
<1>3. ASSUME NEW m \in Objects, MarkStopped(c, m), Marking(c, i) PROVE Marking(c, i)'
    BY <1>3, MarkGoesOn DEF Marking
<1>4. ASSUME NEW m \in Objects, ListReplicas(c, m), Stopping(c, i, r) PROVE Stopping(c, i, r)'
    BY <1>4, ListingGoesOn
<1>5. ASSUME NEW s \in Replicas, StopFound(c, s), Stopping(c, i, r)
      PROVE  Stopping(c, i, r)' \/ r \in stopping'
    BY <1>5, StoppingGoesOn DEF InState
<1>6. CASE Marking(c, i)
    BY <1>1, <1>2, <1>3, <1>6, MarkSteps DEF Marking
<1>7. CASE Stopping(c, i, r)
    BY <1>1, <1>4, <1>5, <1>7, StopSteps DEF Stopping
<1> QED BY <1>6, <1>7

\* A running replica of a service that is to have none will be stopped: a worker
\* was told, a deletion has it listed, or a command is on the way.
Covered(i, r) ==
    \/ r \in stopping
    \/ \E q \in requests : q.op \in {"delete", "dropping"} /\ q.svc = i /\ r \in q.todo
    \/ \E c \in Clients : Marking(c, i) \/ Stopping(c, i, r)

AllCovered ==
    \A i \in Objects \ raced : Leaving(i) => \A r \in InState(i, "running") : Covered(i, r)

LEMMA CoveredStays ==
    ASSUME AppsInv, Next, NEW i \in Objects, NEW r \in InState(i, "running"), Covered(i, r),
           r \in containers', replica'[r].state = "running"
    PROVE  Covered(i, r)'
<1>1. r \in Replicas /\ replica[r].state = "running"
    BY DEF InState, Of
<1>2. CASE r \in stopping
    BY <1>2, StopsStay DEF Covered
<1>3. ASSUME NEW q \in requests, q.op \in {"delete", "dropping"}, q.svc = i, r \in q.todo
      PROVE  Covered(i, r)'
    BY <1>1, <1>3, DeletersGoOn DEF Covered
<1>4. ASSUME NEW c \in Clients, Marking(c, i) \/ Stopping(c, i, r) PROVE Covered(i, r)'
    BY <1>4, CommandsGoOn DEF Covered
<1> QED BY <1>2, <1>3, <1>4 DEF Covered

-----------------------------------------------------------------------------
\* A service is switched off by somebody who is to stop its replicas.

LEMMA NewDeleters ==
    ASSUME AppsInv, Next, NEW p \in requests', p.op \in {"delete", "dropping"},
           \A q \in requests : q.op \in {"delete", "dropping"} => q.svc # p.svc
    PROVE  InState(p.svc, "running") \subseteq p.todo /\ replica' = replica
<1> DEFINE Goal == InState(p.svc, "running") \subseteq p.todo /\ replica' = replica
<1> USE DEF AppsInv, ServicesOK, ServicesTypeOK, replicaVars
<1>0. p \notin requests
    OBVIOUS
<1>1. ASSUME NEW c \in Clients, CommandNext(c) PROVE Goal
    <2> USE DEF Accept, servicesVars
    <2>0. ASSUME NEW m, NEW o, NEW n, NEW k, NEW s, NEW t, Put(c, m, k, s) \/ Post(c, o, n, k, s, t)
          PROVE  FALSE
        BY <1>0, <2>0 DEF Put, Post
    <2>1. CASE \E i \in Objects : Remove(c, i)
        BY <1>0, <2>1 DEF Remove, Delete
    <2>2. CASE \/ \E i \in Objects, k \in 0..MaxReplicas, s \in {"same", "bad"} : ScaleService(c, i, k, s)
               \/ \E i \in Objects : MarkStopped(c, i) \/ ListReplicas(c, i)
        BY <1>0, <2>0, <2>2 DEF ScaleService, MarkStopped, ListReplicas
    <2>3. CASE DeleteApp(c) \/ StopApp(c) \/ AllMarked(c) \/ RestartApp(c) \/ Looked(c)
        BY <1>0, <2>3 DEF DeleteApp, StopApp, AllMarked, RestartApp, Looked, Drop
    <2>4. CASE \/ \E f \in File : DeployApp(c, f)
               \/ \E n \in Names : DeployService(c, n)
               \/ \E s \in Listing : StartService(c, s)
        BY <1>0, <2>0, <2>4 DEF DeployApp, DeployService, StartService
    <2>5. CASE \E r \in Replicas : StopFound(c, r) \/ RestartFound(c, r)
        BY <1>0, <2>5 DEF StopFound, RestartFound, StopReplica, Restart
    <2> QED BY <1>1, <2>1, <2>2, <2>3, <2>4, <2>5 DEF CommandNext
<1>2. ASSUME NEW q \in requests, RequestNext(q) PROVE Goal
    <2> USE DEF Finish, Continue
    <2>1. ASSUME NEW i \in Objects, DropList(q, i) PROVE Goal
        BY <1>0, <2>1 DEF DropList, InState
    <2>2. ASSUME NEW r \in Replicas, DeleteStop(q, r) PROVE FALSE
        <3>1. [q EXCEPT !.todo = @ \ {r}].svc = q.svc
            BY <2>2, RequestKinds DEF DeleteStop
        <3> QED BY <1>0, <2>2, <3>1 DEF DeleteStop
    <2>3. ASSUME NEW r \in Replicas, DropReplica(q, r) PROVE FALSE
        <3>1. [q EXCEPT !.todo = @ \ {r}, !.ran = @ \ {r}].svc = q.svc
            BY <2>3, RequestKinds DEF DropReplica
        <3> QED BY <1>0, <2>3, <3>1 DEF DropReplica
    <2>4. CASE PostSave(q) \/ PutRejected(q) \/ PutState(q) \/ PutSave(q)
        BY <1>0, <2>4 DEF PostSave, PutRejected, PutState, PutSave, Save
    <2>5. CASE DeleteEnd(q) \/ DropService(q) \/ DropEnd(q) \/ RestartDelete(q) \/ RestartEnd(q)
        BY <1>0, <2>5 DEF DeleteEnd, DropService, DropEnd, RestartDelete, RestartEnd
    <2>6. ASSUME NEW n \in First(FreeReplicas), RestartCreate(q, n) PROVE Goal
        BY <1>0, <2>6 DEF RestartCreate
    <2> QED BY <1>2, <2>1, <2>2, <2>3, <2>4, <2>5, <2>6 DEF RequestNext
<1> QED BY <1>0, <1>1, <1>2, LoopRequests DEF Next, Users, Handlers

\* The others write its object, or take it out of the store.
Off(i) == i \notin Stored \/ object[services[i]].state = "stopped"

LEMMA OffSteps ==
    ASSUME AppsInv, PostsAlone, MarksKnown, Next, History, NEW i \in Objects,
           ~Leaving(i), Leaving(i)', Off(i)', i \notin raced'
    PROVE  \E c \in Clients : Marking(c, i)'
<1> DEFINE Goal == \E c \in Clients : Marking(c, i)'
<1> USE DEF AppsInv, ServicesOK
<1>0. /\ ~Off(i) /\ services[i] \in Made /\ services[i] \in Objects /\ object[services[i]].id = i
      /\ ~PutsBack(i)
    BY DEF Leaving, Off, StoreOK, Made, History
<1>1. \A q \in requests : q.by \in Clients
    BY RequestKinds DEF ServicesTypeOK
<1>2. ASSUME NEW q \in requests, q.op \in {"put", "save"}, Runs(q.by, "mark"), cmd' = cmd,
             object[q.obj].id = i
      PROVE  Goal
    BY <1>1, <1>2 DEF MarksKnown, Marking, Runs
<1>3. CASE NoWrite
    BY <1>0, <1>3 DEF NoWrite, Off, Stored, serviceVars
<1>4. ASSUME NEW c \in Clients, Posts(c) PROVE FALSE
    <2>1. PICK o \in Objects, n \in Names, f \in File :
               Post(c, o, n, f.replicas, f.config, f.policy)
        BY <1>4 DEF Posts
    <2>2. o # services[i]
        BY <1>0, <2>1, MadeOnce DEF Post
    <2>3. object'[services[i]] = object[services[i]] /\ services' = services
        BY <1>0, <2>1, <2>2 DEF Post, ServicesTypeOK
    <2> QED BY <1>0, <2>3 DEF Off, Stored
<1>5. ASSUME NEW c \in Clients, NEW m \in Objects, Updates(c, m) PROVE FALSE
    <2>1. PICK k, s : Put(c, m, k, s)
        BY <1>5 DEF Updates
    <2>2. object'[services[i]].state = object[services[i]].state /\ services' = services
        BY <1>0, <2>1 DEF Put, ServicesTypeOK, Made, Service
    <2> QED BY <1>0, <2>2 DEF Off, Stored
<1>6. ASSUME NEW q \in requests, PutState(q), cmd' = cmd PROVE Goal
    <2>1. q.op = "put" /\ services' = services /\ q.obj \in Made
        BY <1>6 DEF PutState, RequestsOK
    <2>2. object'[services[i]].state = "stopped"
        BY <1>0, <2>1 DEF Off, Stored
    <2>3. q.obj = services[i] /\ q.state = "stopped"
        BY <1>0, <1>6, <2>1, <2>2 DEF PutState, ServicesTypeOK, Off, Made, Service
    <2> QED BY <1>0, <1>2, <1>6, <2>1, <2>3 DEF MarksKnown
<1>7. ASSUME NEW q \in requests, PostSave(q) \/ PutSave(q), cmd' = cmd PROVE Goal
    <2>1. /\ q.op \in {"post", "save"} /\ object' = object /\ q \notin requests'
          /\ services' = [services EXCEPT ![object[q.obj].id] = q.obj] /\ q.obj \in Objects
        BY <1>7 DEF PostSave, PutSave, Save, Finish, RequestsOK, Made
    <2>2. object[q.obj].id = i
        BY <1>0, <2>1 DEF Off, Stored, ServicesTypeOK
    <2>3. object[q.obj].state = "stopped"
        BY <2>1, <2>2, NoObjectAssumption DEF Off, Stored, ServicesTypeOK
    <2>4. q.op = "save"
        BY <2>1, <2>3 DEF PostsAlone
    <2>5. Runs(q.by, "mark")
        BY <1>0, <2>1, <2>4 DEF PutsBack
    <2> QED BY <1>2, <1>7, <2>2, <2>4, <2>5
<1>8. ASSUME NEW q \in requests, Unstores(q) PROVE FALSE
    <2>1. q.svc # i
        BY <1>8 DEF Unstores, Leaving
    <2>2. services'[i] = services[i] /\ object' = object
        BY <1>8, <2>1 DEF Unstores, ServicesTypeOK
    <2> QED BY <1>0, <2>2 DEF Off, Stored
<1> QED BY <1>3, <1>4, <1>5, <1>6, <1>7, <1>8, WriteSteps

LEMMA AllCoveredStep ==
    ASSUME AppsInv, JobsInv, RunningRuns, JobsOfService, RacesKnown, PostsAlone, MarksKnown,
           AllCovered, Next, History
    PROVE  AllCovered'
<1> SUFFICES ASSUME NEW i \in Objects, i \notin raced', Leaving(i)', NEW r \in InState(i, "running")'
             PROVE  Covered(i, r)'
    BY DEF AllCovered
<1>1. r \in Replicas /\ replica'[r].state = "running" /\ replica'[r] # Absent
      /\ replica'[r].service = i
    BY DEF InState, Of
<1>2. /\ r \in containers'
      /\ r \in InState(i, "running") \/ \E j \in Active : j.record.service = i
    BY <1>1, RunningGains DEF InState, Of
<1>3. CASE Leaving(i)
    <2>1. i \notin raced
        BY <1>3 DEF History
    <2>2. ~BusyOn(i)
        BY <1>3, <2>1 DEF RacesKnown
    <2>3. r \in InState(i, "running")
        BY <1>2, <2>2, ActiveBusy
    <2>4. Covered(i, r)
        BY <1>3, <2>1, <2>3 DEF AllCovered
    <2> QED BY <1>1, <1>2, <2>3, <2>4, CoveredStays
<1>4. CASE ~Leaving(i)
    <2>1. CASE Off(i)'
        BY <1>4, <2>1, OffSteps DEF Covered
    <2>2. CASE ~Off(i)'
        <3>1. PICK p \in requests' : p.op \in {"delete", "dropping"} /\ p.svc = i
            BY <2>2 DEF Leaving, Off
        <3>2. InState(i, "running") \subseteq p.todo /\ replica' = replica
            BY <1>4, <3>1, NewDeleters DEF Leaving
        <3>3. r \in p.todo
            BY <1>1, <3>2 DEF InState, Of
        <3> QED BY <3>1, <3>3 DEF Covered
    <2> QED BY <2>1, <2>2
<1> QED BY <1>3, <1>4

SwitchOffInv ==
    RunningRuns /\ JobsOfService /\ RacesKnown /\ PostsAlone /\ MarksKnown /\ AllCovered

LEMMA SwitchOffStep == AppsInv /\ JobsInv /\ SwitchOffInv /\ [Next]_vars => SwitchOffInv'
<1> SUFFICES ASSUME AppsInv, JobsInv, SwitchOffInv, [Next]_vars PROVE SwitchOffInv'
    OBVIOUS
<1>1. CASE Next
    <2>1. History
        BY <1>1 DEF Next, Users, Handlers, Loop, Workers
    <2>2. RunningRuns'
        BY <1>1, RunningGains DEF RunningRuns, SwitchOffInv
    <2> QED BY <1>1, <2>1, <2>2, JobsOfServiceStep, RacesKnownStep, PostsAloneStep,
               MarksKnownStep, AllCoveredStep
            DEF SwitchOffInv
<1>2. CASE UNCHANGED vars
    <2> USE DEF vars, reconcilerVars, servicesVars, serviceVars, replicaVars, commandVars
    <2>1. RunningRuns' /\ JobsOfService' /\ PostsAlone'
        BY <1>2 DEF SwitchOffInv, RunningRuns, JobsOfService, PostsAlone, Busy, Stored
    <2>2. MarksKnown'
        BY <1>2 DEF SwitchOffInv, MarksKnown, Marking, Runs
    <2>3. \A i \in Objects : Leaving(i)' = Leaving(i) /\ BusyOn(i)' = BusyOn(i) /\ raced' = raced
        BY <1>2 DEF Leaving, BusyOn, Busy, Stored
    <2>4. \A i \in Objects : InState(i, "running")' = InState(i, "running")
        BY <1>2 DEF InState, Of
    <2>5. \A i, r : Covered(i, r) => Covered(i, r)'
        BY <1>2 DEF Covered, Marking, Stopping, Runs
    <2> QED BY <2>1, <2>2, <2>3, <2>4, <2>5 DEF SwitchOffInv, RacesKnown, AllCovered
<1> QED BY <1>1, <1>2

LEMMA SwitchOffInvariant == Spec => [](AppsInv /\ SwitchOffInv)
<1>1. Init => SwitchOffInv
    <2> USE DEF Init, ReconcilerInit, ServicesInit, Idle
    <2>1. Init => RunningRuns /\ JobsOfService /\ PostsAlone /\ AllCovered
        BY DEF RunningRuns, Absent, JobsOfService, Busy, PostsAlone, AllCovered, InState, Of
    <2>2. Init => MarksKnown
        BY DEF MarksKnown, Runs
    <2>3. Init => RacesKnown
        BY DEF RacesKnown, BusyOn, Busy
    <2> QED BY <2>1, <2>2, <2>3 DEF SwitchOffInv
<1> QED BY <1>1, JobsInvariant, SwitchOffStep, PTL DEF Spec

\* When nothing is under way, a service that was stopped or deleted has no running
\* replica, whatever was sent before, unless one of the races the model names
\* switched it off: for any numbers of users, services and replicas, and requests,
\* passes and stops that meet in any order.
THEOREM StoppedStaysStopped == Spec => []OffStaysOff
<1>1. AppsInv /\ SwitchOffInv => OffStaysOff
    <2> SUFFICES ASSUME AppsInv, SwitchOffInv, Quiet, NEW i \in Objects \ raced, ~On(i),
                        NEW r \in InState(i, "running")
                 PROVE  FALSE
        BY DEF OffStaysOff
    <2>1. i \in Stored => object[services[i]].state \in {"running", "stopped"}
        BY DEF AppsInv, ServicesOK, StoreOK, Made, Service
    <2>2. Leaving(i)
        BY <2>1 DEF On, Leaving
    <2>3. Covered(i, r)
        BY <2>2 DEF SwitchOffInv, AllCovered
    <2> QED BY <2>3 DEF Covered, Quiet, Marking, Stopping, Runs
<1> QED BY <1>1, SwitchOffInvariant, PTL

-----------------------------------------------------------------------------
\* Nobody is restarting a replica, where users do not.

NoRestarts ==
    /\ \A q \in requests : q.op \notin {"restart", "replace", "schedule"}
    /\ \A c \in Clients : ~Runs(c, "look") /\ ~Runs(c, "restart")

LEMMA LooksBegin ==
    ASSUME AppsInv, NoRestarts, NEW c \in Clients, CommandNext(c), NEW op \in {"look", "restart"},
           Runs(c, op)'
    PROVE  RestartApp(c)
<1> USE DEF AppsInv
<1>0. cmd'[c] # cmd[c]
    BY DEF NoRestarts, Runs
<1>1. CASE \/ \E i \in Objects, k \in 0..MaxReplicas, s \in {"same", "bad"} : ScaleService(c, i, k, s)
           \/ \E i \in Objects : Remove(c, i)
           \/ DeleteApp(c)
    BY <1>0, <1>1 DEF ScaleService, Remove, DeleteApp
<1>2. ASSUME NEW i \in Objects, MarkStopped(c, i) PROVE FALSE
    <2>1. [cmd[c] EXCEPT !.ids = @ \ {i}].op = "mark"
        BY <1>2, CommandKinds DEF MarkStopped, Runs, Going
    <2> QED BY <1>2, <2>1, BecomesOf DEF MarkStopped
<1>3. ASSUME NEW i \in Objects, ListReplicas(c, i) PROVE FALSE
    <2>1. Runs(c, "stop")
        BY <1>3 DEF ListReplicas, NoRestarts
    <2>2. [cmd[c] EXCEPT !.ids = @ \ {i}, !.found = @ \cup Live(i)].op = "stop"
        BY <2>1, CommandKinds DEF Runs, Going
    <2> QED BY <1>3, <2>2, BecomesOf DEF ListReplicas
<1>4. CASE StopApp(c)
    BY <1>4, BecomesOf DEF StopApp, Over
<1>5. CASE AllMarked(c)
    <2>1. [cmd[c] EXCEPT !.op = "stop", !.ids = {s.id : s \in cmd[c].listed}].op = "stop"
        BY <1>5, CommandKinds DEF AllMarked, Going
    <2> QED BY <1>5, <2>1, BecomesOf DEF AllMarked
<1>6. ASSUME NEW f \in File, DeployApp(c, f) PROVE FALSE
    <2>1. [op |-> "deploy", names |-> Names, file |-> f, found |-> {}].op = "deploy"
        OBVIOUS
    <2> QED BY <1>6, <2>1, BecomesOf DEF DeployApp
<1>7. ASSUME NEW n \in Names, DeployService(c, n) PROVE FALSE
    <2>1. [cmd[c] EXCEPT !.names = @ \ {n}].op = "deploy"
        BY <1>7, CommandKinds DEF DeployService, Sending
    <2> QED BY <1>7, <2>1, BecomesOf DEF DeployService
<1>8. ASSUME NEW r \in Replicas, StopFound(c, r) PROVE FALSE
    <2>1. [cmd[c] EXCEPT !.found = @ \ {r}].op = "stop"
        BY <1>8, CommandKinds DEF StopFound, Runs, Going
    <2> QED BY <1>8, <2>1, BecomesOf DEF StopFound
<1>9. ASSUME NEW s \in Listing, StartService(c, s) PROVE FALSE
    <2>1. [cmd[c] EXCEPT !.listed = @ \ {s}].op = "start"
        BY <1>9, CommandKinds DEF StartService, Runs, Going
    <2> QED BY <1>9, <2>1, BecomesOf DEF StartService
<1> QED BY <1>1, <1>2, <1>3, <1>4, <1>5, <1>6, <1>7, <1>8, <1>9
        DEF CommandNext, NoRestarts, Looked, RestartFound

\* A request to restart a replica is sent by a user's command.
LEMMA RestartsSent ==
    ASSUME AppsInv, NoRestarts, NEW c \in Clients, CommandNext(c), NEW q \in requests', q.op = "restart"
    PROVE  FALSE
<1> USE DEF Accept, servicesVars
<1>0. q \notin requests
    BY DEF NoRestarts
<1>1. ASSUME NEW m, NEW o, NEW n, NEW k, NEW s, NEW t,
             Put(c, m, k, s) \/ Post(c, o, n, k, s, t) \/ Delete(c, m) \/ Drop(c)
      PROVE  FALSE
    BY <1>0, <1>1 DEF Put, Post, Delete, Drop
<1>2. CASE \/ \E i \in Objects, k \in 0..MaxReplicas, s \in {"same", "bad"} : ScaleService(c, i, k, s)
           \/ \E i \in Objects : Remove(c, i) \/ MarkStopped(c, i) \/ ListReplicas(c, i)
    BY <1>0, <1>1, <1>2 DEF ScaleService, Remove, MarkStopped, ListReplicas
<1>3. CASE DeleteApp(c) \/ StopApp(c) \/ AllMarked(c) \/ RestartApp(c)
    BY <1>0, <1>1, <1>3 DEF DeleteApp, StopApp, AllMarked, RestartApp
<1>4. CASE \/ \E f \in File : DeployApp(c, f)
           \/ \E n \in Names : DeployService(c, n)
           \/ \E s \in Listing : StartService(c, s)
    BY <1>0, <1>1, <1>4 DEF DeployApp, DeployService, StartService
<1>5. CASE \E r \in Replicas : StopFound(c, r)
    BY <1>0, <1>5 DEF StopFound, StopReplica
<1> QED BY <1>2, <1>3, <1>4, <1>5 DEF CommandNext, NoRestarts, Looked, RestartFound

LEMMA NoRestartsStep ==
    ASSUME "restart" \notin Commands, AppsInv, NoRestarts, Next
    PROVE  NoRestarts'
<1>1. ASSUME NEW q \in requests', q.op \in {"restart", "replace", "schedule"} PROVE FALSE
    <2>1. q \notin requests
        BY <1>1 DEF NoRestarts
    <2>2. q.op = "restart"
        BY <1>1, <2>1, RequestSteps DEF Stages, CreatedBy, NoRestarts
    <2>3. CASE Users
        BY <2>2, <2>3, RestartsSent DEF Users
    <2>4. ASSUME NEW p \in requests, RequestNext(p) PROVE FALSE
        <3> USE DEF Finish, Continue
        <3>1. CASE PostSave(p) \/ PutRejected(p) \/ PutState(p) \/ PutSave(p)
            BY <2>1, <2>2, <3>1 DEF PostSave, PutRejected, PutState, PutSave, Save
        <3>2. CASE DeleteEnd(p) \/ DropService(p) \/ DropEnd(p) \/ \E i \in Objects : DropList(p, i)
            BY <2>1, <2>2, <3>2 DEF DeleteEnd, DropService, DropEnd, DropList
        <3>3. ASSUME NEW r \in Replicas, DeleteStop(p, r) PROVE FALSE
            <4>1. [p EXCEPT !.todo = @ \ {r}].op = "delete"
                BY <3>3, RequestKinds DEF DeleteStop, AppsInv, ServicesOK, ServicesTypeOK
            <4> QED BY <2>1, <2>2, <3>3, <4>1 DEF DeleteStop
        <3>4. ASSUME NEW r \in Replicas, DropReplica(p, r) PROVE FALSE
            <4>1. [p EXCEPT !.todo = @ \ {r}, !.ran = @ \ {r}].op = "dropping"
                BY <3>4, RequestKinds DEF DropReplica, AppsInv, ServicesOK, ServicesTypeOK
            <4> QED BY <2>1, <2>2, <3>4, <4>1 DEF DropReplica
        <3> QED BY <2>4, <3>1, <3>2, <3>3, <3>4
                DEF RequestNext, NoRestarts, RestartDelete, RestartEnd, RestartCreate
    <2> QED BY <2>1, <2>3, <2>4, LoopRequests DEF Next, Handlers
<1>2. ASSUME NEW c \in Clients, NEW op \in {"look", "restart"}, Runs(c, op)' PROVE FALSE
    <2>1. CommandNext(c)
        BY <1>2, OwnOrNot DEF NoRestarts, Runs
    <2> QED BY <1>2, <2>1, LooksBegin DEF RestartApp, Issue
<1>3. \A c \in Clients : ~Runs(c, "look")' /\ ~Runs(c, "restart")'
    BY <1>2
<1> QED BY <1>1, <1>3 DEF NoRestarts

\* Then only the loop has replicas scheduled.
LEMMA LoopsJobs ==
    ASSUME NoRestarts, NEW j \in Active
    PROVE  pass.pc \in Scheduling /\ j \in pass.job
BY DEF NoRestarts, Active

-----------------------------------------------------------------------------
\* Counting.

LEMMA CountParts ==
    ASSUME NEW T \in SUBSET Replicas, NEW S \in SUBSET T
    PROVE  /\ IsFiniteSet(S) /\ Cardinality(S) \in Nat /\ Cardinality(T) \in Nat
           /\ Cardinality(S) <= Cardinality(T)
<1>1. IsFiniteSet(T)
    BY ReplicasAssumption, FS_Subset
<1> QED BY <1>1, FS_Subset, FS_CardinalityType

LEMMA CountBoth ==
    ASSUME NEW S \in SUBSET Replicas, NEW T \in SUBSET Replicas, NEW U \in SUBSET Replicas,
           S \subseteq T \cup U
    PROVE  /\ Cardinality(S) \in Nat /\ Cardinality(T) \in Nat /\ Cardinality(U) \in Nat
           /\ Cardinality(S) <= Cardinality(T) + Cardinality(U)
<1>1. IsFiniteSet(T) /\ IsFiniteSet(U)
    BY CountParts
<1>2. Cardinality(T \cup U) = Cardinality(T) + Cardinality(U) - Cardinality(T \cap U)
    BY <1>1, FS_Union
<1>3. Cardinality(S) <= Cardinality(T \cup U) /\ Cardinality(S) \in Nat
      /\ Cardinality(T \cup U) \in Nat
    BY CountParts
<1>4. Cardinality(T) \in Nat /\ Cardinality(U) \in Nat /\ Cardinality(T \cap U) \in Nat
    BY CountParts
<1> QED BY <1>2, <1>3, <1>4

LEMMA CountOneMore ==
    ASSUME NEW T \in SUBSET Replicas, NEW y \in Replicas, NEW S, S \subseteq T \cup {y}
    PROVE  /\ Cardinality(S) \in Nat /\ Cardinality(T) \in Nat
           /\ Cardinality(S) <= Cardinality(T) + 1
<1>1. Cardinality({y}) = 1
    BY FS_Singleton
<1> QED BY <1>1, CountBoth

\* One leaves and one comes.
LEMMA CountSwap ==
    ASSUME NEW T \in SUBSET Replicas, NEW x \in T, NEW y \in Replicas, NEW S,
           S \subseteq (T \ {x}) \cup {y}
    PROVE  /\ Cardinality(S) \in Nat /\ Cardinality(T) \in Nat
           /\ Cardinality(S) <= Cardinality(T)
<1>1. Cardinality(S) <= Cardinality(T \ {x}) + 1 /\ Cardinality(S) \in Nat
      /\ Cardinality(T \ {x}) \in Nat
    BY CountOneMore
<1>2. IsFiniteSet(T) /\ Cardinality(T) \in Nat
    BY CountParts
<1>3. Cardinality(T \ {x}) = Cardinality(T) - 1
    BY <1>2, FS_RemoveElement
<1> QED BY <1>1, <1>2, <1>3

-----------------------------------------------------------------------------
\* The replicas of a service that count: recorded as live, and not being stopped,
\* or as failed, if these are restarted.

Retries(i) == \A o \in Objects : object[o].id = i => ShouldRestart(o)

Present(i) == (Live(i) \ stopping) \cup IF Retries(i) THEN InState(i, "failed") ELSE {}

\* What is being stopped has run.
StopsStarted == \A r \in stopping : replica[r].state # "pending"

LateNow == {r \in stopping : FailsNow(r)}

\* The service the loop is at, and what it creates for it.
Handles(i) == Busy /\ object[pass.svc].id = i
Making(i) == IF Handles(i) THEN {j.id : j \in pass.job} ELSE {}

\* An object keeps its policy.
LEMMA PoliciesStay ==
    ASSUME AppsInv, Next, NEW o \in Objects, object[o] # NoService
    PROVE  object'[o].id = object[o].id /\ object'[o].policy = object[o].policy
<1> USE DEF AppsInv, ServicesOK, ServicesTypeOK
<1>1. object[o] \in Service
    OBVIOUS
<1>2. CASE NoWrite
    BY <1>2 DEF NoWrite, serviceVars
<1>3. ASSUME NEW c \in Clients, Posts(c) PROVE object'[o] = object[o]
    BY <1>3 DEF Posts, Post
<1>4. ASSUME NEW c \in Clients, NEW i \in Objects, Updates(c, i)
      PROVE  object'[o].id = object[o].id /\ object'[o].policy = object[o].policy
    <2>1. PICK k, t : Put(c, i, k, t)
        BY <1>4 DEF Updates
    <2> QED BY <1>1, <2>1 DEF Put, Service
<1>5. ASSUME NEW q \in requests, PostSave(q) \/ PutState(q) \/ PutSave(q) \/ Unstores(q)
      PROVE  object'[o].id = object[o].id /\ object'[o].policy = object[o].policy
    <2>1. CASE PutState(q)
        BY <1>1, <2>1 DEF PutState, Service
    <2> QED BY <1>5, <2>1 DEF PostSave, PutSave, Save, Unstores
<1> QED BY <1>2, <1>3, <1>4, <1>5, WriteSteps

LEMMA RetriesStay ==
    ASSUME AppsInv, Next, NEW i \in Objects
    PROVE  /\ SamePolicy(i)' => SamePolicy(i)
           /\ Retries(i)' => Retries(i)
           /\ SamePolicy(i)' /\ Handles(i) => (Retries(i)' <=> Retries(i))
<1>1. ASSUME NEW o \in Objects, object[o].id = i
      PROVE  object'[o].id = i /\ (ShouldRestart(o)' <=> ShouldRestart(o))
    <2>1. object[o] # NoService
        BY <1>1, NoObjectAssumption DEF NoService
    <2> QED BY <1>1, <2>1, PoliciesStay DEF ShouldRestart
<1>2. SamePolicy(i)' => SamePolicy(i)
    BY <1>1 DEF SamePolicy
<1>3. Retries(i)' => Retries(i)
    BY <1>1 DEF Retries
<1>4. ASSUME SamePolicy(i)', Handles(i), Retries(i) PROVE Retries(i)'
    <2>1. pass.svc \in Objects /\ object[pass.svc].id = i
        BY <1>4 DEF Handles, AppsInv, PassOK, Busy, Made
    <2>2. object'[pass.svc].id = i /\ ShouldRestart(pass.svc) /\ object'[pass.svc].policy = object[pass.svc].policy
        BY <1>1, <1>4, <2>1, PoliciesStay, NoObjectAssumption DEF Retries, NoService
    <2>3. \A o \in Objects : object'[o].id = i => object'[o].policy \in {"always", "on-failure"}
        BY <1>4, <2>1, <2>2 DEF SamePolicy, ShouldRestart
    <2> QED BY <2>3 DEF Retries, ShouldRestart
<1> QED BY <1>2, <1>3, <1>4

LEMMA RetriesHere ==
    ASSUME AppsInv, NEW i \in Objects, SamePolicy(i), Handles(i)
    PROVE  Retries(i) <=> ShouldRestart(pass.svc)
BY DEF Retries, SamePolicy, Handles, AppsInv, PassOK, Busy, Made

LEMMA RetriesLoop ==
    ASSUME Loop, NEW i \in Objects
    PROVE  (Retries(i)' <=> Retries(i)) /\ (SamePolicy(i)' <=> SamePolicy(i))
BY LoopWrites DEF Retries, SamePolicy, ShouldRestart, serviceVars

\* A record becomes pending when the loop makes it.
LEMMA PendingGains ==
    ASSUME AppsInv, NoRestarts, Next, NEW r \in Replicas,
           replica'[r] # replica[r], replica'[r].state = "pending"
    PROVE  /\ r \in FreeReplicas /\ Busy /\ Busy' /\ pass'.svc = pass.svc
           /\ pass'.job = {NewJob(r)} /\ replica'[r].service = object[pass.svc].id
<1> DEFINE Goal == /\ r \in FreeReplicas /\ Busy /\ Busy' /\ pass'.svc = pass.svc
                   /\ pass'.job = {NewJob(r)} /\ replica'[r].service = object[pass.svc].id
<1> USE DEF AppsInv, ServicesOK, ServicesTypeOK, servicesVars, replicaVars
<1>0. replica'[r] # Absent
    BY DEF Absent
<1>1. CASE Users
    BY <1>1, UsersLeave DEF Users
<1>2. ASSUME NEW q \in requests, RequestNext(q) PROVE FALSE
    BY <1>0, <1>2 DEF RequestNext, NoRestarts, PostSave, PutRejected, PutState, PutSave, Save,
                DeleteEnd, DropService, DropEnd, DropList, DeleteStop, DropReplica, RestartDelete,
                RestartEnd, RestartCreate
<1>3. CASE Loop
    <2>1. CASE Busy' /\ Creates
        BY <2>1, FreeAreReplicas DEF Creates, NewJob
    <2>2. ASSUME NEW pc \in Scheduling, NEW p, Succeeds(pc, p) \/ Errs(pc, p) PROVE FALSE
        <3>1. PICK j \in Active : Schedules(j)
            BY <2>2 DEF Succeeds, Errs, At, Active, Schedules
        <3> QED BY <3>1, ActiveJobs, ScheduleEffect
    <2>3. CASE \/ FailedRestarted \/ FailedNotRestarted \/ ReplicaAdded \/ ReplicaNotAdded
               \/ RolledOne \/ NotRolledOne
        BY <2>2, <2>3 DEF FailedRestarted, FailedNotRestarted, ReplicaAdded, ReplicaNotAdded,
                          RolledOne, NotRolledOne, Scheduling
    <2>4. CASE \/ Tick \/ \E o \in pass.left : SkipStopped(o) \/ Begin(o)
               \/ \E s \in pass.todo : StopExcess(s) \/ RollPassesOver(s)
        BY <2>4 DEF Tick, SkipStopped, Begin, StopExcess, RollPassesOver
    <2>5. CASE DeleteFailed \/ UndoRestart \/ UndoAdd
        BY <1>0, <2>5 DEF DeleteFailed, UndoRestart, UndoAdd, Undo, Deleted
    <2>6. ASSUME NEW n \in First(FreeReplicas), NEW p \in ServicePass, NEW pc \in Scheduling,
                 Create(n, p), p.pc = pc, p.svc = pass.svc, Busy
          PROVE  Goal
        <3>1. n \in FreeReplicas /\ n \in Replicas
            BY FreeAreReplicas
        <3>2. n = r
            BY <2>6, <3>1 DEF Create
        <3> QED BY <2>6, <3>1, <3>2 DEF Create, NewJob, ServicePass, Busy, Scheduling
    <2>7. CASE Busy /\ \E n \in First(FreeReplicas) :
                \/ ScaleUp(n) \/ \E f \in pass.failed : RestartFailed(f, n)
                \/ \E s \in pass.todo : RollOne(s, n)
        <3>1. Under(pass) /\ pass \in ServicePass
            BY <2>7, UnderPass DEF PassOK, Busy, Under
        <3>2. CASE \E n \in First(FreeReplicas) : ScaleUp(n)
            <4>1. GoTo("adding") \in ServicePass /\ GoTo("adding").svc = pass.svc
                  /\ GoTo("adding").pc = "adding"
                BY <3>1 DEF GoTo, ServicePass, Scheduling
            <4> QED BY <2>6, <2>7, <3>2, <4>1 DEF ScaleUp, Scheduling
        <3>3. ASSUME NEW n \in First(FreeReplicas), NEW f \in pass.failed, RestartFailed(f, n)
              PROVE  Goal
            <4> DEFINE p == [pass EXCEPT !.pc = "restarting", !.old = {f}, !.failed = @ \ {f}]
            <4>1. p \in ServicePass /\ p.svc = pass.svc /\ p.pc = "restarting"
                BY <3>1 DEF ServicePass, Scheduling
            <4> QED BY <2>6, <2>7, <3>3, <4>1 DEF RestartFailed, Scheduling
        <3>4. ASSUME NEW n \in First(FreeReplicas), NEW s \in pass.todo, RollOne(s, n)
              PROVE  Goal
            <4> DEFINE p == [pass EXCEPT !.pc = "rolling", !.todo = @ \ {s}]
            <4>1. p \in ServicePass /\ p.svc = pass.svc /\ p.pc = "rolling"
                BY <3>1 DEF ServicePass, Scheduling
            <4> QED BY <2>6, <2>7, <3>4, <4>1 DEF RollOne, Scheduling
        <3> QED BY <2>7, <3>2, <3>3, <3>4
    <2> QED BY <1>3, <2>3, <2>4, <2>5, <2>7 DEF Loop, Reconcile, ForOneService
<1>4. ASSUME NEW s \in Replicas, WorkerNext(s) PROVE FALSE
    <2>1. \A how \in {"completed", "failed"} :
            replica[s] \in Record => [replica[s] EXCEPT !.state = how].state = how
        BY DEF Record
    <2> QED BY <1>4, <2>1 DEF WorkerNext, StopDone, End, Absent
<1> QED BY <1>1, <1>2, <1>3, <1>4 DEF Next, Handlers, Workers

LEMMA StopsStartedStep ==
    ASSUME AppsInv, NoRestarts, RunningRuns, StopsStarted, Next
    PROVE  StopsStarted'
<1> SUFFICES ASSUME NEW r \in stopping', replica'[r].state = "pending" PROVE FALSE
    BY DEF StopsStarted
<1> USE DEF AppsInv, ServicesOK, ServicesTypeOK
<1>1. r \in Replicas
    BY AppsStep DEF ServicesOK, ServicesTypeOK
<1>2. CASE r \in stopping
    <2>1. r \notin FreeReplicas /\ replica'[r] # replica[r]
        BY <1>2 DEF FreeReplicas, Held, StopsStarted
    <2> QED BY <1>1, <2>1, PendingGains
<1>3. CASE r \notin stopping
    <2>1. ASSUME Stops(r) # {} PROVE replica[r].state = "running" /\ r \notin FreeReplicas
        BY <1>1, <2>1 DEF Stops, RunningRuns, FreeReplicas, Held
    <2>2. ASSUME stopping' \subseteq stopping \cup Stops(r) PROVE FALSE
        <3>1. replica[r].state = "running" /\ r \notin FreeReplicas /\ replica'[r] # replica[r]
            BY <1>3, <2>1, <2>2
        <3> QED BY <1>1, <3>1, PendingGains
    <2> DEFINE Quiets == stopping' \subseteq stopping \/ stopping' \subseteq stopping \cup Stops(r)
    <2>3. ASSUME NEW s, stopping' = stopping \cup Stops(s) PROVE stopping' \subseteq stopping \cup Stops(r)
        BY <1>3, <2>3 DEF Stops
    <2>4. CASE Users
        BY <1>3, <2>2, <2>3, <2>4, UsersLeave DEF Users
    <2>5. CASE Handlers
        BY <1>3, <2>2, <2>3, <2>5
           DEF Handlers, RequestNext, NoRestarts, PostSave, PutRejected, PutState, PutSave, Save,
               DeleteEnd, DropService, DropEnd, DropList, DeleteStop, DropReplica, RestartDelete,
               RestartEnd, RestartCreate, replicaVars
    <2>6. CASE Loop
        <3>1. ASSUME NEW pc, NEW p, Succeeds(pc, p) \/ Errs(pc, p) PROVE stopping' = stopping
            BY <3>1 DEF Succeeds, Errs, Launched, Refused, AnswerLost, replicaVars
        <3>2. CASE \/ FailedRestarted \/ FailedNotRestarted \/ ReplicaAdded \/ ReplicaNotAdded
                   \/ RolledOne \/ NotRolledOne
            BY <1>3, <3>1, <3>2 DEF FailedRestarted, FailedNotRestarted, ReplicaAdded, ReplicaNotAdded,
                              RolledOne, NotRolledOne
        <3>3. CASE \/ DeleteFailed \/ UndoRestart \/ UndoAdd
                   \/ Tick \/ \E o \in pass.left : SkipStopped(o) \/ Begin(o)
                   \/ \E n \in First(FreeReplicas) :
                        ScaleUp(n) \/ \E f \in pass.failed : RestartFailed(f, n)
            BY <1>3, <3>3 DEF DeleteFailed, UndoRestart, UndoAdd, Undo, Tick, SkipStopped, Begin,
                              ScaleUp, RestartFailed, servicesVars, replicaVars
        <3>4. CASE \E s \in pass.todo : \/ StopExcess(s) \/ RollPassesOver(s)
                                        \/ \E n \in First(FreeReplicas) : RollOne(s, n)
            BY <1>3, <2>2, <2>3, <3>4 DEF StopExcess, RollPassesOver, RollOne, servicesVars, replicaVars
        <3> QED BY <2>6, <3>2, <3>3, <3>4 DEF Loop, Reconcile, ForOneService
    <2>7. CASE Workers
        BY <1>3, <2>7 DEF Workers, WorkerNext, StopDone, End
    <2> QED BY <2>4, <2>5, <2>6, <2>7 DEF Next
<1> QED BY <1>2, <1>3

\* A service gains replicas by the loop, or by a container that fails while it is
\* being stopped.
LEMMA PresentGains ==
    ASSUME AppsInv, JobsInv, RunningRuns, JobsOfService, StopsStarted, NoRestarts, Next,
           NEW i \in Objects
    PROVE  Present(i)' \subseteq Present(i) \cup Making(i) \cup Making(i)' \cup LateNow
<1> SUFFICES ASSUME NEW r \in Present(i)'
             PROVE  r \in Present(i) \cup Making(i) \cup Making(i)' \cup LateNow
    OBVIOUS
<1> USE DEF AppsInv, ServicesOK, ServicesTypeOK
<1>1. /\ r \in Replicas /\ replica'[r].service = i /\ replica'[r] # Absent
      /\ replica'[r].state \in {"running", "pending", "failed"}
      /\ replica'[r].state # "failed" => r \notin stopping'
      /\ replica'[r].state = "failed" => Retries(i)
    BY RetriesStay DEF Present, Live, InState, Of
<1>2. CASE replica'[r] = replica[r]
    <2>1. CASE r \in stopping'
        BY <1>1, <1>2, <2>1 DEF Present, Live, InState, Of
    <2>2. CASE r \notin stopping /\ r \notin stopping'
        BY <1>1, <1>2, <2>2 DEF Present, Live, InState, Of
    <2>3. CASE r \in stopping /\ r \notin stopping' /\ replica[r].state # "failed"
        <3>1. replica[r].state = "running" /\ r \in containers
            BY <1>1, <1>2, <2>3 DEF StopsStarted, RunningRuns
        <3>2. r \in containers'
            BY <1>1, <1>2, <3>1, RunningGains
        <3> QED BY <2>3, <3>2, StopsStay
    <2> QED BY <1>1, <1>2, <2>1, <2>2, <2>3 DEF Present, InState, Of
<1>3. CASE replica'[r] # replica[r] /\ replica'[r].state = "running"
    <2>1. PICK j \in Active : j.id = r /\ j.record.service = i
        BY <1>1, <1>3, RunningGains
    <2>2. pass.pc \in Scheduling /\ j \in pass.job
        BY LoopsJobs
    <2> QED BY <2>1, <2>2 DEF Making, Handles, JobsOfService, Busy, Scheduling
<1>4. CASE replica'[r] # replica[r] /\ replica'[r].state = "pending"
    <2>1. /\ Busy /\ Busy' /\ pass'.svc = pass.svc
          /\ pass'.job = {NewJob(r)} /\ object[pass.svc].id = i
        BY <1>1, <1>4, PendingGains
    <2>2. object'[pass'.svc].id = i
        BY <2>1, AppsStep DEF MadeStays, PassOK, Busy
    <2>3. NewJob(r).id = r
        BY DEF NewJob
    <2>4. Making(i)' = {j.id : j \in pass'.job}
        BY <2>1, <2>2 DEF Making, Handles
    <2> QED BY <2>1, <2>3, <2>4
<1>5. CASE replica'[r] # replica[r] /\ replica'[r].state = "failed"
    <2>1. r \notin FreeReplicas \/ replica'[r].state = "pending"
        <3>1. CASE Trims
            BY <1>1, <1>5, <3>1 DEF Trims, Absent
        <3>2. ASSUME NEW n \in FreeReplicas, Makes(n) PROVE FALSE
            BY <1>1, <1>5, <3>2 DEF Makes, NoRestarts
        <3>3. ASSUME NEW j \in Active, Schedules(j) PROVE FALSE
            BY <1>1, <1>5, <3>3, ActiveJobs, ScheduleEffect
        <3>4. ASSUME NEW s \in Replicas,
                     StopDone(s) \/ \E how \in {"completed", "failed"} : End(s, how)
              PROVE  r \notin FreeReplicas
            BY <1>1, <1>5, <3>4 DEF StopDone, End, FreeReplicas, Absent
        <3> QED BY <3>1, <3>2, <3>3, <3>4, StoreSteps
    <2>2. \E how \in {"completed", "failed"} : End(r, how)
        <3>1. ~StopDone(r)
            BY <1>1, <1>5 DEF StopDone, Record, Absent
        <3> QED BY <1>1, <1>5, <2>1, <3>1, RecordsChange DEF Absent
    <2>3. replica[r].state = "running" /\ replica[r].service = i /\ replica[r] # Absent
        BY <1>1, <1>5, <2>2 DEF End, Record, Absent
    <2>4. CASE r \in stopping
        BY <1>5, <2>3, <2>4 DEF LateNow, FailsNow
    <2>5. CASE r \notin stopping
        BY <1>1, <2>3, <2>5 DEF Present, Live, InState, Of
    <2> QED BY <2>4, <2>5
<1> QED BY <1>1, <1>2, <1>3, <1>4, <1>5

-----------------------------------------------------------------------------
\* What the loop does next.

\* The failed replicas that it has listed and tries to restart.
ToTry(p) == IF ShouldRestart(p.svc) THEN p.failed ELSE {}

\* The steps a pass may go to: failed replicas first, then those that are missing.
Choice(try, actual, wanted) ==
    IF try # {} THEN {"restart"} ELSE IF actual < wanted THEN {"scale"} ELSE {"trim", "roll"}

\* It leaves the service, or goes to one of these steps with what it has.
Decided(p, q, pcs) ==
    \/ q.pc \in {"idle", "next"}
    \/ /\ q.pc \in pcs /\ q.svc = p.svc
       /\ q.job = p.job /\ q.failed = p.failed /\ q.old = p.old
       /\ q.actual = p.actual /\ q.wanted = p.wanted
       /\ q.todo \cup Ids(q.running) \subseteq p.todo \cup Ids(p.running)

LEMMA Decides ==
    ASSUME NEW p, Under(p)
    PROVE  /\ Decided(p, RollOver(p), {"roll"}) /\ Decided(p, Rolled(p), {"roll"})
           /\ Decided(p, Scale(p), Choice({}, p.actual, p.wanted))
           /\ Decided(p, Restarts(p), Choice(ToTry(p), p.actual, p.wanted))
<1> USE DEF Under, ServicePass
<1>1. NextService(p.left).pc \in {"idle", "next"}
    BY DEF NextService, Idle
<1>2. Decided(p, RollOver(p), {"roll"})
    <2>1. Decided(p, [p EXCEPT !.pc = "roll", !.todo = Ids(p.running)], {"roll"})
        BY DEF Decided
    <2> QED BY <1>1, <2>1 DEF RollOver, Decided
<1>3. Decided(p, Rolled(p), {"roll"})
    <2>1. Decided(p, [p EXCEPT !.pc = "roll"], {"roll"})
        BY DEF Decided
    <2> QED BY <1>1, <2>1 DEF Rolled, Decided
<1>4. Decided(p, Scale(p), Choice({}, p.actual, p.wanted))
    <2>1. Decided(p, [p EXCEPT !.pc = "scale"], {"scale"})
          /\ Decided(p, [p EXCEPT !.pc = "trim"], {"trim", "roll"})
        BY DEF Decided
    <2>2. Decided(p, RollOver(p), {"trim", "roll"})
        BY <1>2 DEF Decided
    <2> QED BY <2>1, <2>2 DEF Scale, Choice
<1>5. Decided(p, Restarts(p), Choice(ToTry(p), p.actual, p.wanted))
    <2>1. Decided(p, [p EXCEPT !.pc = "restart"], {"restart"})
        BY DEF Decided
    <2> QED BY <1>4, <2>1 DEF Restarts, ToTry, Choice
<1> QED BY <1>2, <1>3, <1>4, <1>5

\* A step of the loop while it is at a service: the steps it may go to, what it
\* creates, replaces and has to restart then, and its count.
Stays(pcs, job, old, failed, actual) ==
    /\ pass'.pc \in pcs /\ pass'.svc = pass.svc
    /\ pass'.job = job /\ pass'.old = old /\ pass'.failed = failed
    /\ pass'.actual = actual /\ pass'.wanted = pass.wanted
    /\ pass'.todo \cup Ids(pass'.running) \subseteq pass.todo \cup Ids(pass.running)

\* It may leave the service instead.
Onward(pcs, job, old, failed, actual) == ~Busy' \/ Stays(pcs, job, old, failed, actual)

Restarting(f, n) ==
    /\ At("restart") /\ f \in pass.failed /\ n \in FreeReplicas
    /\ Stays({"restarting"}, {NewJob(n)}, {f}, pass.failed \ {f}, pass.actual)

RestartSucceeds == At("restarting") /\ Stays({"restarted"}, pass.job, pass.old, pass.failed, pass.actual)

RestartFails ==
    /\ At("restarting") /\ faults' = faults + 1
    /\ Stays({"unrestarted"}, pass.job, pass.old, pass.failed, pass.actual)

RestartCounts ==
    /\ At("restarted") /\ \A f \in pass.old : replica'[f] = Absent
    /\ Onward(Choice(ToTry(pass), pass.actual + 1, pass.wanted), {}, {}, pass.failed, pass.actual + 1)

RestartUndone ==
    /\ At("unrestarted") /\ \A j \in pass.job : replica'[j.id] = Absent
    /\ Onward(Choice(ToTry(pass), pass.actual, pass.wanted), {}, {}, pass.failed, pass.actual)

Adding(n) ==
    /\ At("scale") /\ n \in FreeReplicas
    /\ Stays({"adding"}, {NewJob(n)}, pass.old, pass.failed, pass.actual)

AddSucceeds ==
    /\ At("adding")
    /\ Onward(Choice({}, pass.actual + 1, pass.wanted), {}, {}, pass.failed, pass.actual + 1)

AddFails == At("adding") /\ Stays({"unadded"}, pass.job, pass.old, pass.failed, pass.actual)

GoesToRoll ==
    /\ pass.pc \in {"unadded", "rolling"}
    /\ Onward({"roll"}, {}, {}, pass.failed, pass.actual)

Trimming ==
    /\ At("trim")
    /\ Onward({"trim", "roll"}, pass.job, pass.old, pass.failed, pass.actual - 1)

PassingOver == At("roll") /\ Onward({"roll"}, pass.job, pass.old, pass.failed, pass.actual)

Rolling(r, n) ==
    /\ At("roll") /\ At("rolling")' /\ r \in pass.todo /\ r \notin pass'.todo /\ n \in FreeReplicas
    /\ replica[r].state = "running" /\ r \in stopping'
    /\ Stays({"rolling"}, {NewJob(n)}, pass.old, pass.failed, pass.actual)

BusyStep ==
    \/ \E f, n \in Replicas : Restarting(f, n)
    \/ RestartSucceeds \/ RestartFails \/ RestartCounts \/ RestartUndone
    \/ \E n \in Replicas : Adding(n)
    \/ AddSucceeds \/ AddFails \/ GoesToRoll \/ Trimming \/ PassingOver
    \/ \E r, n \in Replicas : Rolling(r, n)

LEMMA BusySteps ==
    ASSUME AppsInv, Loop, Busy
    PROVE  BusyStep
<1> USE DEF AppsInv, ServicesOK, ServicesTypeOK
<1>1. Under(pass) /\ pass \in ServicePass
    BY UnderPass DEF PassOK, Busy, Under
<1>2. Under(Forgotten)
    BY <1>1, UnderChanges DEF Forgotten
<1>3. /\ Forgotten.job = {} /\ Forgotten.old = {} /\ Forgotten.failed = pass.failed
      /\ Forgotten.svc = pass.svc /\ Forgotten.actual = pass.actual /\ Forgotten.wanted = pass.wanted
      /\ Forgotten.todo = pass.todo /\ Forgotten.running = pass.running
    BY <1>1 DEF Forgotten, ServicePass
<1>4. ASSUME NEW p, p.svc = pass.svc, p.wanted = pass.wanted, p.running = pass.running,
             p.todo \subseteq pass.todo,
             NEW pcs, Decided(p, pass', pcs)
      PROVE  Onward(pcs, p.job, p.old, p.failed, p.actual)
    BY <1>4 DEF Decided, Onward, Stays, Busy
<1>5. \A pc \in Stepping \cup Scheduling \cup Scheduled :
        pass' = GoTo(pc) => Stays({pc}, pass.job, pass.old, pass.failed, pass.actual)
    BY <1>1 DEF GoTo, Stays, ServicePass
<1>6. CASE FailedRestarted
    BY <1>5, <1>6 DEF FailedRestarted, Succeeds, BusyStep, RestartSucceeds, Scheduled
<1>7. CASE FailedNotRestarted
    <2>1. faults' = faults + 1
        BY <1>7 DEF FailedNotRestarted, Errs, Refused, AnswerLost, Fails
    <2> QED BY <1>5, <1>7, <2>1 DEF FailedNotRestarted, Errs, BusyStep, RestartFails, Scheduled
<1>8. CASE DeleteFailed
    <2> DEFINE p == [Forgotten EXCEPT !.actual = RestartedCounted]
    <2>1. RestartedCounted \in Nat /\ RestartedCounted = pass.actual + 1
        BY <1>1 DEF RestartedCounted, ServicePass
    <2>2. Under(p)
        BY <1>2, <2>1, UnderChanges
    <2>3. /\ p.job = {} /\ p.old = {} /\ p.failed = pass.failed /\ p.svc = pass.svc
          /\ p.actual = pass.actual + 1 /\ p.wanted = pass.wanted
          /\ p.todo = pass.todo /\ p.running = pass.running
        BY <1>2, <1>3, <2>1 DEF Under, ServicePass
    <2>4. Decided(p, pass', Choice(ToTry(p), p.actual, p.wanted))
        BY <1>8, <2>2, Decides DEF DeleteFailed
    <2> HIDE DEF p
    <2>5. Onward(Choice(ToTry(pass), pass.actual + 1, pass.wanted), {}, {}, pass.failed,
                 pass.actual + 1)
        BY <1>4, <2>3, <2>4 DEF ToTry
    <2>6. \A f \in pass.old : replica'[f] = Absent
        BY <1>1, <1>8 DEF DeleteFailed, Deleted, ServicePass
    <2> QED BY <1>8, <2>5, <2>6 DEF DeleteFailed, BusyStep, RestartCounts
<1>9. CASE UndoRestart
    <2>1. Decided(Forgotten, pass', Choice(ToTry(pass), pass.actual, pass.wanted))
        BY <1>2, <1>3, <1>9, Decides DEF UndoRestart, Undo, ToTry
    <2>2. Onward(Choice(ToTry(pass), pass.actual, pass.wanted), Forgotten.job, Forgotten.old,
                 Forgotten.failed, Forgotten.actual)
        BY <1>3, <1>4, <2>1
    <2>3. \A j \in pass.job : replica'[j.id] = Absent
        BY <1>1, <1>9 DEF UndoRestart, Undo, Deleted, ServicePass, Job
    <2> QED BY <1>3, <1>9, <2>2, <2>3 DEF UndoRestart, Undo, BusyStep, RestartUndone
<1>10. CASE ReplicaAdded
    <2> DEFINE p == [Forgotten EXCEPT !.actual = @ + 1]
    <2>1. pass.actual + 1 \in Nat
        BY <1>1 DEF ServicePass
    <2>2. Under(p)
        BY <1>2, <1>3, <2>1, UnderChanges
    <2>3. /\ p.job = {} /\ p.old = {} /\ p.failed = pass.failed /\ p.svc = pass.svc
          /\ p.actual = pass.actual + 1 /\ p.wanted = pass.wanted
          /\ p.todo = pass.todo /\ p.running = pass.running
        BY <1>2, <1>3, <2>1 DEF Under, ServicePass
    <2>4. Decided(p, pass', Choice({}, p.actual, p.wanted))
        BY <1>10, <2>2, Decides DEF ReplicaAdded, Succeeds
    <2> HIDE DEF p
    <2>5. Onward(Choice({}, pass.actual + 1, pass.wanted), {}, {}, pass.failed, pass.actual + 1)
        BY <1>4, <2>3, <2>4
    <2> QED BY <1>10, <2>5 DEF ReplicaAdded, Succeeds, BusyStep, AddSucceeds
<1>11. CASE ReplicaNotAdded
    BY <1>5, <1>11 DEF ReplicaNotAdded, Errs, BusyStep, AddFails, Scheduled
<1>12. CASE UndoAdd \/ RolledOne \/ NotRolledOne
    <2>1. Decided(Forgotten, pass', {"roll"})
        BY <1>2, <1>12, Decides DEF UndoAdd, Undo, RolledOne, NotRolledOne, Succeeds, Errs
    <2>2. Onward({"roll"}, Forgotten.job, Forgotten.old, Forgotten.failed, Forgotten.actual)
        BY <1>3, <1>4, <2>1
    <2> QED BY <1>3, <1>12, <2>2 DEF UndoAdd, Undo, RolledOne, NotRolledOne, Succeeds, Errs, At,
                               BusyStep, GoesToRoll
<1>13. ASSUME NEW r \in pass.todo, StopExcess(r) PROVE BusyStep
    <2> DEFINE p == [pass EXCEPT !.actual = @ - 1, !.todo = @ \ {r}]
    <2>1. pass.actual - 1 \in Nat /\ pass.actual - 1 >= pass.wanted /\ pass.todo \ {r} \in SUBSET Replicas
        BY <1>1, <1>13 DEF StopExcess, At, PassOK, ServicePass
    <2>2. Under(p)
        BY <1>1, <2>1, UnderChanges
    <2>3. /\ p.job = pass.job /\ p.old = pass.old /\ p.failed = pass.failed /\ p.svc = pass.svc
          /\ p.actual = pass.actual - 1 /\ p.wanted = pass.wanted
          /\ p.todo \subseteq pass.todo /\ p.running = pass.running
        BY <1>1 DEF ServicePass
    <2>4. Decided(p, pass', Choice({}, p.actual, p.wanted))
        BY <1>13, <2>2, Decides DEF StopExcess
    <2> HIDE DEF p
    <2>5. Choice({}, pass.actual - 1, pass.wanted) = {"trim", "roll"}
        BY <1>1, <2>1 DEF Choice, ServicePass
    <2>6. Decided(p, pass', {"trim", "roll"})
        BY <2>3, <2>4, <2>5
    <2>7. Onward({"trim", "roll"}, p.job, p.old, p.failed, p.actual)
        BY <1>4, <2>3, <2>6
    <2> QED BY <1>13, <2>3, <2>7 DEF StopExcess, BusyStep, Trimming
<1>14. ASSUME NEW r \in pass.todo, RollPassesOver(r) PROVE BusyStep
    <2> DEFINE p == [pass EXCEPT !.todo = @ \ {r}]
    <2>1. pass.todo \ {r} \in SUBSET Replicas
        BY <1>1 DEF ServicePass
    <2>2. Under(p)
        BY <1>1, <2>1, UnderChanges
    <2>3. /\ p.job = pass.job /\ p.old = pass.old /\ p.failed = pass.failed /\ p.svc = pass.svc
          /\ p.actual = pass.actual /\ p.wanted = pass.wanted
          /\ p.todo \subseteq pass.todo /\ p.running = pass.running
        BY <1>1 DEF ServicePass
    <2>4. Decided(p, pass', {"roll"})
        BY <1>14, <2>2, Decides DEF RollPassesOver
    <2> HIDE DEF p
    <2> QED BY <1>4, <1>14, <2>3, <2>4 DEF RollPassesOver, BusyStep, PassingOver
<1>15. ASSUME NEW n \in First(FreeReplicas),
              \/ ScaleUp(n) \/ \E f \in pass.failed : RestartFailed(f, n)
              \/ \E r \in pass.todo : RollOne(r, n)
       PROVE  BusyStep
    <2>1. n \in FreeReplicas /\ n \in Replicas
        BY FreeAreReplicas
    <2>2. CASE ScaleUp(n)
        <3>1. Stays({"adding"}, {NewJob(n)}, pass.old, pass.failed, pass.actual)
            BY <1>1, <2>2 DEF ScaleUp, Create, GoTo, Stays, ServicePass
        <3> QED BY <2>1, <2>2, <3>1 DEF ScaleUp, BusyStep, Adding
    <2>3. ASSUME NEW f \in pass.failed, RestartFailed(f, n) PROVE BusyStep
        <3>1. Stays({"restarting"}, {NewJob(n)}, {f}, pass.failed \ {f}, pass.actual)
            BY <1>1, <2>3 DEF RestartFailed, Create, Stays, ServicePass
        <3>2. f \in Replicas
            BY <1>1 DEF ServicePass
        <3> QED BY <2>1, <2>3, <3>1, <3>2 DEF RestartFailed, BusyStep, Restarting
    <2>4. ASSUME NEW r \in pass.todo, RollOne(r, n) PROVE BusyStep
        <3>1. /\ Stays({"rolling"}, {NewJob(n)}, pass.old, pass.failed, pass.actual)
              /\ pass'.pc = "rolling" /\ r \notin pass'.todo
            BY <1>1, <2>4 DEF RollOne, Create, Stays, ServicePass
        <3>2. r \in Replicas /\ replica[r].state = "running" /\ r \in stopping'
            BY <1>1, <2>4 DEF RollOne, Stops, ServicePass
        <3> QED BY <2>1, <2>4, <3>1, <3>2 DEF RollOne, BusyStep, Rolling, At
    <2> QED BY <1>15, <2>2, <2>3, <2>4
<1> QED BY <1>6, <1>7, <1>8, <1>9, <1>10, <1>11, <1>12, <1>13, <1>14, <1>15
        DEF Loop, Reconcile, ForOneService, At, Tick, Busy

\* When it comes to a service it has listed all there is to know.
Lists(i) ==
    /\ i = object[pass'.svc].id /\ pass'.svc \in Made
    /\ UNCHANGED <<object, replica, stopping>>
    /\ pass'.pc \in Choice(ToTry(pass'), pass'.actual, pass'.wanted)
    /\ pass'.failed = InState(i, "failed") /\ pass'.actual = Count(i)
    /\ pass'.job = {} /\ pass'.old = {}
    /\ pass'.todo \cup Ids(pass'.running) \subseteq InState(i, "running")

LEMMA ListSteps ==
    ASSUME AppsInv, Loop, ~Busy, Busy'
    PROVE  Lists(object[pass'.svc].id)
<1> USE DEF AppsInv, ServicesOK, ServicesTypeOK
<1>1. PICK o \in pass.left : At("next") /\ Begin(o)
    BY DEF Loop, Reconcile, Tick, SkipStopped, NextService, Idle, Busy
<1> DEFINE i == object[o].id
           runs == InState(i, "running")
           p == [pc |-> "restart", left |-> pass.left \ {o}, svc |-> o,
                 failed |-> InState(i, "failed"),
                 running |-> {[id |-> r, config |-> replica[r].config] : r \in runs},
                 actual |-> Count(i), wanted |-> object[o].replicas,
                 todo |-> runs, old |-> {}, job |-> {}]
<1>2. pass.left \subseteq Made /\ pass.left \subseteq Objects
    BY <1>1 DEF PassOK, At, Made
<1>3. object[o] \in Service
    BY <1>1, <1>2 DEF Made
<1>4. {[id |-> r, config |-> replica[r].config] : r \in runs} \subseteq Snapshot
    BY DEF InState, Of, Snapshot, Record
<1>5. Count(i) \in Nat
    BY CountNat
<1>6. Under(p)
    BY <1>1, <1>2, <1>3, <1>4, <1>5 DEF Under, ServicePass, Stepping, InState, Of, Service
<1>7. pass' = Restarts(p) /\ UNCHANGED servicesVars
    BY <1>1 DEF Begin
<1>8. Ids(p.running) \subseteq runs
    BY DEF Ids
<1>9. Decided(p, pass', Choice(ToTry(p), p.actual, p.wanted))
    BY <1>6, <1>7, Decides
<1>10. /\ p.svc = o /\ p.failed = InState(i, "failed") /\ p.actual = Count(i)
       /\ p.old = {} /\ p.job = {} /\ p.todo = runs
    OBVIOUS
<1> HIDE DEF p
<1>11. /\ pass'.svc = o /\ pass'.failed = InState(i, "failed") /\ pass'.actual = Count(i)
       /\ pass'.old = {} /\ pass'.job = {}
       /\ pass'.todo \cup Ids(pass'.running) \subseteq runs
       /\ pass'.pc \in Choice(ToTry(pass'), pass'.actual, pass'.wanted)
    BY <1>8, <1>9, <1>10 DEF Decided, Busy, ToTry
<1> QED BY <1>1, <1>2, <1>7, <1>11 DEF Lists, servicesVars, serviceVars, replicaVars

-----------------------------------------------------------------------------
\* What a pass has, by the step it is at.

Replacing == {"restarting", "restarted", "unrestarted"}

PassShape ==
    Busy =>
        /\ pass.pc \in {"scale", "adding"} => pass.actual < pass.wanted
        /\ IF pass.pc \in Replacing \cup {"restart"} THEN ShouldRestart(pass.svc) ELSE ToTry(pass) = {}
        /\ pass.pc \notin Replacing => pass.old = {}
        /\ pass.pc \in Replacing => \E f \in Replicas \ pass.failed : pass.old = {f}
        /\ pass.pc \in {"restarting", "unrestarted"} => \E j \in pass.job : pass.job = {j}
        /\ \A j \in pass.job : j.id \notin pass.failed \cup pass.old

LEMMA ChoiceSteps ==
    ASSUME NEW try, NEW actual \in Nat, NEW wanted \in Nat, NEW pc \in Choice(try, actual, wanted)
    PROVE  /\ pc \in Stepping /\ pc \notin Replacing
           /\ pc = "scale" => actual < wanted
           /\ pc # "restart" <=> try = {}
BY DEF Choice, Stepping, Replacing

LEMMA PassShapeStep ==
    ASSUME AppsInv, PassShape, Next
    PROVE  PassShape'
<1>3. ASSUME pass' = pass PROVE PassShape'
    <2>1. Busy => object'[pass.svc].policy = object[pass.svc].policy
        BY PoliciesStay, MadeOnce DEF AppsInv, PassOK, Busy, Made
    <2> QED BY <1>3, <2>1 DEF PassShape, Busy, ToTry, ShouldRestart
<1> SUFFICES ASSUME Busy', Loop PROVE PassShape'
    BY <1>3, OthersKeepPass DEF PassShape
<1>0. pass' \in ServicePass /\ pass'.actual \in Nat /\ pass'.wanted \in Nat
    <2>1. pass' \in ServicePass
        BY AppsStep, UnderPass DEF PassOK, Busy
    <2> QED BY <2>1, BoundsAssumption DEF ServicePass
<1>4. object' = object
    BY LoopWrites DEF serviceVars
<1>5. ToTry(pass)' = ToTry(pass') /\ (ShouldRestart(pass.svc)' <=> ShouldRestart(pass'.svc))
    BY <1>4 DEF ToTry, ShouldRestart
<1>1. CASE ~Busy
    <2>1. Lists(object[pass'.svc].id)
        BY <1>1, ListSteps
    <2>2. /\ pass'.pc \in Stepping /\ pass'.pc \notin Replacing
          /\ pass'.pc = "scale" => pass'.actual < pass'.wanted
          /\ pass'.pc # "restart" <=> ToTry(pass') = {}
        BY <1>0, <2>1, ChoiceSteps DEF Lists
    <2>3. pass'.pc = "restart" => ShouldRestart(pass'.svc)
        BY <2>2 DEF ToTry
    <2> QED BY <1>5, <2>1, <2>2, <2>3 DEF Lists, PassShape, Stepping, Replacing
<1>2. CASE Busy
    <2>0. pass \in ServicePass
        BY <1>2, UnderPass DEF AppsInv, PassOK, Busy
    <2>11. /\ pass'.svc = pass.svc => (ShouldRestart(pass'.svc) <=> ShouldRestart(pass.svc))
          /\ pass'.svc = pass.svc /\ pass'.failed = pass.failed => ToTry(pass') = ToTry(pass)
        BY DEF ToTry
    <2> USE DEF PassShape, Onward, Stays, At, Replacing
    <2>1. ASSUME NEW f \in Replicas, NEW n \in Replicas, Restarting(f, n) PROVE PassShape'
        <3>1. NewJob(n).id = n /\ n \notin pass.failed
            BY <1>2, <2>1, HeldNotFree DEF Restarting, NewJob
        <3> QED BY <1>2, <1>5, <2>11, <2>1, <3>1 DEF Restarting
    <2>2. CASE RestartSucceeds \/ RestartFails
        BY <1>2, <1>5, <2>11, <2>2 DEF RestartSucceeds, RestartFails
    <2>3. ASSUME NEW actual \in Nat,
                 Onward(Choice(ToTry(pass), actual, pass.wanted), {}, {}, pass.failed, actual)
          PROVE  PassShape'
        <3>1. /\ pass'.pc \in Stepping /\ pass'.pc \notin Replacing
              /\ pass'.pc = "scale" => actual < pass.wanted
              /\ pass'.pc # "restart" <=> ToTry(pass) = {}
            <4>1. pass.wanted \in Nat /\ pass'.pc \in Choice(ToTry(pass), actual, pass.wanted)
                BY <2>0, <2>3, BoundsAssumption DEF ServicePass
            <4> QED BY <4>1, ChoiceSteps
        <3>2. pass'.pc = "restart" => ShouldRestart(pass.svc)
            BY <3>1 DEF ToTry
        <3> QED BY <1>5, <2>11, <2>3, <3>1, <3>2 DEF Stepping
    <2>4. pass.actual \in Nat /\ pass.actual + 1 \in Nat
        BY <2>0 DEF ServicePass
    <2>5. CASE RestartCounts
        BY <2>3, <2>4, <2>5 DEF RestartCounts
    <2>6. CASE RestartUndone
        BY <2>3, <2>4, <2>6 DEF RestartUndone
    <2>7. CASE AddSucceeds
        <3>1. ToTry(pass) = {}
            BY <1>2, <2>7 DEF AddSucceeds
        <3>2. Onward(Choice(ToTry(pass), pass.actual + 1, pass.wanted), {}, {}, pass.failed,
                     pass.actual + 1)
            BY <2>7, <3>1 DEF AddSucceeds
        <3> QED BY <2>3, <2>4, <3>2
    <2>8. ASSUME NEW n \in Replicas, Adding(n) PROVE PassShape'
        <3>1. NewJob(n).id = n /\ n \notin pass.failed \cup pass.old
            BY <1>2, <2>8, HeldNotFree DEF Adding, NewJob
        <3> QED BY <1>2, <1>5, <2>11, <2>8, <3>1 DEF Adding
    <2>9. CASE AddFails \/ GoesToRoll \/ Trimming \/ PassingOver
        BY <1>2, <1>5, <2>11, <2>9 DEF AddFails, GoesToRoll, Trimming, PassingOver
    <2>10. ASSUME NEW r \in Replicas, NEW n \in Replicas, Rolling(r, n) PROVE PassShape'
        <3>1. NewJob(n).id = n /\ n \notin pass.failed \cup pass.old
            BY <1>2, <2>10, HeldNotFree DEF Rolling, NewJob
        <3> QED BY <1>2, <1>5, <2>11, <2>10, <3>1 DEF Rolling
    <2> QED BY <1>2, <2>1, <2>2, <2>5, <2>6, <2>7, <2>8, <2>9, <2>10, BusySteps DEF BusyStep
<1> QED BY <1>1, <1>2

\* What the loop may stop is the service's, as long as it runs.
TodoOurs ==
    Busy => \A r \in pass.todo \cup Ids(pass.running) :
                replica[r].state = "running" => replica[r].service = object[pass.svc].id

LEMMA TodoOursStep ==
    ASSUME AppsInv, JobsInv, RunningRuns, JobsOfService, NoRestarts,
           TodoOurs, Next
    PROVE  TodoOurs'
<1> SUFFICES ASSUME Busy', NEW r \in pass'.todo \cup Ids(pass'.running), replica'[r].state = "running"
             PROVE  replica'[r].service = object'[pass'.svc].id
    BY DEF TodoOurs
<1>0. r \in Replicas
    <2>1. pass' \in ServicePass
        BY AppsStep, UnderPass DEF AppsInv, PassOK, Busy
    <2> QED BY <2>1 DEF ServicePass, Ids, Snapshot
<1>1. CASE Busy /\ pass'.svc = pass.svc
           /\ pass'.todo \cup Ids(pass'.running) \subseteq pass.todo \cup Ids(pass.running)
    <2>1. object'[pass.svc].id = object[pass.svc].id
        BY <1>1, AppsStep DEF AppsInv, PassOK, Busy, MadeStays
    <2>2. CASE replica'[r] = replica[r]
        BY <1>1, <2>1, <2>2 DEF TodoOurs
    <2>3. ASSUME NEW j \in Active, j.id = r, replica'[r].service = j.record.service
          PROVE  replica'[r].service = object[pass.svc].id
        BY <1>1, <2>3, LoopsJobs DEF JobsOfService
    <2> QED BY <1>0, <1>1, <2>1, <2>2, <2>3, RunningGains
<1>2. CASE pass' = pass
    BY <1>1, <1>2 DEF Busy
<1>3. CASE Loop /\ Busy
    BY <1>1, <1>3, BusySteps
       DEF BusyStep, Onward, Stays, Restarting, RestartSucceeds, RestartFails, RestartCounts, RestartUndone,
           Adding, AddSucceeds, AddFails, GoesToRoll, Trimming, PassingOver, Rolling
<1>4. CASE Loop /\ ~Busy
    BY <1>4, ListSteps DEF Lists, InState, Of
<1> QED BY <1>2, <1>3, <1>4, OthersKeepPass

-----------------------------------------------------------------------------
\* A failed replica that the loop has listed does not come back.
FailedGone ==
    Busy => \A f \in pass.failed \cup pass.old : replica[f].state \notin {"running", "pending"}

LEMMA FailedGoneStep ==
    ASSUME AppsInv, JobsInv, RunningRuns, NoRestarts, PassShape,
           FailedGone, Next
    PROVE  FailedGone'
<1> SUFFICES ASSUME Busy', NEW f \in pass'.failed \cup pass'.old,
                    replica'[f].state \in {"running", "pending"}
             PROVE  FALSE
    BY DEF FailedGone
<1>1. CASE ~Busy
    <2>1. Lists(object[pass'.svc].id)
        BY <1>1, ListSteps, OthersKeepPass DEF Busy
    <2> QED BY <2>1 DEF Lists, InState, Of
<1>2. CASE Busy
    <2>1. f \in pass.failed \cup pass.old
        <3>1. CASE Loop
            BY <1>2, <3>1, BusySteps
               DEF BusyStep, Onward, Stays, Restarting, RestartSucceeds, RestartFails, RestartCounts,
                   RestartUndone, Adding, AddSucceeds, AddFails, GoesToRoll, Trimming, PassingOver, Rolling
        <3> QED BY <3>1, OthersKeepPass
    <2>2. f \in Replicas /\ f \notin FreeReplicas
        BY <1>2, <2>1, UnderPass, HeldNotFree DEF AppsInv, PassOK, Busy, ServicePass
    <2>3. replica'[f] # replica[f]
        BY <1>2, <2>1 DEF FailedGone
    <2>4. replica'[f].state = "running"
        BY <2>2, <2>3, PendingGains
    <2>5. PICK j \in Active : j.id = f
        BY <2>2, <2>3, <2>4, RunningGains
    <2> QED BY <1>2, <2>1, <2>5, LoopsJobs DEF PassShape
<1> QED BY <1>1, <1>2

-----------------------------------------------------------------------------
\* How many there may be.

ToRestart(i) == IF Handles(i) /\ Retries(i) THEN pass.failed ELSE {}
Replaced(i) == IF Handles(i) THEN pass.old ELSE {}

\* The replicas that a service has or that the loop is about to make: those present,
\* one being created, and one for each that failed and is restarted, which is itself or
\* its successor.
Claims(i) == (Present(i) \cup Making(i) \cup ToRestart(i)) \ Replaced(i)

\* Those that the loop has counted, or is about to.
Others(i) == Claims(i) \ ToRestart(i)

Excess == faults + late + again
Due == IF pass.pc \in {"restarting", "restarted", "adding"} THEN 1 ELSE 0

CountOK(i) ==
    /\ Cardinality(Claims(i)) <= MaxReplicas + Excess
    /\ Handles(i) /\ pass.pc \in Replacing \cup {"restart", "scale", "adding"} =>
            Cardinality(Others(i)) <= pass.actual + Due + Excess

AllCounted == \A i \in Objects : SamePolicy(i) => CountOK(i)

LEMMA FaultsGrow ==
    ASSUME AppsInv, Next
    PROVE  faults' \in Nat /\ (faults' = faults \/ faults' = faults + 1)
<1>1. faults' \in Nat
    BY AppsStep, BoundsAssumption DEF ServicesOK, ServicesTypeOK
<1>2. ASSUME NEW j \in Active, Schedules(j) PROVE faults' = faults \/ faults' = faults + 1
    BY <1>2 DEF Schedules, Launched, Refused, AnswerLost, Fails, budgetVars
<1> QED BY <1>1, <1>2, StoreSteps DEF Trims, Makes, StopDone, End, budgetVars

LEMMA ExcessGrows ==
    ASSUME AppsInv, Next, History
    PROVE  /\ Excess \in Nat /\ Excess' \in Nat
           /\ LateNow \subseteq Replicas /\ Cardinality(LateNow) \in Nat
           /\ Excess' >= Excess + Cardinality(LateNow)
           /\ faults' = faults + 1 => Excess' >= Excess + Cardinality(LateNow) + 1
           /\ (\E r \in stopping : RollsNow(r)) => Excess' >= Excess + Cardinality(LateNow) + 1
<1> DEFINE A == {r \in stopping : RollsNow(r)}
<1>1. LateNow \subseteq Replicas /\ A \subseteq Replicas
    BY DEF LateNow, AppsInv, ServicesOK, ServicesTypeOK
<1>2. Cardinality(LateNow) \in Nat /\ Cardinality(A) \in Nat
    BY <1>1, CountParts
<1>3. late' = late + Cardinality(LateNow) /\ again' = again + Cardinality(A)
    BY DEF History, LateNow
<1>4. faults \in Nat /\ late \in Nat /\ again \in Nat
    BY BoundsAssumption DEF AppsInv, ServicesOK, ServicesTypeOK, HistoryOK
<1>5. faults' \in Nat /\ (faults' = faults \/ faults' = faults + 1)
    BY FaultsGrow
<1>6. ASSUME NEW r \in A PROVE Cardinality(A) >= 1
    <2>1. {r} \in SUBSET A /\ Cardinality({r}) = 1
        BY FS_Singleton
    <2> QED BY <1>1, <2>1, CountParts
<1> HIDE DEF A
<1>7. (\E r \in stopping : RollsNow(r)) => Cardinality(A) >= 1
    BY <1>6 DEF A
<1>8. Excess' = faults' + late' + again'
    BY DEF Excess
<1>9. /\ Excess = faults + late + again
      /\ Excess' = faults' + (late + Cardinality(LateNow)) + (again + Cardinality(A))
    BY <1>3, <1>8 DEF Excess
<1> HIDE DEF Excess
<1> QED BY <1>1, <1>2, <1>4, <1>5, <1>7, <1>9

LEMMA ClaimsReplicas ==
    ASSUME AppsInv, NEW i \in Objects
    PROVE  /\ Claims(i) \subseteq Replicas /\ Others(i) \subseteq Claims(i)
           /\ Cardinality(Claims(i)) \in Nat /\ Cardinality(Others(i)) \in Nat
<1>1. Busy => pass.failed \subseteq Replicas /\ pass.job \subseteq Job
    BY UnderPass DEF AppsInv, PassOK, Busy, ServicePass
<1>2. Claims(i) \subseteq Replicas
    BY <1>1 DEF Claims, Present, Live, InState, Of, Making, ToRestart, Handles, Job
<1>3. Others(i) \subseteq Claims(i)
    BY DEF Others
<1> QED BY <1>2, <1>3, CountParts

\* Nobody else makes replicas, and the loop stays within what was wanted.
CountInv ==
    /\ NoRestarts /\ StopsStarted /\ PassShape /\ TodoOurs /\ FailedGone
    /\ AllCounted

\* What others do.
LEMMA OthersCount ==
    ASSUME AppsInv, AppsInv', JobsInv, RunningRuns, JobsOfService, CountInv, Next, History, pass' = pass,
           NEW i \in Objects, SamePolicy(i)'
    PROVE  CountOK(i)'
<1>1. Handles(i)' <=> Handles(i)
    BY AppsStep DEF Handles, Busy, AppsInv, PassOK, MadeStays
<1>2. /\ Making(i)' = Making(i) /\ ToRestart(i)' = ToRestart(i) /\ Replaced(i)' = Replaced(i)
      /\ Due' = Due
    BY <1>1, RetriesStay DEF Making, ToRestart, Replaced, Due
<1>3. Present(i)' \subseteq Present(i) \cup Making(i) \cup LateNow
    BY <1>2, PresentGains DEF CountInv
<1>4. Claims(i)' \subseteq Claims(i) \cup LateNow /\ Others(i)' \subseteq Others(i) \cup LateNow
    BY <1>2, <1>3 DEF Claims, Others
<1>5. /\ Claims(i) \subseteq Replicas /\ Others(i) \subseteq Replicas
      /\ Claims(i)' \subseteq Replicas /\ Others(i)' \subseteq Replicas
    <2>1. AppsInv => Claims(i) \subseteq Replicas /\ Others(i) \subseteq Replicas
        BY ClaimsReplicas
    <2>2. Claims(i)' \subseteq Replicas /\ Others(i)' \subseteq Replicas
        BY <1>4, <2>1, ExcessGrows
    <2> QED BY <2>1, <2>2
<1>6. /\ Excess \in Nat /\ Excess' \in Nat /\ Excess' >= Excess + Cardinality(LateNow)
      /\ LateNow \subseteq Replicas
    BY ExcessGrows
<1>7. /\ Cardinality(Claims(i)') \in Nat /\ Cardinality(Claims(i)) \in Nat /\ Cardinality(LateNow) \in Nat
      /\ Cardinality(Claims(i)') <= Cardinality(Claims(i)) + Cardinality(LateNow)
      /\ Cardinality(Others(i)') \in Nat /\ Cardinality(Others(i)) \in Nat
      /\ Cardinality(Others(i)') <= Cardinality(Others(i)) + Cardinality(LateNow)
    BY <1>4, <1>5, <1>6, CountBoth
<1>8. CountOK(i)
    BY RetriesStay DEF CountInv, AllCounted
<1>9. Cardinality(Claims(i)') <= MaxReplicas + Excess'
    <2>1. Cardinality(Claims(i)) <= MaxReplicas + Excess
        BY <1>8 DEF CountOK
    <2> QED BY <1>6, <1>7, <2>1, BoundsAssumption
<1>10. ASSUME Handles(i)', pass.pc \in Replacing \cup {"restart", "scale", "adding"}
       PROVE  Cardinality(Others(i)') <= pass.actual + Due + Excess'
    <2>1. Cardinality(Others(i)) <= pass.actual + Due + Excess
        BY <1>1, <1>8, <1>10 DEF CountOK
    <2>2. pass.actual \in Nat /\ Due \in Nat
        BY <1>1, <1>10, UnderPass DEF Handles, Busy, AppsInv, PassOK, ServicePass, Due
    <2> QED BY <1>6, <1>7, <2>1, <2>2
<1> QED BY <1>2, <1>9, <1>10 DEF CountOK

\* What the loop does: no container ends in its steps.
LEMMA LoopGains ==
    ASSUME AppsInv, JobsInv, RunningRuns, JobsOfService, CountInv, Next, Loop, History, NEW i \in Objects
    PROVE  /\ Present(i)' \subseteq Present(i) \cup Making(i) \cup Making(i)'
           /\ \A r \in Replicas : ~FailsNow(r)
           /\ Excess \in Nat /\ Excess' \in Nat /\ Excess' >= Excess
           /\ faults' = faults + 1 => Excess' >= Excess + 1
           /\ (\E r \in stopping : RollsNow(r)) => Excess' >= Excess + 1
<1>1. ends' = ends
    BY DEF Loop, Reconcile, Tick, SkipStopped, Begin, ForOneService, Succeeds, Errs,
           FailedRestarted, FailedNotRestarted, ReplicaAdded, ReplicaNotAdded, RolledOne,
           NotRolledOne, DeleteFailed, UndoRestart, UndoAdd, Undo, ScaleUp, RestartFailed,
           StopExcess, RollPassesOver, RollOne, Launched, Refused, AnswerLost,
           servicesVars, budgetVars
<1>2. ASSUME NEW r \in Replicas, FailsNow(r) PROVE FALSE
    <2>1. ends' = ends + 1
        BY <1>2, OnlyEndsFail DEF End
    <2>2. ends \in Nat
        BY BoundsAssumption DEF AppsInv, ServicesOK, ServicesTypeOK
    <2> QED BY <1>1, <2>1, <2>2
<1>3. LateNow = {}
    BY <1>2 DEF LateNow, AppsInv, ServicesOK, ServicesTypeOK
<1>4. Present(i)' \subseteq Present(i) \cup Making(i) \cup Making(i)'
    BY <1>3, PresentGains DEF CountInv
<1>5. Cardinality(LateNow) = 0
    BY <1>3, FS_EmptySet
<1> QED BY <1>2, <1>4, <1>5, ExcessGrows

\* It does nothing to the services it is not at, and counts a service when it comes to it.
LEMMA LoopElsewhere ==
    ASSUME AppsInv, AppsInv', JobsInv, RunningRuns, JobsOfService,
           CountInv, Next, Loop, History, NEW i \in Objects, SamePolicy(i), ~Handles(i)
    PROVE  CountOK(i)'
<1>1. /\ Excess \in Nat /\ Excess' \in Nat /\ Excess' >= Excess
      /\ Present(i)' \subseteq Present(i) \cup Making(i) \cup Making(i)'
    BY LoopGains
<1>2. Cardinality(Claims(i)) <= MaxReplicas + Excess /\ Claims(i) = Present(i)
    BY DEF CountInv, AllCounted, CountOK, Claims, Making, ToRestart, Replaced
<1>3. ASSUME Claims(i)' \subseteq Claims(i) PROVE Cardinality(Claims(i)') <= MaxReplicas + Excess'
    <2>1. /\ Cardinality(Claims(i)') <= Cardinality(Claims(i))
          /\ Cardinality(Claims(i)') \in Nat /\ Cardinality(Claims(i)) \in Nat
        BY <1>3, ClaimsReplicas, CountParts
    <2> QED BY <1>1, <1>2, <2>1, BoundsAssumption
<1>4. CASE ~Handles(i)'
    <2>1. Claims(i)' = Present(i)' /\ Making(i) = {} /\ Making(i)' = {}
        BY <1>4 DEF Claims, Making, ToRestart, Replaced
    <2>2. Claims(i)' \subseteq Claims(i)
        BY <1>1, <1>2, <2>1
    <2> QED BY <1>3, <1>4, <2>2 DEF CountOK
<1>5. CASE Handles(i)'
    <2>1. ~Busy
        <3>1. ASSUME Busy PROVE pass'.svc = pass.svc
            BY <1>5, <3>1, BusySteps
               DEF Handles, BusyStep, Onward, Stays, Restarting, RestartSucceeds, RestartFails,
                   RestartCounts, RestartUndone, Adding, AddSucceeds, AddFails, GoesToRoll, Trimming, PassingOver,
                   Rolling
        <3>2. Busy => object'[pass.svc].id = object[pass.svc].id
            BY AppsStep DEF AppsInv, PassOK, Busy, MadeStays
        <3> QED BY <1>5, <3>1, <3>2 DEF Handles
    <2>2. Lists(i)
        <3>1. Lists(object[pass'.svc].id)
            BY <1>5, <2>1, ListSteps DEF Handles
        <3> QED BY <1>5, <3>1 DEF Lists, Handles
    <2>3. /\ Present(i)' = Present(i) /\ Making(i)' = {} /\ Replaced(i)' = {}
          /\ ToRestart(i)' = IF Retries(i) THEN InState(i, "failed") ELSE {}
        <3>1. Live(i)' = Live(i) /\ InState(i, "failed")' = InState(i, "failed")
            BY <2>2 DEF Lists, Live, InState, Of
        <3>2. Present(i)' = Present(i)
            BY <2>2, <3>1, RetriesLoop DEF Lists, Present
        <3> QED BY <1>5, <2>2, <3>2, RetriesLoop DEF Lists, ToRestart, Making, Replaced
    <2>4. Claims(i)' = Present(i)
        BY <2>3 DEF Claims, Present
    <2>5. Others(i)' \subseteq Live(i)
        BY <2>3, <2>4 DEF Others, Present
    <2>6. Live(i) \subseteq Replicas
        BY DEF Live, InState, Of
    <2>7. /\ Cardinality(Others(i)') <= pass'.actual
          /\ Cardinality(Others(i)') \in Nat /\ pass'.actual \in Nat
        BY <2>2, <2>5, <2>6, CountParts DEF Lists, Count
    <2>8. Due' \in Nat
        BY DEF Due
    <2>9. Cardinality(Others(i)') <= pass'.actual + Due' + Excess'
        BY <1>1, <2>7, <2>8
    <2> QED BY <1>2, <1>3, <2>4, <2>9 DEF CountOK
<1> QED BY <1>4, <1>5

\* At a service, each step keeps the count or adds what is allowed for.
LEMMA LoopHere ==
    ASSUME AppsInv, AppsInv', JobsInv, RunningRuns, JobsOfService,
           CountInv, Next, Loop, History, NEW i \in Objects, SamePolicy(i), Handles(i)
    PROVE  CountOK(i)'
<1> DEFINE J == {j.id : j \in pass.job}
           T == ToTry(pass)
<1>1. /\ Excess \in Nat /\ Excess' \in Nat /\ Excess' >= Excess
      /\ faults' = faults + 1 => Excess' >= Excess + 1
      /\ (\E r \in stopping : RollsNow(r)) => Excess' >= Excess + 1
      /\ Present(i)' \subseteq Present(i) \cup J \cup Making(i)'
    <2>1. Making(i) = J
        BY DEF Making
    <2> QED BY <2>1, LoopGains
<1>2. /\ Busy /\ object[pass.svc].id = i /\ object'[pass.svc].id = i
      /\ pass \in ServicePass /\ pass.actual \in Nat /\ pass.wanted \in 0..MaxReplicas
    BY AppsStep, UnderPass DEF Handles, AppsInv, PassOK, Busy, MadeStays, ServicePass
<1>3. /\ Claims(i) = (Present(i) \cup J \cup T) \ pass.old
      /\ Others(i) = Claims(i) \ T
      /\ ToRestart(i) = T
    BY RetriesHere DEF Claims, Others, Making, ToRestart, Replaced, ToTry
<1>4. /\ ~Busy' => Making(i)' = {} /\ Claims(i)' = Present(i)' /\ ~Handles(i)'
      /\ Busy' /\ pass'.svc = pass.svc =>
            /\ Making(i)' = {j.id : j \in pass'.job}
            /\ Claims(i)' = (Present(i)' \cup {j.id : j \in pass'.job} \cup ToTry(pass')) \ pass'.old
            /\ Others(i)' = Claims(i)' \ ToTry(pass')
    <2>1. Retries(i)' <=> ShouldRestart(pass.svc)
        BY RetriesHere, RetriesLoop
    <2> QED BY <1>2, <2>1 DEF Claims, Others, Making, ToRestart, Replaced, Handles, ToTry
<1>5. CountOK(i) /\ PassShape /\ Claims(i) \subseteq Replicas /\ Others(i) \subseteq Replicas
      /\ Cardinality(Claims(i)) \in Nat /\ Cardinality(Others(i)) \in Nat
    BY ClaimsReplicas DEF CountInv, AllCounted
<1>6. Cardinality(Claims(i)) <= MaxReplicas + Excess
    BY <1>5 DEF CountOK
<1>7. pass.pc \in Replacing \cup {"restart", "scale", "adding"} =>
        Cardinality(Others(i)) <= pass.actual + Due + Excess
    BY <1>5 DEF CountOK
<1>22. /\ T \subseteq pass.failed
       /\ pass'.svc = pass.svc /\ pass'.failed = pass.failed => ToTry(pass') = T
       /\ ShouldRestart(pass.svc) => T = pass.failed /\ (pass'.svc = pass.svc => ToTry(pass') = pass'.failed)
    BY DEF ToTry
<1> HIDE DEF J, T
\* Where nobody comes.
<1>8. ASSUME Claims(i)' \subseteq Claims(i)
      PROVE  Cardinality(Claims(i)') <= MaxReplicas + Excess'
    <2>1. Cardinality(Claims(i)') <= Cardinality(Claims(i)) /\ Cardinality(Claims(i)') \in Nat
        BY <1>5, <1>8, CountParts
    <2> QED BY <1>1, <1>5, <1>6, <2>1, BoundsAssumption
<1>9. ASSUME Others(i)' \subseteq Others(i), Cardinality(Others(i)) <= pass.actual + Due + Excess,
             pass'.actual \in Nat, pass.actual + Due + Excess <= pass'.actual + Due' + Excess'
      PROVE  Cardinality(Others(i)') <= pass'.actual + Due' + Excess'
    <2>1. Cardinality(Others(i)') <= Cardinality(Others(i)) /\ Cardinality(Others(i)') \in Nat
        BY <1>5, <1>9, CountParts
    <2>2. Due \in Nat /\ Due' \in Nat
        BY DEF Due
    <2> QED BY <1>1, <1>2, <1>5, <1>9, <2>1, <2>2
\* Where the pass leaves the service, or goes on to a step without a count.
<1>10. ASSUME Claims(i)' \subseteq Claims(i),
              Busy' => pass'.pc \notin Replacing \cup {"restart", "scale", "adding"}
       PROVE  CountOK(i)'
    BY <1>4, <1>8, <1>10 DEF CountOK, Handles
<1>11. ASSUME NEW f \in Replicas, NEW n \in Replicas, Restarting(f, n) PROVE CountOK(i)'
    <2>1. /\ pass.pc = "restart" /\ f \in pass.failed /\ pass.old = {} /\ NewJob(n).id = n
          /\ T = pass.failed
        BY <1>2, <1>5, <1>22, <1>11 DEF Restarting, At, PassShape, Replacing, NewJob
    <2>2. /\ Busy' /\ pass'.pc = "restarting" /\ pass'.svc = pass.svc /\ pass'.job = {NewJob(n)}
          /\ pass'.old = {f} /\ pass'.failed = pass.failed \ {f} /\ pass'.actual = pass.actual
        BY <1>11 DEF Restarting, Stays, Busy
    <2>3. {j.id : j \in pass'.job} = {n} /\ ToTry(pass') = pass.failed \ {f}
        <3>1. ShouldRestart(pass.svc)
            BY <1>2, <1>5, <2>1 DEF PassShape
        <3> QED BY <1>22, <2>1, <2>2, <3>1
    <2>4. Claims(i)' \subseteq (Claims(i) \ {f}) \cup {n} /\ f \in Claims(i)
          /\ Others(i)' \subseteq Others(i) \cup {n}
        BY <1>1, <1>3, <1>4, <2>1, <2>2, <2>3
    <2>5. Cardinality(Claims(i)') <= Cardinality(Claims(i)) /\ Cardinality(Claims(i)') \in Nat
          /\ Cardinality(Others(i)') <= Cardinality(Others(i)) + 1 /\ Cardinality(Others(i)') \in Nat
        BY <1>5, <2>4, CountSwap, CountOneMore
    <2>6. Due = 0 /\ Due' = 1
        BY <2>1, <2>2 DEF Due
    <2>7. Cardinality(Others(i)) <= pass.actual + Excess
        BY <1>1, <1>2, <1>7, <2>1, <2>6
    <2>8. Cardinality(Claims(i)') <= MaxReplicas + Excess'
          /\ Cardinality(Others(i)') <= pass'.actual + Due' + Excess'
        BY <1>1, <1>2, <1>5, <1>6, <2>2, <2>5, <2>6, <2>7, BoundsAssumption
    <2> QED BY <2>8 DEF CountOK
<1>12. CASE RestartSucceeds \/ RestartFails
    <2>1. /\ pass.pc = "restarting" /\ pass'.pc \in {"restarted", "unrestarted"} /\ Busy'
          /\ pass'.svc = pass.svc /\ pass'.job = pass.job /\ pass'.old = pass.old
          /\ pass'.failed = pass.failed /\ pass'.actual = pass.actual
        BY <1>12 DEF RestartSucceeds, RestartFails, Stays, At, Busy
    <2>2. Claims(i)' \subseteq Claims(i) /\ Others(i)' \subseteq Others(i)
        BY <1>1, <1>3, <1>4, <1>22, <2>1 DEF J
    <2>3. Due = 1 /\ Cardinality(Others(i)) <= pass.actual + Due + Excess
        BY <1>7, <2>1 DEF Due, Replacing
    <2>4. pass.actual + Due + Excess <= pass'.actual + Due' + Excess'
        <3>1. CASE RestartSucceeds
            <4>1. Due' = 1
                BY <3>1 DEF RestartSucceeds, Stays, Due
            <4> QED BY <1>1, <1>2, <2>1, <2>3, <4>1
        <3>2. CASE RestartFails
            <4>1. Due' = 0 /\ Excess' >= Excess + 1
                BY <1>1, <3>2 DEF RestartFails, Stays, Due
            <4> QED BY <1>1, <1>2, <2>1, <2>3, <4>1
        <3> QED BY <1>12, <3>1, <3>2
    <2> QED BY <1>2, <1>8, <1>9, <2>1, <2>2, <2>3, <2>4 DEF CountOK
\* Where the loop has created one and decides what is next.
<1>13. ASSUME NEW pcs, NEW actual, Onward(pcs, {}, {}, pass.failed, actual),
              pass.old = {} \/ \A f \in pass.old : replica'[f] = Absent
       PROVE  /\ Claims(i)' \subseteq Claims(i)
              /\ Busy' => Others(i)' \subseteq Others(i) /\ pass'.actual = actual
    <2>1. \A f \in pass.old : f \notin Present(i)'
        BY <1>13 DEF Present, Live, InState, Of
    <2>2. CASE ~Busy'
        BY <1>1, <1>3, <1>4, <2>1, <2>2
    <2>3. CASE Busy'
        <3>1. /\ pass'.svc = pass.svc /\ {j.id : j \in pass'.job} = {} /\ pass'.old = {}
              /\ pass'.failed = pass.failed /\ pass'.actual = actual
            BY <1>13, <2>3 DEF Onward, Stays
        <3>2. \A f \in pass.old : f \notin T
            BY <1>2, <1>5, <1>22 DEF PassShape
        <3>3. /\ Claims(i)' = Present(i)' \cup T
              /\ Others(i)' = Claims(i)' \ T
              /\ Making(i)' = {}
            BY <1>4, <1>22, <2>3, <3>1
        <3>4. Claims(i)' \subseteq Claims(i)
            BY <1>1, <1>3, <2>1, <3>2, <3>3
        <3> QED BY <1>3, <3>1, <3>3, <3>4
    <2> QED BY <2>2, <2>3
<1>14. CASE RestartCounts
    <2>1. /\ pass.pc = "restarted" /\ Due = 1 /\ Due' \in Nat
          /\ Claims(i)' \subseteq Claims(i)
          /\ Busy' => Others(i)' \subseteq Others(i) /\ pass'.actual = pass.actual + 1
        BY <1>13, <1>14 DEF RestartCounts, At, Due
    <2>2. Cardinality(Others(i)) <= pass.actual + Due + Excess
        BY <1>7, <2>1 DEF Replacing
    <2>3. Busy' => Cardinality(Others(i)') <= pass'.actual + Due' + Excess'
        BY <1>1, <1>2, <1>9, <2>1, <2>2
    <2> QED BY <1>8, <2>1, <2>3 DEF CountOK, Handles
<1>15. CASE AddSucceeds
    <2>1. pass.pc = "adding" /\ Due = 1 /\ Due' \in Nat /\ pass.old = {}
        BY <1>2, <1>5, <1>15 DEF AddSucceeds, At, Due, PassShape, Replacing
    <2>2. /\ Claims(i)' \subseteq Claims(i)
          /\ Busy' => Others(i)' \subseteq Others(i) /\ pass'.actual = pass.actual + 1
        BY <1>13, <1>15, <2>1 DEF AddSucceeds
    <2>3. Cardinality(Others(i)) <= pass.actual + Due + Excess
        BY <1>7, <2>1
    <2>4. Busy' => Cardinality(Others(i)') <= pass'.actual + Due' + Excess'
        BY <1>1, <1>2, <1>9, <2>1, <2>2, <2>3
    <2> QED BY <1>8, <2>2, <2>4 DEF CountOK, Handles
<1>16. CASE RestartUndone
    <2>1. pass.pc = "unrestarted" /\ Due = 0 /\ Due' \in Nat
        BY <1>16 DEF RestartUndone, At, Due
    <2>2. PICK f \in Replicas \ pass.failed : pass.old = {f}
        BY <1>2, <1>5, <2>1 DEF PassShape, Replacing
    <2> PICK j \in pass.job : pass.job = {j}
        BY <1>2, <1>5, <2>1 DEF PassShape
    <2>3. /\ J = {j.id} /\ j.id \notin T \cup pass.old /\ j.id \notin Present(i)'
          /\ f \notin T
        BY <1>2, <1>5, <1>22, <1>16, <2>2 DEF J, PassShape, RestartUndone, Present, Live, InState, Of
    <2>4. /\ j.id \in Claims(i) /\ j.id \in Others(i)
          /\ Claims(i)' \subseteq (Claims(i) \ {j.id}) \cup {f}
        <3>1. CASE ~Busy'
            BY <1>1, <1>3, <1>4, <2>2, <2>3, <3>1
        <3>2. CASE Busy'
            <4>1. /\ pass'.svc = pass.svc /\ {k.id : k \in pass'.job} = {} /\ pass'.old = {}
                  /\ ToTry(pass') = T
                BY <1>22, <1>16, <3>2 DEF RestartUndone, Onward, Stays
            <4> QED BY <1>1, <1>3, <1>4, <2>2, <2>3, <3>2, <4>1
        <3> QED BY <3>1, <3>2
    <2>5. Busy' => /\ Others(i)' \subseteq (Others(i) \ {j.id}) \cup {f}
                   /\ pass'.actual = pass.actual
        <3>1. Busy' => /\ pass'.svc = pass.svc /\ ToTry(pass') = T
                       /\ pass'.actual = pass.actual
            BY <1>22, <1>16 DEF RestartUndone, Onward, Stays
        <3> QED BY <1>3, <1>4, <2>4, <3>1
    <2>6. /\ Cardinality(Claims(i)') <= Cardinality(Claims(i)) /\ Cardinality(Claims(i)') \in Nat
          /\ Busy' => /\ Cardinality(Others(i)') <= Cardinality(Others(i))
                      /\ Cardinality(Others(i)') \in Nat
        BY <1>5, <2>2, <2>4, <2>5, CountSwap
    <2>7. Cardinality(Others(i)) <= pass.actual + Due + Excess
        BY <1>7, <2>1 DEF Replacing
    <2>8. Cardinality(Claims(i)') <= MaxReplicas + Excess'
        BY <1>1, <1>5, <1>6, <2>6, BoundsAssumption
    <2>9. Busy' => Cardinality(Others(i)') <= pass'.actual + Due' + Excess'
        BY <1>1, <1>2, <1>5, <2>1, <2>5, <2>6, <2>7
    <2> QED BY <2>8, <2>9 DEF CountOK, Handles
<1>17. ASSUME NEW n \in Replicas, Adding(n) PROVE CountOK(i)'
    <2>1. /\ pass.pc = "scale" /\ pass.actual < pass.wanted /\ T = {} /\ pass.old = {}
          /\ NewJob(n).id = n
        BY <1>2, <1>5, <1>17 DEF T, Adding, At, PassShape, Replacing, NewJob
    <2>2. /\ Busy' /\ pass'.pc = "adding" /\ pass'.svc = pass.svc /\ pass'.job = {NewJob(n)}
          /\ pass'.old = {} /\ ToTry(pass') = {} /\ pass'.actual = pass.actual
        BY <1>22, <1>17, <2>1 DEF Adding, Stays, Busy
    <2>3. {j.id : j \in pass'.job} = {n}
        BY <2>1, <2>2
    <2>4. /\ Claims(i)' \subseteq Others(i) \cup {n} /\ Others(i)' \subseteq Others(i) \cup {n}
        BY <1>1, <1>3, <1>4, <2>1, <2>2, <2>3
    <2>5. /\ Cardinality(Claims(i)') <= Cardinality(Others(i)) + 1 /\ Cardinality(Claims(i)') \in Nat
          /\ Cardinality(Others(i)') <= Cardinality(Others(i)) + 1 /\ Cardinality(Others(i)') \in Nat
        BY <1>5, <2>4, CountOneMore
    <2>6. Due = 0 /\ Due' = 1
        BY <2>1, <2>2 DEF Due
    <2>7. Cardinality(Others(i)) <= pass.actual + Excess
        BY <1>1, <1>2, <1>7, <2>1, <2>6
    <2>8. pass.actual + 1 <= MaxReplicas
        BY <1>2, <2>1, BoundsAssumption
    <2>9. /\ Cardinality(Claims(i)') <= MaxReplicas + Excess'
          /\ Cardinality(Others(i)') <= pass'.actual + Due' + Excess'
        BY <1>1, <1>2, <1>5, <2>2, <2>5, <2>6, <2>7, <2>8, BoundsAssumption
    <2> QED BY <2>9 DEF CountOK
<1>18. CASE AddFails
    <2>1. /\ Busy' /\ pass'.pc = "unadded" /\ pass'.svc = pass.svc /\ pass'.job = pass.job
          /\ pass'.old = pass.old /\ pass'.failed = pass.failed
        BY <1>18 DEF AddFails, Stays, Busy
    <2>2. Claims(i)' \subseteq Claims(i)
        BY <1>1, <1>3, <1>4, <1>22, <2>1 DEF J
    <2> QED BY <1>10, <2>1, <2>2 DEF Replacing
<1>19. CASE GoesToRoll
    <2>1. /\ pass.old = {} /\ Onward({"roll"}, {}, {}, pass.failed, pass.actual)
        BY <1>2, <1>5, <1>19 DEF GoesToRoll, PassShape, Replacing
    <2>2. Claims(i)' \subseteq Claims(i)
        BY <1>13, <2>1
    <2>3. Busy' => pass'.pc = "roll"
        BY <2>1 DEF Onward, Stays
    <2> QED BY <1>10, <2>2, <2>3 DEF Replacing
<1>20. CASE Trimming \/ PassingOver
    <2>1. /\ T = {} /\ pass.old = {}
          /\ Busy' => /\ pass'.pc \in {"trim", "roll"} /\ pass'.svc = pass.svc
                      /\ pass'.job = pass.job /\ pass'.old = {} /\ ToTry(pass') = {}
        BY <1>2, <1>5, <1>22, <1>20 DEF T, Trimming, PassingOver, Onward, Stays, At, PassShape, Replacing
    <2>2. Claims(i)' \subseteq Claims(i)
        <3>1. CASE Busy'
            BY <1>1, <1>3, <1>4, <2>1, <3>1 DEF J
        <3>2. CASE ~Busy'
            BY <1>1, <1>3, <1>4, <2>1, <3>2
        <3> QED BY <3>1, <3>2
    <2> QED BY <1>10, <2>1, <2>2 DEF Replacing
\* A replica that is not being stopped yet leaves when its successor comes.
<1>21. ASSUME NEW r \in Replicas, NEW n \in Replicas, Rolling(r, n) PROVE CountOK(i)'
    <2>1. /\ pass.pc = "roll" /\ T = {} /\ pass.old = {} /\ NewJob(n).id = n
          /\ r \in pass.todo /\ r \notin pass'.todo /\ n \in FreeReplicas
          /\ replica[r].state = "running" /\ r \in stopping'
        BY <1>2, <1>5, <1>21 DEF T, Rolling, At, PassShape, Replacing, NewJob
    <2>2. /\ Busy' /\ pass'.pc = "rolling" /\ pass'.svc = pass.svc /\ pass'.job = {NewJob(n)}
          /\ pass'.old = {} /\ ToTry(pass') = {}
        BY <1>22, <1>21, <2>1 DEF Rolling, Stays, Busy
    <2>3. {j.id : j \in pass'.job} = {n}
        BY <2>1, <2>2
    <2>4. Claims(i)' \subseteq Claims(i) \cup {n}
        BY <1>1, <1>3, <1>4, <2>1, <2>2, <2>3
    <2>5. Cardinality(Claims(i)') <= MaxReplicas + Excess'
        <3>1. CASE r \in stopping
            <4>1. Excess' >= Excess + 1
                BY <1>1, <1>21, <2>1, <3>1 DEF RollsNow, Rolling
            <4>2. Cardinality(Claims(i)') <= Cardinality(Claims(i)) + 1
                  /\ Cardinality(Claims(i)') \in Nat
                BY <1>5, <2>4, CountOneMore
            <4> QED BY <1>1, <1>5, <1>6, <4>1, <4>2, BoundsAssumption
        <3>2. CASE r \notin stopping
            <4>1. replica[r].service = i
                BY <1>2, <2>1 DEF CountInv, TodoOurs
            <4>2. r \in Claims(i)
                BY <1>3, <2>1, <3>2, <4>1 DEF Present, Live, InState, Of, Absent
            <4>3. r # n /\ r \notin Present(i)'
                <5>1. r # n
                    BY <2>1, HeldNotFree DEF FreeReplicas, Absent
                <5>2. replica'[r].state # "failed"
                    BY <2>1, LoopGains DEF FailsNow
                <5> QED BY <2>1, <5>1, <5>2 DEF Present, Live, InState
            <4>4. Claims(i)' \subseteq (Claims(i) \ {r}) \cup {n}
                BY <1>4, <2>1, <2>2, <2>3, <2>4, <4>3
            <4>5. Cardinality(Claims(i)') <= Cardinality(Claims(i)) /\ Cardinality(Claims(i)') \in Nat
                BY <1>5, <4>2, <4>4, CountSwap
            <4> QED BY <1>1, <1>5, <1>6, <4>5, BoundsAssumption
        <3> QED BY <3>1, <3>2
    <2> QED BY <2>2, <2>5 DEF CountOK, Replacing
<1> QED BY <1>2, <1>11, <1>12, <1>14, <1>15, <1>16, <1>17, <1>18, <1>19, <1>20, <1>21, BusySteps
        DEF BusyStep
LEMMA CountStep ==
    "restart" \notin Commands =>
        (AppsInv /\ AppsInv' /\ JobsInv /\ SwitchOffInv /\ CountInv /\ [Next]_vars => CountInv')
<1> SUFFICES ASSUME "restart" \notin Commands, AppsInv, AppsInv', JobsInv,
                    SwitchOffInv, CountInv, [Next]_vars
             PROVE  CountInv'
    OBVIOUS
<1>1. CASE Next
    <2>1. History
        BY <1>1 DEF Next, Users, Handlers, Loop, Workers
    <2>2. ASSUME NEW i \in Objects, SamePolicy(i)' PROVE CountOK(i)'
        BY <1>1, <2>1, <2>2, OthersKeepPass, OthersCount, LoopElsewhere, LoopHere, RetriesStay
           DEF SwitchOffInv
    <2>3. AllCounted'
        BY <2>2 DEF AllCounted
    <2> QED BY <1>1, <2>3, NoRestartsStep, StopsStartedStep, PassShapeStep, TodoOursStep, FailedGoneStep
            DEF CountInv, SwitchOffInv
<1>2. CASE UNCHANGED vars
    <2> USE DEF vars, reconcilerVars, servicesVars, serviceVars, replicaVars, budgetVars, commandVars
    <2>1. NoRestarts' /\ StopsStarted' /\ PassShape' /\ TodoOurs' /\ FailedGone'
        BY <1>2 DEF CountInv, NoRestarts, Runs, StopsStarted, PassShape, TodoOurs, FailedGone, Busy,
                    ToTry, ShouldRestart
    <2>2. ASSUME NEW i \in Objects
          PROVE  /\ Claims(i)' = Claims(i) /\ Others(i)' = Others(i) /\ (Handles(i)' <=> Handles(i))
                 /\ SamePolicy(i)' <=> SamePolicy(i)
        <3>1. (Retries(i)' <=> Retries(i)) /\ (SamePolicy(i)' <=> SamePolicy(i))
            BY <1>2 DEF Retries, SamePolicy, ShouldRestart
        <3>2. Present(i)' = Present(i)
            BY <1>2, <3>1 DEF Present, Live, InState, Of
        <3>3. /\ Making(i)' = Making(i) /\ ToRestart(i)' = ToRestart(i) /\ Replaced(i)' = Replaced(i)
              /\ Handles(i)' <=> Handles(i)
            BY <1>2, <3>1 DEF Making, ToRestart, Replaced, Handles, Busy
        <3> QED BY <3>1, <3>2, <3>3 DEF Others, Claims
    <2>3. Due' = Due /\ Excess' = Excess
        BY <1>2 DEF Due, Excess
    <2> QED BY <1>2, <2>1, <2>2, <2>3 DEF CountInv, AllCounted, CountOK
<1> QED BY <1>1, <1>2

LEMMA CountInit == Init => CountInv
<1> SUFFICES ASSUME Init PROVE CountInv
    OBVIOUS
<1> USE DEF Init, ReconcilerInit, ServicesInit, Idle
<1>1. NoRestarts /\ StopsStarted /\ PassShape /\ TodoOurs /\ FailedGone
    BY DEF NoRestarts, Runs, StopsStarted, PassShape, TodoOurs, FailedGone, Busy
<1>2. ASSUME NEW i \in Objects PROVE CountOK(i)
    <2>1. Claims(i) = {} /\ ~Handles(i)
        BY DEF Claims, Present, Live, InState, Of, Making, ToRestart, Replaced, Handles, Busy
    <2>2. Cardinality(Claims(i)) = 0
        BY <2>1, FS_EmptySet
    <2> QED BY <2>1, <2>2, BoundsAssumption DEF CountOK, Excess
<1> QED BY <1>1, <1>2 DEF CountInv, AllCounted

\* The loop never has more replicas of a service than were wanted at most, but for
\* the exceptions that are counted -- one for each deploy request that failed, and for
\* each replica that failed or was rolled over while it was being stopped: for any
\* numbers of users, services and policies, and requests, stops and ends that meet a pass
\* at any of its steps.  A user who restarts a replica makes one without counting:
\* hence the hypothesis.
THEOREM NeverTooManyHolds ==
    "restart" \notin Commands => (Spec => []NeverTooMany)
<1> SUFFICES ASSUME "restart" \notin Commands PROVE Spec => []NeverTooMany
    OBVIOUS
<1>1. AppsInv /\ AppsInv' /\ JobsInv /\ SwitchOffInv /\ CountInv /\ [Next]_vars => CountInv'
    BY CountStep
<1>2. AppsInv /\ CountInv => NeverTooMany
    <2> SUFFICES ASSUME AppsInv, CountInv, NEW i \in Objects, SamePolicy(i)
                 PROVE  Cardinality(Live(i) \ stopping) <= MaxReplicas + faults + late + again
        BY DEF NeverTooMany
    <2>1. Live(i) \ stopping \subseteq Claims(i)
        BY DEF CountInv, FailedGone, Claims, Present, Replaced, Handles, Live, InState, Of
    <2>2. /\ Cardinality(Live(i) \ stopping) <= Cardinality(Claims(i))
          /\ Cardinality(Live(i) \ stopping) \in Nat /\ Cardinality(Claims(i)) \in Nat
        BY <2>1, ClaimsReplicas, CountParts
    <2>3. Cardinality(Claims(i)) <= MaxReplicas + Excess
        BY DEF CountInv, AllCounted, CountOK
    <2>4. MaxReplicas + Excess = MaxReplicas + faults + late + again /\ MaxReplicas + Excess \in Nat
        BY BoundsAssumption DEF Excess, AppsInv, ServicesOK, ServicesTypeOK, HistoryOK
    <2> QED BY <2>2, <2>3, <2>4
<1> QED BY <1>1, <1>2, CountInit, AppsStepInv, JobsInvariant, SwitchOffInvariant, PTL DEF Spec
=============================================================================
