----------------------------- MODULE AppsProofs -----------------------------
(***************************************************************************)
(* Services, requests, commands and the reconciler, for any numbers of     *)
(* users, services and replicas.  The proofs go from types, over where a   *)
(* running container is accounted for, to services that are switched off.  *)
(***************************************************************************)
EXTENDS Apps, FiniteSetTheorems, TLAPS

-----------------------------------------------------------------------------
\* Types.  What handlers, the loop and the store refer to are objects that were
\* filled in, and their IDs never change.

Made == {o \in Objects : object[o] \in Service}

StoreOK == \A i \in Stored : services[i] \in Made /\ object[services[i]].id = i

RequestsOK == \A q \in requests : q.op \in {"post", "put", "save"} => q.obj \in Made

PassOK(p) ==
    /\ p \in Pass
    /\ p.pc # "idle" => p.left \subseteq Made
    /\ p.pc \notin {"idle", "next"} => p.svc \in Made
    /\ p.pc = "trim" => p.actual > p.wanted

CommandsOK == cmd \in [Clients -> Command \cup {NoCommand}] /\ issued \in 0..MaxCommands

HistoryOK ==
    /\ raced \subseteq Objects /\ hit \subseteq Replicas
    /\ late \in Nat /\ late <= ends
    /\ again \in Nat

ServicesOK == ServicesTypeOK /\ StoreOK /\ RequestsOK

AppsInv == ServicesOK /\ PassOK(pass) /\ CommandsOK /\ HistoryOK

MadeStays == \A o \in Made : o \in Made' /\ object'[o].id = object[o].id

\* What a request has, by its kind.
LEMMA RequestKinds ==
    ASSUME NEW q \in Request
    PROVE  /\ q.by \in Clients
           /\ q.op \in {"post", "save"} => q \in [by : Clients, op : {"post", "save"}, obj : Objects]
           /\ q.op = "put" => q \in [by : Clients, op : {"put"}, obj : Objects,
                                     state : {"running", "stopped", "same", "bad"}]
           /\ q.op = "delete" => q \in [by : Clients, op : {"delete"}, svc : Objects,
                                        todo : SUBSET Replicas]
           /\ q.op = "drop" => q \in [by : Clients, op : {"drop"}, ids : SUBSET Objects]
           /\ q.op = "dropping" => q \in [by : Clients, op : {"dropping"}, ids : SUBSET Objects,
                                          svc : Objects, todo : SUBSET Replicas, ran : SUBSET Replicas]
           /\ q.op = "restart" => q \in [by : Clients, op : {"restart"}, old : Replicas,
                                         ran : BOOLEAN, record : Record]
           /\ q.op = "replace" => q \in [by : Clients, op : {"replace"}, old : Replicas, record : Record]
           /\ q.op = "schedule" => q \in [by : Clients, op : {"schedule"}, job : Job]
BY DEF Request

\* A service object is not one that is not filled in.
LEMMA MadeOnce == \A o \in Made : object[o] # NoService
BY NoObjectAssumption DEF Made, Service, NoService

-----------------------------------------------------------------------------
\* The handlers' steps keep the types of what they share.

LEMMA PostOK ==
    ASSUME ServicesOK, NEW c \in Clients, NEW o \in Objects, NEW n \in Names,
           NEW k \in 0..MaxReplicas, NEW g \in Configs, NEW p \in Policies,
           Post(c, o, n, k, g, p)
    PROVE  ServicesOK' /\ MadeStays
<1> USE DEF ServicesOK, ServicesTypeOK
<1>1. PICK i \in Objects :
        object' = [object EXCEPT ![o] = [id |-> i, name |-> n, replicas |-> k, config |-> g,
                                         policy |-> p, state |-> "running"]]
    BY DEF Post, IDFor, ByName, Stored
<1>2. object' \in [Objects -> Service \cup {NoService}]
    BY <1>1 DEF Service
<1>3. o \in Made' /\ o \notin Made
    BY <1>1, MadeOnce DEF Made, Service, Post
<1>4. MadeStays
    BY <1>1, <1>3 DEF MadeStays, Made
<1>5. requests' \subseteq Request /\ RequestsOK'
    BY <1>3, <1>4 DEF Post, Accept, Request, RequestsOK, MadeStays
<1> QED BY <1>2, <1>4, <1>5 DEF Post, StoreOK, Stored, MadeStays, replicaVars, budgetVars

LEMMA PutOK ==
    ASSUME ServicesOK, NEW c \in Clients, NEW i \in Objects, NEW k \in 0..MaxReplicas,
           NEW s \in {"running", "stopped", "same", "bad"}, Put(c, i, k, s)
    PROVE  ServicesOK' /\ MadeStays
<1> USE DEF ServicesOK, ServicesTypeOK
<1>1. services[i] \in Made
    BY DEF Put, StoreOK
<1>2. object' \in [Objects -> Service \cup {NoService}] /\ MadeStays
    BY <1>1 DEF Put, Made, MadeStays, Service
<1>3. requests' \subseteq Request /\ RequestsOK'
    BY <1>1, <1>2 DEF Put, Accept, Request, RequestsOK, MadeStays, Made
<1> QED BY <1>2, <1>3 DEF Put, StoreOK, Stored, MadeStays, replicaVars, budgetVars

LEMMA SaveOK ==
    ASSUME ServicesOK, NEW q \in requests, PostSave(q) \/ PutSave(q)
    PROVE  ServicesOK' /\ MadeStays
<1> USE DEF ServicesOK, ServicesTypeOK
<1>1. q.obj \in Made /\ object[q.obj].id \in Objects
    BY DEF PostSave, PutSave, Save, RequestsOK, Made, Service
<1>2. services' = [services EXCEPT ![object[q.obj].id] = q.obj] /\ object' = object
    BY DEF PostSave, PutSave, Save
<1>3. services' \in [Objects -> Objects \cup {NoObject}] /\ StoreOK'
    BY <1>1, <1>2 DEF StoreOK, Stored, Made
<1>4. requests' \subseteq requests
    BY DEF PostSave, PutSave, Save, Finish
<1> QED BY <1>2, <1>3, <1>4
        DEF PostSave, PutSave, Save, RequestsOK, Made, MadeStays, replicaVars, budgetVars

LEMMA PutRestOK ==
    ASSUME ServicesOK, NEW q \in requests, PutRejected(q) \/ PutState(q)
    PROVE  ServicesOK' /\ MadeStays
<1> USE DEF ServicesOK, ServicesTypeOK
<1>1. CASE PutRejected(q)
    BY <1>1 DEF PutRejected, Finish, StoreOK, Stored, RequestsOK, Made, MadeStays,
                serviceVars, replicaVars, budgetVars
<1>2. CASE PutState(q)
    <2>1. /\ q.obj \in Made /\ q.by \in Clients
          /\ q.state \in {"running", "stopped", "same", "bad"} /\ q.state # "bad"
        BY <1>2, RequestKinds DEF PutState, RequestsOK
    <2>2. object' \in [Objects -> Service \cup {NoService}] /\ MadeStays
        BY <1>2, <2>1 DEF PutState, Made, MadeStays, Service
    <2>3. requests' \subseteq Request /\ RequestsOK'
        BY <1>2, <2>1, <2>2 DEF PutState, Continue, Request, RequestsOK, MadeStays, Made
    <2> QED BY <1>2, <2>2, <2>3
            DEF PutState, StoreOK, Stored, MadeStays, replicaVars, budgetVars
<1> QED BY <1>1, <1>2

\* What requests leave alone when they add none that has an object.
LEMMA ObjectsAlone ==
    ASSUME StoreOK, RequestsOK, UNCHANGED object,
           \A i \in Objects : services'[i] \in {services[i], NoObject},
           \A q \in requests' : q \in requests \/ q.op \notin {"post", "put", "save"}
    PROVE  StoreOK' /\ RequestsOK' /\ MadeStays
BY DEF StoreOK, Stored, RequestsOK, Made, MadeStays

LEMMA DeleteOK ==
    ASSUME ServicesOK,
           \/ \E c \in Clients, i \in Objects : Delete(c, i)
           \/ \E q \in requests, r \in Replicas : DeleteStop(q, r)
           \/ \E q \in requests : DeleteEnd(q)
    PROVE  ServicesOK' /\ MadeStays
<1> USE DEF ServicesOK, ServicesTypeOK
<1>1. ASSUME NEW c \in Clients, NEW i \in Objects, Delete(c, i) PROVE ServicesOK' /\ MadeStays
    <2>1. [by |-> c, op |-> "delete", svc |-> i, todo |-> InState(i, "running")] \in Request
        BY DEF Request, InState, Of
    <2>2. StoreOK' /\ RequestsOK' /\ MadeStays
        BY <1>1, ObjectsAlone DEF Delete, Accept, serviceVars
    <2> QED BY <1>1, <2>1, <2>2 DEF Delete, Accept, serviceVars, replicaVars, budgetVars
<1>2. ASSUME NEW q \in requests, NEW r \in Replicas, DeleteStop(q, r)
      PROVE  ServicesOK' /\ MadeStays
    <2>1. q \in [by : Clients, op : {"delete"}, svc : Objects, todo : SUBSET Replicas]
        BY <1>2, RequestKinds DEF DeleteStop
    <2>2. [q EXCEPT !.todo = @ \ {r}] \in [by : Clients, op : {"delete"}, svc : Objects,
                                          todo : SUBSET Replicas]
        BY <2>1
    <2>3. [q EXCEPT !.todo = @ \ {r}] \in Request /\ [q EXCEPT !.todo = @ \ {r}].op = "delete"
        BY <2>2 DEF Request
    <2>4. StoreOK' /\ RequestsOK' /\ MadeStays
        BY <1>2, <2>3, ObjectsAlone DEF DeleteStop, Continue, serviceVars
    <2>5. Stops(r) \subseteq Replicas
        BY DEF Stops
    <2> QED BY <1>2, <2>3, <2>4, <2>5 DEF DeleteStop, Continue, serviceVars, budgetVars
<1>3. ASSUME NEW q \in requests, DeleteEnd(q) PROVE ServicesOK' /\ MadeStays
    <2>1. services' \in [Objects -> Objects \cup {NoObject}]
        BY <1>3 DEF DeleteEnd
    <2>2. StoreOK' /\ RequestsOK' /\ MadeStays
        BY <1>3, ObjectsAlone DEF DeleteEnd, Finish
    <2> QED BY <1>3, <2>1, <2>2 DEF DeleteEnd, Finish, replicaVars, budgetVars
<1> QED BY <1>1, <1>2, <1>3

LEMMA DropOK ==
    ASSUME ServicesOK,
           \/ \E c \in Clients : Drop(c)
           \/ \E q \in requests, i \in Objects : DropList(q, i)
           \/ \E q \in requests, r \in Replicas : DropReplica(q, r)
           \/ \E q \in requests : DropService(q) \/ DropEnd(q)
    PROVE  ServicesOK' /\ MadeStays
<1> USE DEF ServicesOK, ServicesTypeOK
<1>1. ASSUME NEW c \in Clients, Drop(c) PROVE ServicesOK' /\ MadeStays
    <2>1. [by |-> c, op |-> "drop", ids |-> Stored] \in Request
        BY DEF Request, Stored
    <2>2. StoreOK' /\ RequestsOK' /\ MadeStays
        BY <1>1, ObjectsAlone DEF Drop, Accept, serviceVars
    <2> QED BY <1>1, <2>1, <2>2 DEF Drop, Accept, serviceVars, replicaVars, budgetVars
<1>2. ASSUME NEW q \in requests, NEW i \in Objects, DropList(q, i)
      PROVE  ServicesOK' /\ MadeStays
    <2>1. q \in [by : Clients, op : {"drop"}, ids : SUBSET Objects]
        BY <1>2, RequestKinds DEF DropList
    <2>2. [by |-> q.by, op |-> "dropping", ids |-> q.ids \ {i}, svc |-> i,
           todo |-> Of(i), ran |-> InState(i, "running")] \in Request
        BY <2>1 DEF Request, InState, Of
    <2>3. StoreOK' /\ RequestsOK' /\ MadeStays
        BY <1>2, ObjectsAlone DEF DropList, Continue, serviceVars
    <2> QED BY <1>2, <2>2, <2>3 DEF DropList, Continue, serviceVars, replicaVars, budgetVars
<1>3. ASSUME NEW q \in requests, NEW r \in Replicas, DropReplica(q, r)
      PROVE  ServicesOK' /\ MadeStays
    <2> DEFINE K == [by : Clients, op : {"dropping"}, ids : SUBSET Objects, svc : Objects,
                     todo : SUBSET Replicas, ran : SUBSET Replicas]
               p == [q EXCEPT !.todo = @ \ {r}, !.ran = @ \ {r}]
    <2>1. q \in K
        BY <1>3, RequestKinds DEF DropReplica
    <2>2. p \in K
        BY <2>1
    <2>3. p \in Request /\ p.op = "dropping"
        BY <2>2 DEF Request
    <2>4. StoreOK' /\ RequestsOK' /\ MadeStays
        BY <1>3, <2>3, ObjectsAlone DEF DropReplica, Continue, serviceVars
    <2>5. Stops(r) \subseteq Replicas
        BY DEF Stops
    <2> QED BY <1>3, <2>3, <2>4, <2>5 DEF DropReplica, Continue, serviceVars, budgetVars
<1>4. ASSUME NEW q \in requests, DropService(q) PROVE ServicesOK' /\ MadeStays
    <2>1. q \in [by : Clients, op : {"dropping"}, ids : SUBSET Objects, svc : Objects,
                 todo : SUBSET Replicas, ran : SUBSET Replicas]
        BY <1>4, RequestKinds DEF DropService
    <2>2. [by |-> q.by, op |-> "drop", ids |-> q.ids] \in Request
        BY <2>1 DEF Request
    <2>3. StoreOK' /\ RequestsOK' /\ MadeStays
        BY <1>4, ObjectsAlone DEF DropService, Continue
    <2>4. services' \in [Objects -> Objects \cup {NoObject}]
        BY <1>4 DEF DropService
    <2> QED BY <1>4, <2>2, <2>3, <2>4 DEF DropService, Continue, replicaVars, budgetVars
<1>5. ASSUME NEW q \in requests, DropEnd(q) PROVE ServicesOK' /\ MadeStays
    <2>1. StoreOK' /\ RequestsOK' /\ MadeStays
        BY <1>5, ObjectsAlone DEF DropEnd, Finish, serviceVars
    <2> QED BY <1>5, <2>1 DEF DropEnd, Finish, serviceVars, replicaVars, budgetVars
<1> QED BY <1>1, <1>2, <1>3, <1>4, <1>5

\* A replica's record and container as one step of scheduling leaves them.
LEMMA ScheduleOK ==
    ASSUME ServicesTypeOK, NEW j \in Job, Launched(j) \/ Refused \/ AnswerLost(j)
    PROVE  /\ replica' \in [Replicas -> Record \cup {Absent}]
           /\ containers' \subseteq Replicas /\ stopping' = stopping
           /\ ends' = ends /\ faults' \in 0..MaxFaults /\ slow' = slow
<1> USE DEF ServicesTypeOK
<1>1. j.id \in Replicas /\ [j.record EXCEPT !.state = "running"] \in Record
    BY DEF Job, Record
<1>2. CASE Launched(j)
    BY <1>1, <1>2 DEF Launched, budgetVars
<1>3. CASE Refused
    BY <1>3, BoundsAssumption DEF Refused, Fails, MayFault, replicaVars
<1>4. CASE AnswerLost(j)
    <2>1. replica[j.id] # Absent => [replica[j.id] EXCEPT !.state = "running"] \in Record
        BY <1>1 DEF Record
    <2> QED BY <1>1, <1>4, <2>1, BoundsAssumption DEF AnswerLost, Fails, MayFault
<1> QED BY <1>2, <1>3, <1>4

LEMMA RestartOK ==
    ASSUME ServicesOK,
           \/ \E c \in Clients, r \in Replicas : Restart(c, r)
           \/ \E q \in requests : RestartDelete(q) \/ RestartEnd(q)
           \/ \E q \in requests, n \in Replicas : RestartCreate(q, n)
    PROVE  ServicesOK' /\ MadeStays
<1> USE DEF ServicesOK, ServicesTypeOK
<1>1. ASSUME NEW c \in Clients, NEW r \in Replicas, Restart(c, r) PROVE ServicesOK' /\ MadeStays
    <2>1. /\ replica[r] \in Record /\ replica[r].service \in Objects
          /\ services[replica[r].service] \in Made
        BY <1>1 DEF Restart, Record, Stored, StoreOK
    <2>2. [service |-> replica[r].service, state |-> "pending",
           config |-> object[services[replica[r].service]].config] \in Record
        BY <2>1 DEF Record, Made, Service
    <2>3. (replica[r].state = "running") \in BOOLEAN
        OBVIOUS
    <2>4. [by |-> c, op |-> "restart", old |-> r, ran |-> replica[r].state = "running",
           record |-> [service |-> replica[r].service, state |-> "pending",
                       config |-> object[services[replica[r].service]].config]] \in Request
        BY <2>2, <2>3 DEF Request
    <2>5. StoreOK' /\ RequestsOK' /\ MadeStays
        BY <1>1, ObjectsAlone DEF Restart, Accept, serviceVars
    <2> QED BY <1>1, <2>4, <2>5 DEF Restart, Accept, serviceVars, replicaVars, budgetVars
<1>2. ASSUME NEW q \in requests, RestartDelete(q) PROVE ServicesOK' /\ MadeStays
    <2>1. q \in [by : Clients, op : {"restart"}, old : Replicas, ran : BOOLEAN, record : Record]
        BY <1>2, RequestKinds DEF RestartDelete
    <2>2. [by |-> q.by, op |-> "replace", old |-> q.old, record |-> q.record] \in Request
        BY <2>1 DEF Request
    <2>3. StoreOK' /\ RequestsOK' /\ MadeStays
        BY <1>2, ObjectsAlone DEF RestartDelete, Continue, serviceVars
    <2>4. Stops(q.old) \subseteq Replicas
        BY <2>1 DEF Stops
    <2> QED BY <1>2, <2>2, <2>3, <2>4 DEF RestartDelete, Continue, serviceVars, budgetVars
<1>3. ASSUME NEW q \in requests, NEW n \in Replicas, RestartCreate(q, n)
      PROVE  ServicesOK' /\ MadeStays
    <2>1. q \in [by : Clients, op : {"replace"}, old : Replicas, record : Record]
        BY <1>3, RequestKinds DEF RestartCreate
    <2>2. [by |-> q.by, op |-> "schedule", job |-> [id |-> n, record |-> q.record]] \in Request
        BY <2>1 DEF Request, Job
    <2>3. StoreOK' /\ RequestsOK' /\ MadeStays
        BY <1>3, ObjectsAlone DEF RestartCreate, Continue, serviceVars
    <2> QED BY <1>3, <2>1, <2>2, <2>3 DEF RestartCreate, Continue, serviceVars, budgetVars
<1>4. ASSUME NEW q \in requests, RestartEnd(q) PROVE ServicesOK' /\ MadeStays
    <2>1. q.job \in Job
        BY <1>4, RequestKinds DEF RestartEnd
    <2>2. StoreOK' /\ RequestsOK' /\ MadeStays
        BY <1>4, ObjectsAlone DEF RestartEnd, Finish, serviceVars
    <2> QED BY <1>4, <2>1, <2>2, ScheduleOK DEF RestartEnd, Finish, serviceVars
<1> QED BY <1>1, <1>2, <1>3, <1>4

LEMMA WorkersOK ==
    ASSUME ServicesOK, NEW r \in Replicas,
           StopReplica(r) \/ StopDone(r) \/ \E how \in {"completed", "failed"} : End(r, how)
    PROVE  ServicesOK' /\ MadeStays
<1> USE DEF ServicesOK, ServicesTypeOK
<1>1. UNCHANGED <<object, services, requests>>
    BY DEF StopReplica, StopDone, End, serviceVars
<1>2. StoreOK' /\ RequestsOK' /\ MadeStays
    BY <1>1, ObjectsAlone
<1>3. CASE StopReplica(r)
    BY <1>1, <1>2, <1>3 DEF StopReplica, Stops, budgetVars
<1>4. \A s \in {"completed", "failed"} :
        replica[r].state = "running" => [replica[r] EXCEPT !.state = s] \in Record
    BY DEF Record, Absent
<1>5. CASE StopDone(r)
    BY <1>1, <1>2, <1>4, <1>5 DEF StopDone, budgetVars
<1>6. ASSUME NEW how \in {"completed", "failed"}, End(r, how) PROVE ServicesOK' /\ MadeStays
    BY <1>1, <1>2, <1>4, <1>6, BoundsAssumption DEF End
<1> QED BY <1>3, <1>5, <1>6

-----------------------------------------------------------------------------
\* The loop's steps, too: wherever a decision takes the pass, it is well formed.

\* A pass in the middle of a service, before it is decided where it goes.
Under(p) == p \in ServicePass /\ p.left \subseteq Made /\ p.svc \in Made

LEMMA UnderPass ==
    ASSUME NEW p \in Pass, p.pc \notin {"idle", "next"}
    PROVE  p \in ServicePass
BY DEF Pass

\* Where the parts of a pass are changed one at a time.
LEMMA UnderChanges ==
    ASSUME NEW p, Under(p)
    PROVE  /\ \A pc \in Stepping \cup Scheduling \cup Scheduled : Under([p EXCEPT !.pc = pc])
           /\ \A pc \in Stepping \cup Scheduling \cup Scheduled, S \in SUBSET Replicas :
                Under([p EXCEPT !.pc = pc, !.todo = S])
           /\ \A n \in Nat : Under([p EXCEPT !.actual = n])
           /\ \A S \in SUBSET Replicas : Under([p EXCEPT !.todo = S])
           /\ \A n \in Nat, S \in SUBSET Replicas : Under([p EXCEPT !.actual = n, !.todo = S])
           /\ \A J \in SUBSET Job : Under([p EXCEPT !.job = J])
           /\ Under([p EXCEPT !.job = {}, !.old = {}])
           /\ \A f \in Replicas, S \in SUBSET Replicas :
                Under([p EXCEPT !.pc = "restarting", !.old = {f}, !.failed = S])
BY DEF Under, ServicePass, Scheduling

LEMMA GoesOn ==
    ASSUME NEW p, Under(p)
    PROVE  /\ PassOK(NextService(p.left)) /\ PassOK(RollOver(p)) /\ PassOK(Rolled(p))
           /\ PassOK(Scale(p)) /\ PassOK(Restarts(p))
<1> USE DEF PassOK
<1>1. p \in ServicePass /\ p.left \in SUBSET Objects
    BY DEF Under, ServicePass
<1>2. PassOK(NextService(p.left))
    BY <1>1 DEF NextService, Idle, Pass, Under
<1>3. Ids(p.running) \subseteq Replicas
    BY <1>1 DEF Ids, ServicePass, Snapshot
<1>4. \A q : Under(q) /\ q.pc # "trim" => PassOK(q)
    BY DEF Under, Pass, ServicePass, Stepping, Scheduling, Scheduled
<1>5. PassOK(RollOver(p))
    <2>1. /\ Under([p EXCEPT !.pc = "roll", !.todo = Ids(p.running)])
          /\ [p EXCEPT !.pc = "roll", !.todo = Ids(p.running)].pc # "trim"
        BY <1>1, <1>3, UnderChanges DEF Stepping, ServicePass
    <2> QED BY <1>2, <1>4, <2>1 DEF RollOver
<1>6. PassOK(Rolled(p))
    <2>1. Under([p EXCEPT !.pc = "roll"]) /\ [p EXCEPT !.pc = "roll"].pc # "trim"
        BY <1>1, UnderChanges DEF Stepping, ServicePass
    <2> QED BY <1>2, <1>4, <2>1 DEF Rolled
<1>7. PassOK(Scale(p))
    <2>1. Under([p EXCEPT !.pc = "scale"]) /\ [p EXCEPT !.pc = "scale"].pc # "trim"
        BY <1>1, UnderChanges DEF Stepping, ServicePass
    <2>2. p.actual > p.wanted => PassOK([p EXCEPT !.pc = "trim"])
        BY <1>1 DEF Under, Pass, ServicePass, Stepping
    <2> QED BY <1>4, <1>5, <2>1, <2>2 DEF Scale
<1>8. PassOK(Restarts(p))
    <2>1. Under([p EXCEPT !.pc = "restart"]) /\ [p EXCEPT !.pc = "restart"].pc # "trim"
        BY <1>1, UnderChanges DEF Stepping, ServicePass
    <2> QED BY <1>4, <1>7, <2>1 DEF Restarts
<1> QED BY <1>2, <1>5, <1>6, <1>7, <1>8

LEMMA JobOK ==
    ASSUME ServicesOK, pass.svc \in Made, NEW n \in Replicas
    PROVE  NewJob(n) \in Job /\ NewJob(n).record \in Record
BY DEF NewJob, Job, Record, Made, Service

LEMMA CountNat ==
    ASSUME NEW i
    PROVE  Count(i) \in Nat
<1>1. Live(i) \subseteq Replicas
    BY DEF Live, InState, Of
<1> QED BY <1>1, ReplicasAssumption, FS_Subset, FS_CardinalityType DEF Count

LEMMA PassOKLater ==
    ASSUME MadeStays, PassOK(pass')
    PROVE  PassOK(pass)'
BY DEF PassOK, MadeStays

LEMMA ListingOK ==
    ASSUME ServicesOK, PassOK(pass),
           Tick \/ (At("next") /\ \E o \in pass.left : SkipStopped(o) \/ Begin(o))
    PROVE  ServicesOK' /\ MadeStays /\ PassOK(pass')
<1> USE DEF ServicesOK, ServicesTypeOK
<1>1. CASE Tick
    <2>1. slow' \in 0..MaxFaults
        BY <1>1, BoundsAssumption DEF Tick, MayFault
    <2>2. StoreOK' /\ RequestsOK' /\ MadeStays
        BY <1>1, ObjectsAlone DEF Tick, serviceVars
    <2>3. {services[i] : i \in Stored} \subseteq Made
        BY DEF StoreOK
    <2>4. {services[i] : i \in Stored} \subseteq Objects
        BY DEF StoreOK, Made
    <2>5. PassOK(pass')
        BY <1>1, <2>3, <2>4 DEF Tick, NextService, Idle, PassOK, Pass
    <2> QED BY <1>1, <2>1, <2>2, <2>5 DEF Tick, serviceVars, replicaVars
<1>2. ASSUME NEW o \in pass.left, At("next"), SkipStopped(o)
      PROVE  ServicesOK' /\ MadeStays /\ PassOK(pass')
    <2>1. ServicesOK' /\ MadeStays
        BY <1>2 DEF SkipStopped, servicesVars, serviceVars, replicaVars, budgetVars,
                    StoreOK, Stored, RequestsOK, Made, MadeStays
    <2>2. pass.left \subseteq Made /\ pass.left \subseteq Objects
        BY <1>2 DEF PassOK, At, Made
    <2>3. PassOK(pass')
        BY <1>2, <2>2 DEF SkipStopped, NextService, Idle, PassOK, Pass
    <2> QED BY <2>1, <2>3
<1>3. ASSUME NEW o \in pass.left, At("next"), Begin(o)
      PROVE  ServicesOK' /\ MadeStays /\ PassOK(pass')
    <2> DEFINE i == object[o].id
               runs == InState(i, "running")
               p == [pc |-> "restart", left |-> pass.left \ {o}, svc |-> o,
                     failed |-> InState(i, "failed"),
                     running |-> {[id |-> r, config |-> replica[r].config] : r \in runs},
                     actual |-> Count(i), wanted |-> object[o].replicas,
                     todo |-> runs, old |-> {}, job |-> {}]
    <2>1. ServicesOK' /\ MadeStays
        BY <1>3 DEF Begin, servicesVars, serviceVars, replicaVars, budgetVars,
                    StoreOK, Stored, RequestsOK, Made, MadeStays
    <2>2. pass.left \subseteq Made /\ pass.left \subseteq Objects
        BY <1>3 DEF PassOK, At, Made
    <2>3. InState(i, "failed") \subseteq Replicas /\ runs \subseteq Replicas
        BY DEF InState, Of
    <2>4. {[id |-> r, config |-> replica[r].config] : r \in runs} \subseteq Snapshot
        BY DEF InState, Of, Snapshot, Record
    <2>5. object[o].replicas \in 0..MaxReplicas
        BY <1>3, <2>2 DEF Made, Service
    <2>6. Count(i) \in Nat
        BY CountNat
    <2>7. Under(p)
        BY <1>3, <2>2, <2>3, <2>4, <2>5, <2>6 DEF Under, ServicePass, Stepping
    <2>8. pass' = Restarts(p)
        BY <1>3 DEF Begin
    <2> QED BY <2>1, <2>7, <2>8, GoesOn
<1> QED BY <1>1, <1>2, <1>3

\* A step that changes replicas and perhaps how many requests have failed.
LEMMA ReplicasChange ==
    ASSUME ServicesOK, UNCHANGED <<serviceVars, requests>>,
           replica' \in [Replicas -> Record \cup {Absent}],
           containers' \subseteq Replicas, stopping' \subseteq Replicas,
           ends' = ends, faults' \in 0..MaxFaults, slow' = slow
    PROVE  ServicesOK' /\ MadeStays
BY DEF ServicesOK, ServicesTypeOK, serviceVars, StoreOK, Stored, RequestsOK, Made, MadeStays

LEMMA SchedulingOK ==
    ASSUME ServicesOK, PassOK(pass), Busy, NEW pc, NEW p, PassOK(p),
           Succeeds(pc, p) \/ Errs(pc, p)
    PROVE  ServicesOK' /\ MadeStays /\ PassOK(pass')
<1>1. pass.job \subseteq Job
    BY UnderPass DEF PassOK, Busy, ServicePass
<1>2. PICK j \in Job : Launched(j) \/ Refused \/ AnswerLost(j)
    BY <1>1 DEF Succeeds, Errs
<1>3. ServicesOK' /\ MadeStays
    BY <1>2, ScheduleOK, ReplicasChange DEF Succeeds, Errs, ServicesOK, ServicesTypeOK
<1> QED BY <1>3 DEF Succeeds, Errs

LEMMA ForOneServiceOK ==
    ASSUME ServicesOK, PassOK(pass), Busy, NEW minted \in SUBSET Replicas, ForOneService(minted)
    PROVE  ServicesOK' /\ MadeStays /\ PassOK(pass')
<1> DEFINE Goal == ServicesOK' /\ MadeStays /\ PassOK(pass')
<1>1. Under(pass) /\ pass \in ServicePass
    BY UnderPass DEF PassOK, Busy, Under
<1>2. Under(Forgotten)
    BY <1>1, UnderChanges DEF Forgotten
<1>3. \A q : Under(q) /\ q.pc # "trim" => PassOK(q)
    BY DEF PassOK, Under, Pass, ServicePass, Stepping, Scheduling, Scheduled
<1>4. \A pc \in Scheduling \cup Scheduled : PassOK(GoTo(pc))
    <2> SUFFICES ASSUME NEW pc \in Scheduling \cup Scheduled PROVE PassOK(GoTo(pc))
        OBVIOUS
    <2>1. Under(GoTo(pc))
        BY <1>1, UnderChanges DEF GoTo
    <2>2. GoTo(pc).pc # "trim"
        BY <1>1 DEF GoTo, ServicePass, Scheduling, Scheduled
    <2> QED BY <1>3, <2>1, <2>2
<1>5. ASSUME NEW S \in SUBSET Replicas, Deleted(S) PROVE replica' \in [Replicas -> Record \cup {Absent}]
    BY <1>5 DEF Deleted, ServicesOK, ServicesTypeOK
<1>6. ASSUME NEW n \in Replicas, NEW p, Create(n, p), Under(p), p.pc \in Scheduling
      PROVE  replica' \in [Replicas -> Record \cup {Absent}] /\ PassOK(pass')
    <2>1. NewJob(n) \in Job /\ NewJob(n).record \in Record
        BY <1>1, JobOK DEF Under
    <2>2. Under([p EXCEPT !.job = {NewJob(n)}])
        BY <1>6, <2>1, UnderChanges
    <2>3. [p EXCEPT !.job = {NewJob(n)}].pc # "trim"
        BY <1>6 DEF Under, ServicePass, Scheduling
    <2> QED BY <1>3, <1>6, <2>1, <2>2, <2>3 DEF Create, ServicesOK, ServicesTypeOK
<1> USE DEF Goal
<1>7. CASE FailedRestarted \/ FailedNotRestarted
    BY <1>4, <1>7, SchedulingOK DEF FailedRestarted, FailedNotRestarted, Scheduled
<1>8. CASE ReplicaNotAdded
    BY <1>4, <1>8, SchedulingOK DEF ReplicaNotAdded, Scheduled
<1>9. CASE ReplicaAdded
    <2>1. Forgotten.actual + 1 \in Nat
        BY <1>2 DEF Under, ServicePass
    <2>2. Under([Forgotten EXCEPT !.actual = @ + 1])
        BY <1>2, <2>1, UnderChanges
    <2> QED BY <1>9, <2>2, GoesOn, SchedulingOK DEF ReplicaAdded
<1>10. CASE RolledOne \/ NotRolledOne
    BY <1>2, <1>10, GoesOn, SchedulingOK DEF RolledOne, NotRolledOne
<1>11. CASE DeleteFailed
    <2>1. RestartedCounted \in Nat
        BY <1>1 DEF RestartedCounted, ServicePass
    <2>2. Under([Forgotten EXCEPT !.actual = RestartedCounted])
        BY <1>2, <2>1, UnderChanges
    <2>3. pass.old \subseteq Replicas
        BY <1>1 DEF ServicePass
    <2> QED BY <1>5, <1>11, <2>2, <2>3, GoesOn, ReplicasChange
            DEF DeleteFailed, budgetVars, ServicesOK, ServicesTypeOK
<1>12. ASSUME NEW pc, NEW p, PassOK(p), Undo(pc, p) PROVE Goal
    <2>1. {j.id : j \in pass.job} \subseteq Replicas
        BY <1>1 DEF ServicePass, Job
    <2> QED BY <1>5, <1>12, <2>1, ReplicasChange DEF Undo, budgetVars, ServicesOK, ServicesTypeOK
<1>13. CASE UndoRestart \/ UndoAdd
    BY <1>2, <1>12, <1>13, GoesOn DEF UndoRestart, UndoAdd
<1>14. ASSUME NEW n \in minted, ScaleUp(n) PROVE Goal
    <2>1. Under(GoTo("adding")) /\ GoTo("adding").pc \in Scheduling
        BY <1>1, UnderChanges DEF GoTo, ServicePass, Scheduling
    <2> QED BY <1>6, <1>14, <2>1, ReplicasChange DEF ScaleUp, budgetVars, ServicesOK, ServicesTypeOK
<1>15. ASSUME NEW f \in pass.failed, NEW n \in minted, RestartFailed(f, n) PROVE Goal
    <2> DEFINE p == [pass EXCEPT !.pc = "restarting", !.old = {f}, !.failed = @ \ {f}]
    <2>1. Under(p) /\ p.pc \in Scheduling
        BY <1>1, UnderChanges DEF ServicePass, Scheduling
    <2> QED BY <1>6, <1>15, <2>1, ReplicasChange
            DEF RestartFailed, budgetVars, ServicesOK, ServicesTypeOK
<1>16. ASSUME NEW r \in pass.todo, StopExcess(r) PROVE Goal
    <2>1. r \in Replicas /\ pass.todo \ {r} \subseteq Replicas
        BY <1>1 DEF ServicePass
    <2>2. pass.actual - 1 \in Nat
        BY <1>1, <1>16 DEF StopExcess, At, PassOK, ServicePass
    <2>3. Under([pass EXCEPT !.actual = @ - 1, !.todo = @ \ {r}])
        BY <1>1, <2>1, <2>2, UnderChanges
    <2> QED BY <1>16, <2>1, <2>3, GoesOn, ReplicasChange
            DEF StopExcess, Stops, budgetVars, ServicesOK, ServicesTypeOK
<1>17. ASSUME NEW r \in pass.todo, RollPassesOver(r) PROVE Goal
    <2>1. Under([pass EXCEPT !.todo = @ \ {r}])
        BY <1>1, UnderChanges DEF ServicePass
    <2> QED BY <1>17, <2>1, GoesOn, ReplicasChange
            DEF RollPassesOver, servicesVars, replicaVars, budgetVars, ServicesOK, ServicesTypeOK
<1>18. ASSUME NEW r \in pass.todo, NEW n \in minted, RollOne(r, n) PROVE Goal
    <2> DEFINE p == [pass EXCEPT !.pc = "rolling", !.todo = @ \ {r}]
    <2>1. r \in Replicas /\ Under(p) /\ p.pc \in Scheduling
        BY <1>1, UnderChanges DEF ServicePass, Scheduling
    <2> QED BY <1>6, <1>18, <2>1, ReplicasChange
            DEF RollOne, Stops, budgetVars, ServicesOK, ServicesTypeOK
<1> QED
    BY <1>7, <1>8, <1>9, <1>10, <1>11, <1>13, <1>14, <1>15, <1>16, <1>17, <1>18 DEF ForOneService

-----------------------------------------------------------------------------
\* Commands.

Going == [op : {"mark", "stop", "look", "restart", "start"}, listed : SUBSET Listing,
          ids : SUBSET Objects, found : SUBSET Replicas]
Sending == [op : {"deploy"}, names : SUBSET Names, file : File, found : {{}}]

LEMMA CommandKinds ==
    ASSUME CommandsOK, NEW c \in Clients, NEW op, Runs(c, op)
    PROVE  /\ op # "deploy" => cmd[c] \in Going
           /\ op = "deploy" => cmd[c] \in Sending
BY DEF CommandsOK, Runs, Command, Going, Sending

LEMMA CommandChanges ==
    ASSUME NEW k \in Going
    PROVE  /\ \A S \in SUBSET Objects : [k EXCEPT !.ids = S] \in Going
           /\ \A S \in SUBSET Replicas : [k EXCEPT !.found = S] \in Going
           /\ \A S \in SUBSET Listing : [k EXCEPT !.listed = S] \in Going
           /\ \A S \in SUBSET Objects, T \in SUBSET Replicas :
                [k EXCEPT !.ids = S, !.found = T] \in Going
           /\ \A S \in SUBSET Objects : [k EXCEPT !.op = "stop", !.ids = S] \in Going
           /\ [k EXCEPT !.op = "restart"] \in Going
           /\ \A S \in SUBSET Listing : [k EXCEPT !.op = "start", !.listed = S] \in Going
BY DEF Going

LEMMA OverOK ==
    ASSUME ServicesOK, NEW op \in {"mark", "look"}
    PROVE  Over(op) \in Going
<1>1. List \subseteq Listing
    BY DEF List, Listing, ServicesOK, StoreOK, Stored, Made, Service
<1> QED BY <1>1 DEF Over, Going, Stored

LEMMA BecomesOK ==
    ASSUME CommandsOK, NEW c \in Clients, NEW k \in Going \cup Sending, Becomes(c, k),
           issued' \in 0..MaxCommands
    PROVE  CommandsOK'
<1>1. Command = Going \cup Sending
    BY DEF Command, Going, Sending
<1> QED BY <1>1 DEF CommandsOK, Becomes

LEMMA IssueOK ==
    ASSUME CommandsOK, NEW c \in Clients, NEW kind, Issue(c, kind)
    PROVE  issued' \in 0..MaxCommands /\ pass' = pass
BY MaxCommandsAssumption DEF CommandsOK, Issue

LEMMA ServicesAlone ==
    ASSUME ServicesOK, UNCHANGED servicesVars
    PROVE  ServicesOK' /\ MadeStays
BY DEF ServicesOK, ServicesTypeOK, servicesVars, serviceVars, replicaVars, budgetVars,
       StoreOK, Stored, RequestsOK, Made, MadeStays

LEMMA SingleOK ==
    ASSUME AppsInv, NEW c \in Clients,
           \/ \E i \in Objects, k \in 0..MaxReplicas, s \in {"same", "bad"} : ScaleService(c, i, k, s)
           \/ \E i \in Objects : Remove(c, i)
           \/ DeleteApp(c)
    PROVE  ServicesOK' /\ MadeStays /\ pass' = pass /\ CommandsOK'
<1> USE DEF AppsInv
<1>1. ASSUME NEW i \in Objects, NEW k \in 0..MaxReplicas, NEW s \in {"same", "bad"},
             ScaleService(c, i, k, s)
      PROVE  ServicesOK' /\ MadeStays /\ pass' = pass /\ CommandsOK'
    BY <1>1, IssueOK, PutOK DEF ScaleService, CommandsOK
<1>2. ASSUME NEW i \in Objects, Remove(c, i)
      PROVE  ServicesOK' /\ MadeStays /\ pass' = pass /\ CommandsOK'
    BY <1>2, IssueOK, DeleteOK DEF Remove, CommandsOK
<1>3. CASE DeleteApp(c)
    BY <1>3, IssueOK, DropOK DEF DeleteApp, CommandsOK
<1> QED BY <1>1, <1>2, <1>3

LEMMA BeginCommandOK ==
    ASSUME AppsInv, NEW c \in Clients,
           StopApp(c) \/ RestartApp(c) \/ \E f \in File : DeployApp(c, f)
    PROVE  ServicesOK' /\ MadeStays /\ pass' = pass /\ CommandsOK'
<1> USE DEF AppsInv
<1>1. CASE StopApp(c) \/ RestartApp(c)
    <2>1. Over("mark") \in Going /\ Over("look") \in Going
        BY OverOK
    <2> QED BY <1>1, <2>1, IssueOK, BecomesOK, ServicesAlone DEF StopApp, RestartApp
<1>2. ASSUME NEW f \in File, DeployApp(c, f)
      PROVE  ServicesOK' /\ MadeStays /\ pass' = pass /\ CommandsOK'
    <2>1. [op |-> "deploy", names |-> Names, file |-> f, found |-> {}] \in Sending
        BY DEF Sending
    <2> QED BY <1>2, <2>1, IssueOK, BecomesOK, ServicesAlone DEF DeployApp
<1> QED BY <1>1, <1>2

LEMMA ContinueOK ==
    ASSUME AppsInv, NEW c \in Clients,
           \/ \E n \in Names : DeployService(c, n)
           \/ \E i \in Objects : MarkStopped(c, i) \/ ListReplicas(c, i)
           \/ AllMarked(c) \/ Looked(c)
           \/ \E r \in Replicas : StopFound(c, r) \/ RestartFound(c, r)
           \/ \E s \in Listing : StartService(c, s)
    PROVE  ServicesOK' /\ MadeStays /\ pass' = pass /\ CommandsOK'
<1> DEFINE Goal == ServicesOK' /\ MadeStays /\ pass' = pass /\ CommandsOK'
<1> USE DEF AppsInv
<1>0. pass' = pass /\ issued' = issued /\ issued \in 0..MaxCommands
    BY DEF DeployService, MarkStopped, ListReplicas, AllMarked, Looked, StopFound, RestartFound,
           StartService, Continues, CommandsOK
<1>1. ASSUME NEW n \in Names, DeployService(c, n) PROVE Goal
    <2>1. cmd[c] \in Sending
        BY <1>1, CommandKinds DEF DeployService
    <2>2. [cmd[c] EXCEPT !.names = @ \ {n}] \in Sending
        BY <2>1 DEF Sending
    <2>3. First(FreeObjects) \subseteq Objects
        BY DEF First, FreeObjects
    <2>4. PICK o \in Objects : Post(c, o, n, cmd[c].file.replicas, cmd[c].file.config,
                                   cmd[c].file.policy)
        BY <1>1, <2>3 DEF DeployService
    <2>5. cmd[c].file.replicas \in 0..MaxReplicas /\ cmd[c].file.config \in Configs
          /\ cmd[c].file.policy \in Policies
        BY <2>1, BoundsAssumption DEF Sending, File
    <2> QED BY <1>0, <1>1, <2>2, <2>4, <2>5, BecomesOK, PostOK DEF DeployService
<1>2. ASSUME NEW i \in Objects, MarkStopped(c, i) PROVE Goal
    <2>1. cmd[c] \in Going
        BY <1>2, CommandKinds DEF MarkStopped
    <2>2. [cmd[c] EXCEPT !.ids = @ \ {i}] \in Going
        BY <2>1, CommandChanges DEF Going
    <2>3. OmittedCount \in 0..MaxReplicas
        BY BoundsAssumption DEF OmittedCount
    <2> QED BY <1>0, <1>2, <2>2, <2>3, BecomesOK, PutOK, ServicesAlone DEF MarkStopped
<1>3. CASE AllMarked(c)
    <2>1. cmd[c] \in Going
        BY <1>3, CommandKinds DEF AllMarked
    <2>2. {s.id : s \in cmd[c].listed} \subseteq Objects
        BY <2>1 DEF Going, Listing
    <2>3. [cmd[c] EXCEPT !.op = "stop", !.ids = {s.id : s \in cmd[c].listed}] \in Going
        BY <2>1, <2>2, CommandChanges
    <2> QED BY <1>0, <1>3, <2>3, BecomesOK, ServicesAlone DEF AllMarked
<1>4. ASSUME NEW i \in Objects, ListReplicas(c, i) PROVE Goal
    <2>1. cmd[c] \in Going
        <3>1. PICK op \in {"stop", "look"} : Runs(c, op)
            BY <1>4 DEF ListReplicas
        <3> QED BY <3>1, CommandKinds
    <2>2. Live(i) \subseteq Replicas
        BY DEF Live, InState, Of
    <2>3. [cmd[c] EXCEPT !.ids = @ \ {i}, !.found = @ \cup Live(i)] \in Going
        BY <2>1, <2>2, CommandChanges DEF Going
    <2> QED BY <1>0, <1>4, <2>3, BecomesOK, ServicesAlone DEF ListReplicas
<1>5. ASSUME NEW r \in Replicas, StopFound(c, r) PROVE Goal
    <2>1. cmd[c] \in Going
        BY <1>5, CommandKinds DEF StopFound
    <2>2. [cmd[c] EXCEPT !.found = @ \ {r}] \in Going
        BY <2>1, CommandChanges DEF Going
    <2> QED BY <1>0, <1>5, <2>2, BecomesOK, WorkersOK DEF StopFound
<1>6. CASE Looked(c)
    <2>1. cmd[c] \in Going
        BY <1>6, CommandKinds DEF Looked
    <2>2. {s \in cmd[c].listed : s.n > 0} \subseteq Listing
        BY <2>1 DEF Going
    <2>3. /\ [cmd[c] EXCEPT !.op = "restart"] \in Going
          /\ [cmd[c] EXCEPT !.op = "start", !.listed = {s \in @ : s.n > 0}] \in Going
        BY <2>1, <2>2, CommandChanges
    <2> QED BY <1>0, <1>6, <2>3, BecomesOK, ServicesAlone DEF Looked
<1>7. ASSUME NEW r \in Replicas, RestartFound(c, r) PROVE Goal
    <2>1. cmd[c] \in Going
        BY <1>7, CommandKinds DEF RestartFound
    <2>2. [cmd[c] EXCEPT !.found = @ \ {r}] \in Going
        BY <2>1, CommandChanges DEF Going
    <2> QED BY <1>0, <1>7, <2>2, BecomesOK, RestartOK, ServicesAlone DEF RestartFound
<1>8. ASSUME NEW s \in Listing, StartService(c, s) PROVE Goal
    <2>1. cmd[c] \in Going
        BY <1>8, CommandKinds DEF StartService
    <2>2. [cmd[c] EXCEPT !.listed = @ \ {s}] \in Going
        BY <2>1, CommandChanges DEF Going
    <2>3. s.id \in Objects /\ s.n \in 0..MaxReplicas
        BY DEF Listing
    <2> QED BY <1>0, <1>8, <2>2, <2>3, BecomesOK, PutOK, ServicesAlone DEF StartService
<1> QED BY <1>1, <1>2, <1>3, <1>4, <1>5, <1>6, <1>7, <1>8

-----------------------------------------------------------------------------
\* The history variables.

\* Users change no record, start no container and count nothing.
LEMMA UsersLeave ==
    ASSUME NEW c \in Clients, CommandNext(c)
    PROVE  /\ UNCHANGED <<replica, containers, budgetVars, pass>>
           /\ \/ UNCHANGED stopping
              \/ \E r \in Replicas : StopFound(c, r) /\ stopping' = stopping \cup Stops(r)
<1> USE DEF servicesVars, serviceVars, replicaVars, budgetVars
<1>1. CASE \/ \E i \in Objects, k \in 0..MaxReplicas, s \in {"same", "bad"} : ScaleService(c, i, k, s)
           \/ \E i \in Objects : Remove(c, i) \/ MarkStopped(c, i) \/ ListReplicas(c, i)
    BY <1>1 DEF ScaleService, Remove, MarkStopped, ListReplicas, Put, Delete, Issue, Continues
<1>2. CASE DeleteApp(c) \/ StopApp(c) \/ AllMarked(c) \/ RestartApp(c) \/ Looked(c)
    BY <1>2 DEF DeleteApp, StopApp, AllMarked, RestartApp, Looked, Drop, Issue, Continues
<1>3. CASE \/ \E f \in File : DeployApp(c, f)
           \/ \E n \in Names : DeployService(c, n)
           \/ \E s \in Listing : StartService(c, s)
    BY <1>3 DEF DeployApp, DeployService, StartService, Post, Put, Issue, Continues
<1>4. CASE \E r \in Replicas : StopFound(c, r) \/ RestartFound(c, r)
    BY <1>4 DEF StopFound, RestartFound, StopReplica, Restart, Continues
<1> QED BY <1>1, <1>2, <1>3, <1>4 DEF CommandNext

LEMMA FreeAreReplicas == First(FreeReplicas) \subseteq FreeReplicas /\ FreeReplicas \subseteq Replicas
BY DEF First, FreeReplicas

\* What a step does to replicas.  It may delete records and accept stop requests, ...
Trims ==
    /\ UNCHANGED <<containers, ends, faults>> /\ stopping \subseteq stopping'
    /\ \A r \in Replicas : replica'[r] \in {replica[r], Absent}

\* ... make a record, ...
Makes(n) ==
    /\ UNCHANGED <<containers, ends, faults>> /\ stopping \subseteq stopping'
    /\ \A r \in Replicas \ {n} : replica'[r] = replica[r]
    /\ \/ replica'[n].state = "pending"
       \/ \E q \in requests : q.op = "replace" /\ replica'[n] = q.record

\* ... or schedule a replica that is being scheduled.
Schedules(j) == Launched(j) \/ Refused \/ AnswerLost(j)

Active ==
    {q.job : q \in {p \in requests : p.op = "schedule"}}
    \cup IF pass.pc \in Scheduling THEN pass.job ELSE {}

LEMMA ActiveJobs == AppsInv => Active \subseteq Job
<1>1. AppsInv => \A q \in requests : q.op = "schedule" => q.job \in Job
    BY RequestKinds DEF AppsInv, ServicesOK, ServicesTypeOK
<1>2. AppsInv /\ pass.pc \in Scheduling => pass.job \subseteq Job
    BY UnderPass DEF AppsInv, PassOK, Scheduling, ServicePass
<1> QED BY <1>1, <1>2 DEF Active

LEMMA StoreSteps ==
    ASSUME AppsInv, Next
    PROVE  \/ Trims
           \/ \E n \in FreeReplicas : Makes(n)
           \/ \E j \in Active : Schedules(j)
           \/ \E r \in Replicas : StopDone(r) \/ \E how \in {"completed", "failed"} : End(r, how)
<1> DEFINE Goal == \/ Trims
                   \/ \E n \in FreeReplicas : Makes(n)
                   \/ \E j \in Active : Schedules(j)
                   \/ \E r \in Replicas : \/ StopDone(r)
                                          \/ \E how \in {"completed", "failed"} : End(r, how)
<1> USE DEF AppsInv, ServicesOK, ServicesTypeOK, servicesVars, replicaVars, budgetVars
<1>1. CASE Users
    BY <1>1, UsersLeave DEF Users, Trims
<1>2. ASSUME NEW q \in requests, RequestNext(q) PROVE Goal
    <2>1. CASE \/ PostSave(q) \/ PutRejected(q) \/ PutState(q) \/ PutSave(q) \/ DeleteEnd(q)
               \/ DropService(q) \/ DropEnd(q) \/ \E i \in Objects : DropList(q, i)
        BY <2>1 DEF PostSave, PutRejected, PutState, PutSave, Save, DropService, DropEnd, DeleteEnd,
                    DropList, Trims
    <2>2. ASSUME NEW s \in Replicas, DeleteStop(q, s) \/ DropReplica(q, s) PROVE Trims
        BY <2>2 DEF DeleteStop, DropReplica, Trims
    <2>3. CASE RestartDelete(q)
        BY <2>3 DEF RestartDelete, Trims
    <2>4. CASE RestartEnd(q)
        BY <2>4 DEF RestartEnd, Active, Schedules
    <2>5. ASSUME NEW n \in First(FreeReplicas), RestartCreate(q, n) PROVE Goal
        BY <2>5, FreeAreReplicas DEF RestartCreate, Makes
    <2> QED BY <1>2, <2>1, <2>2, <2>3, <2>4, <2>5 DEF RequestNext
<1>3. CASE Loop
    <2>1. CASE Tick \/ \E o \in pass.left : SkipStopped(o) \/ Begin(o)
        BY <2>1 DEF Tick, SkipStopped, Begin, Trims
    <2>2. ASSUME NEW pc \in Scheduling, NEW p, Succeeds(pc, p) \/ Errs(pc, p) PROVE Goal
        BY <2>2 DEF Succeeds, Errs, At, Active, Schedules
    <2>3. CASE FailedRestarted \/ FailedNotRestarted \/ ReplicaAdded \/ ReplicaNotAdded
               \/ RolledOne \/ NotRolledOne
        BY <2>2, <2>3 DEF FailedRestarted, FailedNotRestarted, ReplicaAdded, ReplicaNotAdded,
                          RolledOne, NotRolledOne, Scheduling
    <2>4. CASE DeleteFailed \/ UndoRestart \/ UndoAdd
        BY <2>4 DEF DeleteFailed, UndoRestart, UndoAdd, Undo, Deleted, Trims
    <2>5. ASSUME NEW n \in First(FreeReplicas),
                 \/ ScaleUp(n) \/ \E f \in pass.failed : RestartFailed(f, n)
                 \/ \E s \in pass.todo : RollOne(s, n)
          PROVE  Goal
        <3>1. n \in FreeReplicas /\ n \in Replicas /\ NewJob(n).record.state = "pending"
            BY <2>5, FreeAreReplicas DEF NewJob
        <3> QED BY <2>5, <3>1 DEF ScaleUp, RestartFailed, RollOne, Create, Makes
    <2>6. CASE \E s \in pass.todo : StopExcess(s) \/ RollPassesOver(s)
        BY <2>6 DEF StopExcess, RollPassesOver, Trims
    <2> QED BY <1>3, <2>1, <2>3, <2>4, <2>5, <2>6 DEF Loop, Reconcile, ForOneService
<1>4. CASE Workers
    BY <1>4 DEF Workers, WorkerNext
<1> QED BY <1>1, <1>2, <1>3, <1>4 DEF Next, Handlers

\* What scheduling a replica leaves.
LEMMA ScheduleEffect ==
    ASSUME ServicesTypeOK, NEW j \in Job, Schedules(j)
    PROVE  /\ UNCHANGED <<stopping, ends>> /\ containers \subseteq containers'
           /\ containers' \subseteq containers \cup {j.id}
           /\ \A r \in Replicas \ {j.id} : replica'[r] = replica[r]
           /\ replica'[j.id] # replica[j.id] => replica'[j.id].state = "running"
           /\ j.id \in containers' \ containers =>
                replica'[j.id].state = "running" \/ faults' # faults
<1> USE DEF ServicesTypeOK
<1>1. j.id \in Replicas /\ [j.record EXCEPT !.state = "running"].state = "running"
    BY DEF Job, Record
<1>2. replica[j.id] # Absent => [replica[j.id] EXCEPT !.state = "running"].state = "running"
    BY <1>1 DEF Record
<1>3. CASE Launched(j)
    BY <1>1, <1>3 DEF Launched, budgetVars
<1>4. CASE Refused
    BY <1>4 DEF Refused, replicaVars
<1>5. CASE AnswerLost(j)
    BY <1>1, <1>2, <1>5 DEF AnswerLost, Fails
<1> QED BY <1>3, <1>4, <1>5 DEF Schedules

\* A record changes because it is deleted or made, because its replica is launched,
\* or because its container ends.
LEMMA RecordsChange ==
    ASSUME AppsInv, Next, NEW r \in Replicas, replica'[r] # replica[r]
    PROVE  \/ replica'[r] = Absent
           \/ r \in FreeReplicas
           \/ replica'[r].state = "running"
           \/ StopDone(r)
           \/ \E how \in {"completed", "failed"} : End(r, how)
<1> USE DEF AppsInv, ServicesOK, ServicesTypeOK
<1>1. CASE Trims
    BY <1>1 DEF Trims
<1>2. ASSUME NEW n \in FreeReplicas, Makes(n) PROVE r \in FreeReplicas
    BY <1>2 DEF Makes
<1>3. ASSUME NEW j \in Active, Schedules(j) PROVE replica'[r].state = "running"
    BY <1>3, ActiveJobs, ScheduleEffect
<1>4. ASSUME NEW s \in Replicas, StopDone(s) PROVE StopDone(r)
    BY <1>4 DEF StopDone
<1>5. ASSUME NEW s \in Replicas, NEW how \in {"completed", "failed"}, End(s, how) PROVE End(r, how)
    BY <1>5 DEF End
<1> QED BY <1>1, <1>2, <1>3, <1>4, <1>5, StoreSteps

LEMMA EndsGrow ==
    ASSUME AppsInv, Next
    PROVE  ends' = ends \/ \E r \in Replicas, how \in {"completed", "failed"} : End(r, how)
<1>1. ASSUME NEW j \in Active, Schedules(j) PROVE ends' = ends
    BY <1>1, ActiveJobs, ScheduleEffect DEF AppsInv, ServicesOK
<1> QED BY <1>1, StoreSteps DEF Trims, Makes, StopDone, budgetVars

LEMMA OnlyEndsFail ==
    ASSUME AppsInv, Next, NEW r \in Replicas, FailsNow(r)
    PROVE  End(r, "failed")
<1>1. replica'[r] # replica[r] /\ replica'[r] # Absent /\ replica'[r].state # "running"
    BY DEF FailsNow, Absent
<1>2. r \notin FreeReplicas
    BY DEF FailsNow, FreeReplicas, Absent
<1>3. ~StopDone(r) /\ ~End(r, "completed")
    BY DEF FailsNow, StopDone, End, AppsInv, ServicesOK, ServicesTypeOK, Record, Absent
<1> QED BY <1>1, <1>2, <1>3, RecordsChange

LEMMA LateOK ==
    ASSUME AppsInv, Next, History
    PROVE  late' \in Nat /\ late' <= ends'
<1> DEFINE S == {r \in stopping : FailsNow(r)}
<1> USE DEF AppsInv, ServicesOK, ServicesTypeOK, HistoryOK
<1>1. late' = late + Cardinality(S)
    BY DEF History
<1>2. CASE S = {}
    <2>1. late' = late
        BY <1>1, <1>2, FS_EmptySet
    <2>2. ends' = ends \/ ends' = ends + 1
        BY EndsGrow DEF End
    <2> QED BY <2>1, <2>2, BoundsAssumption
<1>3. ASSUME NEW r \in S PROVE late' \in Nat /\ late' <= ends'
    <2>1. \A s \in S : End(s, "failed")
        BY OnlyEndsFail
    <2>2. ends' = ends + 1 /\ S = {r}
        BY <1>3, <2>1 DEF End
    <2>3. Cardinality(S) = 1
        BY <2>2, FS_Singleton
    <2> QED BY <1>1, <2>2, <2>3, BoundsAssumption
<1> QED BY <1>2, <1>3

\* One step takes at most one replica off the list of those to be rolled over.
LEMMA AgainOK ==
    ASSUME AppsInv, Next, History
    PROVE  again' \in Nat
<1> DEFINE S == {r \in stopping : RollsNow(r)}
<1>1. again' = again + Cardinality(S)
    BY DEF History
<1>2. IsFiniteSet(S)
    <2>1. S \subseteq Replicas
        BY DEF AppsInv, ServicesOK, ServicesTypeOK
    <2> QED BY <2>1, ReplicasAssumption, FS_Subset
<1>3. Cardinality(S) \in Nat
    BY <1>2, FS_CardinalityType
<1> QED BY <1>1, <1>3 DEF AppsInv, HistoryOK

\* All UUIDs that somebody refers to are replicas'.
LEMMA HeldReplicas == ServicesOK /\ PassOK(pass) /\ CommandsOK => Held \subseteq Replicas
<1> SUFFICES ASSUME ServicesOK, PassOK(pass), CommandsOK PROVE Held \subseteq Replicas
    OBVIOUS
<1> USE DEF ServicesOK, ServicesTypeOK
<1>1. Deploying \subseteq Replicas
    <2>1. \A q \in requests : q.op = "schedule" => q.job \in Job
        BY RequestKinds
    <2>2. Busy => pass.job \subseteq Job
        BY UnderPass DEF Busy, PassOK, ServicePass
    <2> QED BY <2>1, <2>2 DEF Deploying, Jobs, Job
<1>2. Busy => pass.failed \cup pass.todo \cup pass.old \cup {s.id : s \in pass.running} \subseteq Replicas
    BY UnderPass DEF Busy, PassOK, ServicePass, Snapshot
<1>3. \A q \in requests : q.op \in {"delete", "dropping"} => q.todo \subseteq Replicas
    BY RequestKinds
<1>4. \A q \in requests : q.op \in {"restart", "replace"} => q.old \in Replicas
    BY RequestKinds
<1>5. \A c \in Clients : cmd[c] # NoCommand => cmd[c].found \subseteq Replicas
    BY DEF CommandsOK, Command
<1> QED BY <1>1, <1>2, <1>3, <1>4, <1>5 DEF Held

-----------------------------------------------------------------------------
\* All steps together.

LEMMA PassUnchanged ==
    ASSUME PassOK(pass), MadeStays, pass' = pass
    PROVE  PassOK(pass)'
BY PassOKLater

LEMMA AppsStep ==
    ASSUME AppsInv, Next
    PROVE  ServicesOK' /\ MadeStays /\ PassOK(pass)' /\ CommandsOK'
<1> DEFINE Goal == ServicesOK' /\ MadeStays /\ PassOK(pass)' /\ CommandsOK'
<1> USE DEF AppsInv
<1>1. CASE Users
    <2>1. PICK c \in Clients : CommandNext(c)
        BY <1>1 DEF Users
    <2>2. ServicesOK' /\ MadeStays /\ pass' = pass /\ CommandsOK'
        BY <2>1, SingleOK, BeginCommandOK, ContinueOK DEF CommandNext
    <2> QED BY <2>2, PassUnchanged
<1>2. CASE Handlers
    <2>1. PICK q \in requests : RequestNext(q)
        BY <1>2 DEF Handlers
    <2>2. First(FreeReplicas) \subseteq Replicas
        BY FreeAreReplicas
    <2>3. ServicesOK' /\ MadeStays
        BY <2>1, <2>2, SaveOK, PutRestOK, DeleteOK, DropOK, RestartOK DEF RequestNext
    <2>4. pass' = pass /\ UNCHANGED <<cmd, issued>>
        BY <1>2 DEF Handlers, commandVars
    <2> QED BY <2>3, <2>4, PassUnchanged DEF CommandsOK
<1>3. CASE Loop
    <2>1. First(FreeReplicas) \in SUBSET Replicas
        BY FreeAreReplicas
    <2>2. ServicesOK' /\ MadeStays /\ PassOK(pass')
        <3>1. CASE Busy /\ ForOneService(First(FreeReplicas))
            BY <2>1, <3>1, ForOneServiceOK
        <3>2. CASE Tick \/ (At("next") /\ \E o \in pass.left : SkipStopped(o) \/ Begin(o))
            BY <3>2, ListingOK
        <3>3. Reconcile(First(FreeReplicas))
            BY <1>3 DEF Loop
        <3> HIDE DEF AppsInv
        <3> QED BY <3>1, <3>2, <3>3 DEF Reconcile
    <2>3. UNCHANGED <<cmd, issued>>
        BY <1>3 DEF Loop, commandVars
    <2> QED BY <2>2, <2>3, PassOKLater DEF CommandsOK
<1>4. CASE Workers
    <2>1. PICK r \in Replicas : WorkerNext(r)
        BY <1>4 DEF Workers
    <2>2. ServicesOK' /\ MadeStays
        BY <2>1, WorkersOK DEF WorkerNext
    <2>3. pass' = pass /\ UNCHANGED <<cmd, issued>>
        BY <1>4 DEF Workers, commandVars
    <2> QED BY <2>2, <2>3, PassUnchanged DEF CommandsOK
<1> QED BY <1>1, <1>2, <1>3, <1>4 DEF Next

LEMMA AppsStepInv == AppsInv /\ [Next]_vars => AppsInv'
<1> SUFFICES ASSUME AppsInv, [Next]_vars PROVE AppsInv'
    OBVIOUS
<1>1. CASE Next
    <2>1. ServicesOK' /\ PassOK(pass)' /\ CommandsOK'
        BY <1>1, AppsStep
    <2>2. History
        BY <1>1 DEF Next, Users, Handlers, Loop, Workers
    <2>3. hit' \subseteq Replicas
        <3>1. (ServicesOK /\ PassOK(pass) /\ CommandsOK => Held \subseteq Replicas)'
            BY HeldReplicas, PTL
        <3> QED BY <2>1, <2>2, <3>1 DEF History
    <2>4. raced' \subseteq Objects
        BY <2>2 DEF History
    <2>5. late' \in Nat /\ late' <= ends' /\ again' \in Nat
        BY <1>1, <2>2, LateOK, AgainOK
    <2> QED BY <2>1, <2>3, <2>4, <2>5 DEF AppsInv, HistoryOK
<1>2. CASE UNCHANGED vars
    <2>1. ServicesOK' /\ MadeStays
        BY <1>2, ServicesAlone DEF AppsInv, vars, reconcilerVars
    <2>2. PassOK(pass)'
        BY <1>2, <2>1, PassUnchanged DEF AppsInv, vars, reconcilerVars
    <2>3. CommandsOK' /\ HistoryOK'
        BY <1>2 DEF AppsInv, vars, reconcilerVars, servicesVars, budgetVars, commandVars,
                    CommandsOK, HistoryOK
    <2> QED BY <2>1, <2>2, <2>3 DEF AppsInv
<1> QED BY <1>1, <1>2

LEMMA AppsInitInv == Init => AppsInv
<1> SUFFICES ASSUME Init PROVE AppsInv
    OBVIOUS
<1> USE DEF Init, ReconcilerInit, ServicesInit
<1>1. ServicesOK
    BY BoundsAssumption DEF ServicesOK, ServicesTypeOK, StoreOK, Stored, RequestsOK
<1>2. PassOK(pass)
    BY DEF PassOK, Pass, Idle
<1>3. CommandsOK /\ HistoryOK
    BY MaxCommandsAssumption DEF CommandsOK, HistoryOK
<1> QED BY <1>1, <1>2, <1>3 DEF AppsInv

LEMMA AppsInvariant == Spec => []AppsInv
BY AppsInitInv, AppsStepInv, PTL DEF Spec

\* Every variable of users, handlers, store and loop keeps its type: no handler and no
\* pass ever works on an object that was not filled in, the loop never counts below
\* zero, and no more replicas fail while being stopped than containers end.
THEOREM AppsTypes == Spec => []TypeOK
<1>1. AppsInv => TypeOK
    BY BoundsAssumption
       DEF AppsInv, ServicesOK, ServicesTypeOK, PassOK, CommandsOK, HistoryOK, TypeOK
<1> QED BY <1>1, AppsInvariant, PTL

-----------------------------------------------------------------------------
\* How a request comes to be in one of the later stages of its handler.

CreatedBy(q, p) ==
    /\ p \in requests /\ p.op = "replace"
    /\ q.job.id \in FreeReplicas /\ q.job.record = p.record
    /\ requests' = (requests \ {p}) \cup {q}
    /\ replica' = [replica EXCEPT ![q.job.id] = p.record]
    /\ UNCHANGED <<containers, pass>>

Stages(q) ==
    /\ q.op = "restart" => q.record.state = "pending"
    /\ q.op = "replace" => \E p \in requests : p.op = "restart" /\ q.record = p.record
    /\ q.op = "schedule" => \E p : CreatedBy(q, p)
    /\ q.op = "dropping" =>
        \/ \E p \in requests \ requests' : p.op = "drop"
        \/ \E p \in requests : p.op = "dropping" /\ q.todo \ q.ran \subseteq p.todo \ p.ran

LEMMA UserRequests ==
    ASSUME AppsInv, NEW c \in Clients, CommandNext(c), NEW q \in requests', q \notin requests
    PROVE  Stages(q)
<1> USE DEF Stages, servicesVars, Accept
<1>1. ASSUME NEW i \in Objects, NEW k, NEW t, Put(c, i, k, t) PROVE Stages(q)
    BY <1>1 DEF Put
<1>2. CASE \/ \E i \in Objects, k \in 0..MaxReplicas, t \in {"same", "bad"} : ScaleService(c, i, k, t)
           \/ \E i \in Objects : MarkStopped(c, i)
           \/ \E s \in Listing : StartService(c, s)
    BY <1>1, <1>2 DEF ScaleService, MarkStopped, StartService, Listing
<1>3. CASE \/ \E i \in Objects : ListReplicas(c, i)
           \/ StopApp(c) \/ AllMarked(c) \/ RestartApp(c) \/ Looked(c)
           \/ \E f \in File : DeployApp(c, f)
    BY <1>3 DEF ListReplicas, StopApp, AllMarked, RestartApp, Looked, DeployApp
<1>4. ASSUME NEW i \in Objects, Delete(c, i) PROVE Stages(q)
    BY <1>4 DEF Delete
<1>5. ASSUME Drop(c) PROVE Stages(q)
    BY <1>5 DEF Drop
<1>6. ASSUME NEW o, NEW n, NEW k, NEW g, NEW t, Post(c, o, n, k, g, t) PROVE Stages(q)
    BY <1>6 DEF Post
<1>7. CASE \/ \E i \in Objects : Remove(c, i)
           \/ DeleteApp(c)
           \/ \E n \in Names : DeployService(c, n)
    BY <1>4, <1>5, <1>6, <1>7 DEF Remove, DeleteApp, DeployService
<1>8. CASE \E r \in Replicas : StopFound(c, r) \/ RestartFound(c, r)
    BY <1>8 DEF StopFound, RestartFound, StopReplica, Restart
<1> QED BY <1>2, <1>3, <1>7, <1>8 DEF CommandNext

LEMMA HandlerRequests ==
    ASSUME AppsInv, NEW p \in requests, RequestNext(p), pass' = pass, NEW q \in requests', q \notin requests
    PROVE  Stages(q)
<1> USE DEF Stages, Finish, Continue, AppsInv, ServicesOK, ServicesTypeOK
<1>1. CASE \/ PostSave(p) \/ PutRejected(p) \/ PutState(p) \/ PutSave(p)
    BY <1>1 DEF PostSave, PutRejected, PutState, PutSave, Save
<1>2. CASE DeleteEnd(p) \/ DropService(p) \/ DropEnd(p) \/ RestartEnd(p)
    BY <1>2 DEF DeleteEnd, DropService, DropEnd, RestartEnd
<1>3. ASSUME NEW i \in Objects, DropList(p, i) PROVE Stages(q)
    BY <1>3 DEF DropList
<1>4. ASSUME NEW r \in Replicas, DeleteStop(p, r) PROVE Stages(q)
    <2>1. p \in [by : Clients, op : {"delete"}, svc : Objects, todo : SUBSET Replicas]
        BY <1>4, RequestKinds DEF DeleteStop
    <2> QED BY <1>4, <2>1 DEF DeleteStop
<1>5. ASSUME NEW r \in Replicas, DropReplica(p, r) PROVE Stages(q)
    <2>1. p \in [by : Clients, op : {"dropping"}, ids : SUBSET Objects, svc : Objects,
                 todo : SUBSET Replicas, ran : SUBSET Replicas]
        BY <1>5, RequestKinds DEF DropReplica
    <2>2. q = [p EXCEPT !.todo = @ \ {r}, !.ran = @ \ {r}]
        BY <1>5 DEF DropReplica
    <2>3. q.op = "dropping" /\ q.todo = p.todo \ {r} /\ q.ran = p.ran \ {r}
        BY <2>1, <2>2
    <2> QED BY <2>1, <2>3
<1>6. CASE RestartDelete(p)
    BY <1>6 DEF RestartDelete
<1>7. ASSUME NEW n \in First(FreeReplicas), RestartCreate(p, n) PROVE Stages(q)
    <2>1. q = [by |-> p.by, op |-> "schedule", job |-> [id |-> n, record |-> p.record]]
        BY <1>7 DEF RestartCreate
    <2>2. CreatedBy(q, p)
        BY <1>7, <2>1, FreeAreReplicas DEF RestartCreate, CreatedBy
    <2> QED BY <2>1, <2>2
<1> QED BY <1>1, <1>2, <1>3, <1>4, <1>5, <1>6, <1>7 DEF RequestNext

LEMMA LoopRequests ==
    ASSUME Loop \/ Workers
    PROVE  requests' = requests
<1>1. CASE Loop
    BY <1>1 DEF Loop, Reconcile, Tick, SkipStopped, Begin, ForOneService, Succeeds, Errs,
                FailedRestarted, FailedNotRestarted, ReplicaAdded, ReplicaNotAdded, RolledOne,
                NotRolledOne, DeleteFailed, UndoRestart, UndoAdd, Undo, ScaleUp, RestartFailed,
                StopExcess, RollPassesOver, RollOne, servicesVars
<1>2. CASE Workers
    BY <1>2 DEF Workers, WorkerNext, StopDone, End
<1> QED BY <1>1, <1>2

LEMMA RequestSteps ==
    ASSUME AppsInv, Next, NEW q \in requests', q \notin requests
    PROVE  Stages(q)
<1>1. CASE Users
    BY <1>1, UserRequests DEF Users
<1>2. CASE Handlers
    BY <1>2, HandlerRequests DEF Handlers
<1> QED BY <1>1, <1>2, LoopRequests DEF Next

\* How the loop comes to be at work for a service: it has just listed its replicas,
\* it goes on to what is next, it creates a replica, or it has scheduled one.
Begins ==
    /\ ~Busy /\ pass'.pc \in Stepping /\ object[pass'.svc].state = "running"
    /\ pass'.job = {} /\ pass'.old = {} /\ \A f \in pass'.failed : replica[f].state = "failed"
    /\ UNCHANGED <<replica, containers, stopping>>

GoesForth ==
    /\ Busy /\ pass'.pc \in Stepping /\ pass'.svc = pass.svc
    /\ pass'.job \subseteq pass.job
    /\ pass'.failed \subseteq pass.failed /\ pass'.old \subseteq pass.old

Creates ==
    /\ Busy /\ pass'.pc \in Scheduling /\ pass'.svc = pass.svc
    /\ \E n \in FreeReplicas :
        /\ pass'.job = {NewJob(n)}
        /\ replica' = [replica EXCEPT ![n] = NewJob(n).record]
    /\ pass'.failed \cup pass'.old \subseteq pass.failed \cup pass.old
    /\ UNCHANGED containers

Awaits ==
    /\ pass.pc \in Scheduling /\ pass'.pc \in Scheduled /\ pass'.svc = pass.svc
    /\ pass'.job = pass.job /\ pass'.failed = pass.failed /\ pass'.old = pass.old
    /\ pass'.pc \in {"unrestarted", "unadded"} =>
        \E j \in pass.job : Refused \/ AnswerLost(j)

LEMMA Decisions ==
    ASSUME NEW p, Under(p),
           NEW q \in {NextService(p.left), RollOver(p), Rolled(p), Scale(p), Restarts(p)}
    PROVE  \/ q.pc \in {"idle", "next"}
           \/ /\ q.pc \in Stepping /\ q.svc = p.svc
              /\ q.job = p.job /\ q.failed = p.failed /\ q.old = p.old
<1> DEFINE Goal(x) == \/ x.pc \in {"idle", "next"}
                      \/ /\ x.pc \in Stepping /\ x.svc = p.svc
                         /\ x.job = p.job /\ x.failed = p.failed /\ x.old = p.old
<1> USE DEF Under, ServicePass, Stepping
<1>1. Goal(NextService(p.left))
    BY DEF NextService, Idle
<1>2. Goal(RollOver(p)) /\ Goal(Rolled(p))
    BY <1>1 DEF RollOver, Rolled
<1>3. Goal(Scale(p))
    BY <1>2 DEF Scale
<1>4. Goal(Restarts(p))
    BY <1>3 DEF Restarts
<1> QED BY <1>1, <1>2, <1>3, <1>4

LEMMA BeginSteps ==
    ASSUME AppsInv, Busy', Tick \/ (At("next") /\ \E o \in pass.left : SkipStopped(o) \/ Begin(o))
    PROVE  Begins
<1>1. CASE Tick
    BY <1>1 DEF Tick, NextService, Idle, Busy
<1>2. ASSUME NEW o \in pass.left, SkipStopped(o) PROVE FALSE
    BY <1>2 DEF SkipStopped, NextService, Idle, Busy
<1>3. ASSUME NEW o \in pass.left, At("next"), Begin(o) PROVE Begins
    <2> DEFINE i == object[o].id
               runs == InState(i, "running")
               p == [pc |-> "restart", left |-> pass.left \ {o}, svc |-> o,
                     failed |-> InState(i, "failed"),
                     running |-> {[id |-> r, config |-> replica[r].config] : r \in runs},
                     actual |-> Count(i), wanted |-> object[o].replicas,
                     todo |-> runs, old |-> {}, job |-> {}]
    <2> USE DEF AppsInv, ServicesOK, ServicesTypeOK
    <2>1. pass.left \subseteq Made /\ pass.left \subseteq Objects
        BY <1>3 DEF PassOK, At, Made
    <2>2. object[o] \in Service /\ object[o].state = "running"
        BY <1>3, <2>1 DEF Made, Service, Begin, Skip
    <2>3. {[id |-> r, config |-> replica[r].config] : r \in runs} \subseteq Snapshot
        BY DEF InState, Of, Snapshot, Record
    <2>4. Count(i) \in Nat
        BY CountNat
    <2>5. Under(p)
        BY <2>1, <2>2, <2>3, <2>4 DEF Under, ServicePass, Stepping, InState, Of, Service
    <2>6. pass' = Restarts(p) /\ UNCHANGED servicesVars
        BY <1>3 DEF Begin
    <2>7. /\ pass'.pc \in Stepping /\ pass'.svc = o
          /\ pass'.job = {} /\ pass'.old = {} /\ pass'.failed = InState(i, "failed")
        BY <2>5, <2>6, Decisions DEF Busy
    <2> QED BY <1>3, <2>2, <2>6, <2>7 DEF Begins, Busy, At, InState, servicesVars, replicaVars
<1> QED BY <1>1, <1>2, <1>3

LEMMA PassSteps ==
    ASSUME AppsInv, Loop, Busy'
    PROVE  Begins \/ GoesForth \/ Creates \/ Awaits
<1> DEFINE Goal == Begins \/ GoesForth \/ Creates \/ Awaits
<1>1. CASE Tick \/ (At("next") /\ \E o \in pass.left : SkipStopped(o) \/ Begin(o))
    BY <1>1, BeginSteps
<1>2. CASE Busy /\ ForOneService(First(FreeReplicas))
    <2>1. Under(pass) /\ pass \in ServicePass
        BY <1>2, UnderPass DEF AppsInv, PassOK, Busy, Under
    <2>2. Under(Forgotten)
        BY <2>1, UnderChanges DEF Forgotten
    <2>3. ASSUME NEW p, Under(p), p.svc = pass.svc, p.job \subseteq pass.job,
                 p.failed = pass.failed, p.old \subseteq pass.old,
                 pass' \in {NextService(p.left), RollOver(p), Rolled(p), Scale(p), Restarts(p)}
          PROVE  GoesForth
        BY <1>2, <2>3, Decisions DEF GoesForth, Busy
    <2>4. Forgotten.job = {} /\ Forgotten.old = {} /\ Forgotten.failed = pass.failed
          /\ Forgotten.svc = pass.svc
        BY <2>1 DEF Forgotten, ServicePass
    <2>5. CASE FailedRestarted \/ FailedNotRestarted \/ ReplicaNotAdded
        BY <2>1, <2>5 DEF FailedRestarted, FailedNotRestarted, ReplicaNotAdded, Succeeds, Errs, At,
                          GoTo, Awaits, ServicePass, Scheduling, Scheduled
    <2>6. CASE ReplicaAdded
        <3> DEFINE p == [Forgotten EXCEPT !.actual = @ + 1]
        <3>1. Forgotten.actual + 1 \in Nat
            BY <2>2 DEF Under, ServicePass
        <3>2. Under(p)
            BY <2>2, <3>1, UnderChanges
        <3>3. p.svc = pass.svc /\ p.job = {} /\ p.failed = pass.failed /\ p.old = {}
            BY <2>2, <2>4 DEF Under, ServicePass
        <3> QED BY <2>3, <2>6, <3>2, <3>3 DEF ReplicaAdded, Succeeds
    <2>7. CASE RolledOne \/ NotRolledOne \/ UndoRestart \/ UndoAdd
        BY <2>2, <2>3, <2>4, <2>7 DEF RolledOne, NotRolledOne, UndoRestart, UndoAdd, Undo,
                                      Succeeds, Errs
    <2>8. CASE DeleteFailed
        <3> DEFINE p == [Forgotten EXCEPT !.actual = RestartedCounted]
        <3>1. RestartedCounted \in Nat
            BY <2>1 DEF RestartedCounted, ServicePass
        <3>2. Under(p)
            BY <2>2, <3>1, UnderChanges
        <3>3. p.svc = pass.svc /\ p.job = {} /\ p.failed = pass.failed /\ p.old = {}
            BY <2>2, <2>4 DEF Under, ServicePass
        <3> QED BY <2>3, <2>8, <3>2, <3>3 DEF DeleteFailed
    <2>9. ASSUME NEW r \in pass.todo, StopExcess(r) \/ RollPassesOver(r) PROVE Goal
        <3>1. pass.todo \ {r} \in SUBSET Replicas
            BY <2>1 DEF ServicePass
        <3>2. CASE StopExcess(r)
            <4> DEFINE p == [pass EXCEPT !.actual = @ - 1, !.todo = @ \ {r}]
            <4>1. pass.actual - 1 \in Nat
                BY <2>1, <3>2 DEF StopExcess, At, AppsInv, PassOK, ServicePass
            <4>2. Under(p)
                BY <2>1, <3>1, <4>1, UnderChanges
            <4>3. p.svc = pass.svc /\ p.job = pass.job /\ p.failed = pass.failed /\ p.old = pass.old
                BY <2>1 DEF ServicePass
            <4> QED BY <2>3, <3>2, <4>2, <4>3 DEF StopExcess
        <3>3. CASE RollPassesOver(r)
            <4> DEFINE p == [pass EXCEPT !.todo = @ \ {r}]
            <4>1. Under(p)
                BY <2>1, <3>1, UnderChanges
            <4>2. p.svc = pass.svc /\ p.job = pass.job /\ p.failed = pass.failed /\ p.old = pass.old
                BY <2>1 DEF ServicePass
            <4> QED BY <2>3, <3>3, <4>1, <4>2 DEF RollPassesOver
        <3> QED BY <2>9, <3>2, <3>3
    <2>10. ASSUME NEW n \in First(FreeReplicas), ScaleUp(n) PROVE Creates
        BY <1>2, <2>1, <2>10, FreeAreReplicas
           DEF ScaleUp, Create, GoTo, Creates, ServicePass, Scheduling
    <2>11. ASSUME NEW n \in First(FreeReplicas), NEW f \in pass.failed, RestartFailed(f, n)
           PROVE  Creates
        BY <1>2, <2>1, <2>11, FreeAreReplicas
           DEF RestartFailed, Create, Creates, ServicePass, Scheduling
    <2>12. ASSUME NEW n \in First(FreeReplicas), NEW r \in pass.todo, RollOne(r, n) PROVE Creates
        BY <1>2, <2>1, <2>12, FreeAreReplicas DEF RollOne, Create, Creates, ServicePass, Scheduling
    <2> QED BY <1>2, <2>5, <2>6, <2>7, <2>8, <2>9, <2>10, <2>11, <2>12 DEF ForOneService
<1> QED
    <2>1. Reconcile(First(FreeReplicas))
        BY DEF Loop
    <2> QED BY <1>1, <1>2, <2>1 DEF Reconcile

-----------------------------------------------------------------------------
\* A UUID is scheduled by one call, once: as long as that call is under way, there
\* is no container, the record is as it was made, or was deleted, and no pass takes
\* the replica for a failed one.

Fresh(j) ==
    /\ j.id \notin containers
    /\ replica[j.id] \in {Absent, j.record}
    /\ j.record.state = "pending"

OneCall ==
    /\ \A p, q \in requests :
        p.op = "schedule" /\ q.op = "schedule" /\ p.job.id = q.job.id => p = q
    /\ Busy => \A q \in requests, j \in pass.job : q.op = "schedule" => q.job.id # j.id

PendingRecords ==
    \A q \in requests : q.op \in {"restart", "replace"} => q.record.state = "pending"

AllFresh ==
    \A j \in Active : /\ Fresh(j)
                      /\ Busy => j.id \notin pass.failed \cup pass.old

JobsInv == OneCall /\ PendingRecords /\ AllFresh

\* What is held is not minted.
LEMMA HeldNotFree ==
    ASSUME NEW n \in FreeReplicas
    PROVE  /\ n \notin containers /\ n \notin Deploying
           /\ Busy => n \notin pass.failed \cup pass.old
BY DEF FreeReplicas, Held

LEMMA ActiveDeploys == \A j \in Active : j.id \in Deploying
BY DEF Active, Deploying, Jobs, Busy, Scheduling

\* A job stays fresh until its container runs.
LEMMA FreshStays ==
    ASSUME AppsInv, Next, AllFresh, NEW j \in Active, j.id \notin containers'
    PROVE  Fresh(j)'
<1>1. Fresh(j) /\ j \in Job /\ j.id \in Replicas
    <2>1. Fresh(j)
        BY DEF AllFresh
    <2>2. j \in Job
        BY ActiveJobs
    <2> QED BY <2>1, <2>2 DEF Job
<1>2. CASE Trims
    BY <1>1, <1>2 DEF Trims, Fresh
<1>3. ASSUME NEW n \in FreeReplicas, Makes(n) PROVE Fresh(j)'
    <2>1. j.id # n
        BY HeldNotFree, ActiveDeploys
    <2> QED BY <1>1, <1>3, <2>1 DEF Makes, Fresh
<1>4. ASSUME NEW r \in Replicas, StopDone(r) \/ \E how \in {"completed", "failed"} : End(r, how)
      PROVE  Fresh(j)'
    BY <1>1, <1>4 DEF StopDone, End, Fresh, AppsInv, ServicesOK, ServicesTypeOK
<1>5. ASSUME NEW k \in Active, Schedules(k) PROVE Fresh(j)'
    <2>1. k \in Job
        BY ActiveJobs
    <2>2. CASE Refused
        BY <1>1, <2>2 DEF Refused, Fresh, replicaVars
    <2>3. CASE Launched(k) \/ AnswerLost(k)
        <3>1. k.id \in containers'
            BY <2>3 DEF Launched, AnswerLost
        <3> QED BY <1>1, <1>5, <2>1, <3>1, ScheduleEffect DEF Fresh, AppsInv, ServicesOK
    <2> QED BY <1>5, <2>2, <2>3 DEF Schedules
<1> QED BY <1>2, <1>3, <1>4, <1>5, StoreSteps

\* When its container runs, the call is over.
LEMMA StartsLast ==
    ASSUME AppsInv, Next, OneCall, NEW r \in containers', r \notin containers,
           NEW j \in Active'
    PROVE  j.id # r
<1> USE DEF AppsInv, ServicesOK, ServicesTypeOK, servicesVars, replicaVars
<1>1. CASE Users
    BY <1>1, UsersLeave DEF Users
<1>2. ASSUME NEW q \in requests, RequestNext(q), pass' = pass PROVE j.id # r
    <2>1. CASE RestartEnd(q)
        <3>1. q.op = "schedule" /\ q.job \in Job /\ requests' = requests \ {q}
            BY <2>1, RequestKinds DEF RestartEnd, Finish
        <3>2. r = q.job.id
            BY <2>1, <3>1, ScheduleEffect DEF RestartEnd, Schedules
        <3>3. CASE \E p \in requests' : p.op = "schedule" /\ p.job = j
            BY <3>1, <3>2, <3>3 DEF OneCall
        <3>4. CASE pass.pc \in Scheduling /\ j \in pass.job
            BY <3>1, <3>2, <3>4 DEF OneCall, Busy, Scheduling
        <3> QED BY <1>2, <3>3, <3>4 DEF Active
    <2>2. CASE ~RestartEnd(q)
        BY <1>2, <2>2 DEF RequestNext, PostSave, PutRejected, PutState, PutSave, Save, DeleteEnd,
                DropService, DropEnd, DropList, DeleteStop, DropReplica, RestartDelete, RestartCreate
    <2> QED BY <2>1, <2>2
<1>3. CASE Loop
    <2>1. ASSUME NEW pc \in Scheduling, NEW p, p.pc \notin Scheduling, Succeeds(pc, p) \/ Errs(pc, p)
          PROVE  j.id # r
        <3>1. PICK k \in pass.job : Schedules(k)
            BY <2>1 DEF Succeeds, Errs, Schedules
        <3>2. k \in Job
            BY <2>1, <3>1, ActiveJobs DEF Active, Succeeds, Errs, At
        <3>3. r = k.id
            BY <3>1, <3>2, ScheduleEffect
        <3>4. PICK q \in requests : q.op = "schedule" /\ q.job = j
            BY <2>1 DEF Succeeds, Errs, Active
        <3> QED BY <2>1, <3>1, <3>3, <3>4 DEF OneCall, Succeeds, Errs, At, Busy, Scheduling
    <2>2. CASE FailedRestarted \/ FailedNotRestarted \/ ReplicaNotAdded
        <3>1. pass \in ServicePass
            BY <2>2, UnderPass DEF FailedRestarted, FailedNotRestarted, ReplicaNotAdded, Succeeds, Errs,
                                   At, PassOK
        <3>2. \A pc \in Scheduled : GoTo(pc).pc \notin Scheduling
            BY <3>1 DEF GoTo, ServicePass, Scheduling, Scheduled
        <3> QED BY <2>1, <2>2, <3>2 DEF FailedRestarted, FailedNotRestarted, ReplicaNotAdded,
                                        Scheduling, Scheduled
    <2>3. CASE ReplicaAdded \/ RolledOne \/ NotRolledOne
        <3>1. pass.pc \in Scheduling
            BY <2>3 DEF ReplicaAdded, RolledOne, NotRolledOne, Succeeds, Errs, At, Scheduling
        <3>2. Under(pass)
            BY <3>1, UnderPass DEF PassOK, Scheduling, Under
        <3>3. Under(Forgotten) /\ Forgotten.actual + 1 \in Nat
            <4>1. Under(Forgotten)
                BY <3>2, UnderChanges DEF Forgotten
            <4> QED BY <4>1 DEF Under, ServicePass
        <3>4. Under([Forgotten EXCEPT !.actual = @ + 1])
            BY <3>3, UnderChanges
        <3>5. Rolled(Forgotten).pc \notin Scheduling
            BY <3>3, Decisions DEF Stepping, Scheduling
        <3>6. Scale([Forgotten EXCEPT !.actual = @ + 1]).pc \notin Scheduling
            BY <3>4, Decisions DEF Stepping, Scheduling
        <3> QED BY <2>1, <2>3, <3>5, <3>6 DEF ReplicaAdded, RolledOne, NotRolledOne, Scheduling
    <2>4. CASE Tick \/ \E o \in pass.left : SkipStopped(o) \/ Begin(o)
        BY <2>4 DEF Tick, SkipStopped, Begin
    <2>5. CASE DeleteFailed \/ UndoRestart \/ UndoAdd
        BY <2>5 DEF DeleteFailed, UndoRestart, UndoAdd, Undo
    <2>6. CASE \/ \E n \in First(FreeReplicas) :
                    \/ ScaleUp(n) \/ \E f \in pass.failed : RestartFailed(f, n)
                    \/ \E s \in pass.todo : RollOne(s, n)
               \/ \E s \in pass.todo : StopExcess(s) \/ RollPassesOver(s)
        BY <2>6 DEF ScaleUp, RestartFailed, RollOne, StopExcess, RollPassesOver
    <2> QED BY <1>3, <2>2, <2>3, <2>4, <2>5, <2>6 DEF Loop, Reconcile, ForOneService
<1>4. CASE Workers
    BY <1>4 DEF Workers, WorkerNext, StopDone, End
<1> QED BY <1>1, <1>2, <1>3, <1>4 DEF Next, Handlers

\* Only the loop changes the pass.
LEMMA OthersKeepPass == Next => Loop \/ pass' = pass
BY UsersLeave DEF Next, Users, Handlers, Workers

LEMMA OneCallStep ==
    ASSUME AppsInv, OneCall, Next
    PROVE  OneCall'
<1> USE DEF OneCall
<1>1. \A q \in requests : q.op = "schedule" => q.job.id \in Deploying
    BY DEF Deploying, Jobs
<1>2. Busy => \A j \in pass.job : j.id \in Deploying
    BY DEF Deploying, Jobs
<1>3. ASSUME NEW q \in requests', q \notin requests, q.op = "schedule"
      PROVE  /\ q.job.id \in FreeReplicas /\ q.job.id \notin Deploying /\ pass' = pass
             /\ \A p \in requests' : p \in requests \/ p = q
    BY <1>3, RequestSteps, HeldNotFree DEF Stages, CreatedBy
<1>4. ASSUME NEW p \in requests', NEW q \in requests', p.op = "schedule", q.op = "schedule",
             p.job.id = q.job.id
      PROVE  p = q
    <2>1. CASE p \in requests /\ q \in requests
        BY <1>4, <2>1
    <2>2. CASE p \notin requests
        BY <1>1, <1>3, <1>4, <2>2
    <2>3. CASE q \notin requests
        BY <1>1, <1>3, <1>4, <2>3
    <2> QED BY <2>1, <2>2, <2>3
<1>5. ASSUME Busy', NEW q \in requests', NEW j \in pass'.job, q.op = "schedule"
      PROVE  q.job.id # j.id
    <2>1. CASE pass' = pass
        BY <1>2, <1>3, <1>5, <2>1 DEF Busy
    <2>2. CASE Loop
        <3>1. q \in requests
            BY <2>2, LoopRequests
        <3>2. CASE Creates
            BY <1>1, <1>5, <3>1, <3>2, HeldNotFree DEF Creates, NewJob
        <3>3. CASE Begins \/ GoesForth \/ Awaits
            BY <1>5, <3>1, <3>3 DEF Begins, GoesForth, Awaits, Busy, Scheduling
        <3> QED BY <1>5, <2>2, <3>2, <3>3, PassSteps
    <2> QED BY <2>1, <2>2, OthersKeepPass
<1> QED BY <1>4, <1>5

LEMMA AllFreshStep ==
    ASSUME AppsInv, JobsInv, Next
    PROVE  AllFresh'
<1> USE DEF JobsInv
<1> SUFFICES ASSUME NEW j \in Active'
             PROVE  Fresh(j)' /\ (Busy' => j.id \notin pass'.failed \cup pass'.old)
    BY DEF AllFresh
<1>1. CASE j \in Active
    <2>1. Fresh(j) /\ (Busy => j.id \notin pass.failed \cup pass.old)
        BY <1>1 DEF AllFresh
    <2>2. j.id \notin containers'
        BY <2>1, StartsLast DEF Fresh
    <2>3. Fresh(j)'
        BY <1>1, <2>2, FreshStays
    <2>4. ASSUME Busy' PROVE j.id \notin pass'.failed \cup pass'.old
        <3>1. CASE pass' = pass
            BY <2>1, <2>4, <3>1 DEF Busy
        <3>2. CASE Begins
            <4>1. replica[j.id].state # "failed"
                BY <2>1 DEF Fresh, Absent
            <4> QED BY <3>2, <4>1 DEF Begins
        <3>3. CASE GoesForth \/ Creates \/ Awaits
            BY <2>1, <3>3 DEF GoesForth, Creates, Awaits, Busy, Scheduling
        <3> QED BY <2>4, <3>1, <3>2, <3>3, PassSteps, OthersKeepPass
    <2> QED BY <2>3, <2>4
<1>2. ASSUME NEW q \in requests', q.op = "schedule", q.job = j, q \notin requests
      PROVE  Fresh(j)' /\ (Busy' => j.id \notin pass'.failed \cup pass'.old)
    <2>1. PICK p : CreatedBy(q, p)
        BY <1>2, RequestSteps DEF Stages
    <2>2. j.id \in FreeReplicas /\ j.id \in Replicas /\ j.record.state = "pending"
        BY <1>2, <2>1, FreeAreReplicas DEF CreatedBy, PendingRecords
    <2>3. replica'[j.id] = j.record /\ containers' = containers /\ pass' = pass
        BY <1>2, <2>1, <2>2 DEF CreatedBy, AppsInv, ServicesOK, ServicesTypeOK
    <2> QED BY <2>2, <2>3, HeldNotFree DEF Fresh, Busy
<1>3. ASSUME pass'.pc \in Scheduling, j \in pass'.job, pass' # pass
      PROVE  Fresh(j)' /\ (Busy' => j.id \notin pass'.failed \cup pass'.old)
    <2>1. Creates
        BY <1>3, PassSteps, OthersKeepPass
           DEF Begins, GoesForth, Awaits, Busy, Scheduling, Stepping, Scheduled
    <2>2. PICK n \in FreeReplicas : /\ j = NewJob(n)
                                    /\ replica' = [replica EXCEPT ![n] = NewJob(n).record]
        BY <1>3, <2>1 DEF Creates
    <2>3. j.id = n /\ n \in Replicas /\ j.record.state = "pending"
        BY <2>2, FreeAreReplicas DEF NewJob
    <2>4. replica'[n] = j.record
        BY <2>2, <2>3 DEF AppsInv, ServicesOK, ServicesTypeOK
    <2> QED BY <2>1, <2>2, <2>3, <2>4, HeldNotFree DEF Creates, Fresh
<1> QED BY <1>1, <1>2, <1>3 DEF Active

LEMMA JobsStep == AppsInv /\ JobsInv /\ [Next]_vars => JobsInv'
<1> SUFFICES ASSUME AppsInv, JobsInv, [Next]_vars PROVE JobsInv'
    OBVIOUS
<1>1. CASE Next
    <2>1. PendingRecords'
        BY <1>1, RequestSteps DEF JobsInv, PendingRecords, Stages
    <2> QED BY <1>1, <2>1, OneCallStep, AllFreshStep DEF JobsInv
<1>2. CASE UNCHANGED vars
    BY <1>2 DEF vars, reconcilerVars, servicesVars, replicaVars, JobsInv, OneCall,
                PendingRecords, AllFresh, Active, Fresh, Busy
<1> QED BY <1>1, <1>2

LEMMA JobsInvariant == Spec => [](AppsInv /\ JobsInv)
<1>1. Init => JobsInv
    BY DEF Init, ReconcilerInit, ServicesInit, Idle, JobsInv, OneCall, PendingRecords, AllFresh,
           Active, Scheduling, Busy
<1> QED BY <1>1, AppsInvariant, JobsStep, PTL DEF Spec

-----------------------------------------------------------------------------
\* Where containers are accounted for.  A record that somebody is about to delete
\* is of a container that was stopped, that was lost sight of, or that is gone.

Doomed(r) == r \in containers => r \in hit \/ r \in stopping

RestartsKnown ==
    \A q \in requests : q.op = "restart" /\ ~q.ran => q.old \in hit

DropsKnown ==
    \A q \in requests : q.op = "dropping" => q.todo \ q.ran \subseteq hit

FailedDoomed == Busy => \A f \in pass.failed \cup pass.old : Doomed(f)

UndoneDoomed == pass.pc \in {"unrestarted", "unadded"} => \A j \in pass.job : Doomed(j.id)

StrayInv == NoStrays /\ RestartsKnown /\ DropsKnown /\ FailedDoomed /\ UndoneDoomed

\* A replica that was lost sight of is remembered while anybody refers to it.
LEMMA HitStays ==
    ASSUME History, NEW r \in Held', r \in hit \/ Loses(r)
    PROVE  r \in hit'
BY DEF History

LEMMA ContainersHeld == containers \subseteq Held
BY DEF Held

\* A worker that has taken a stop request keeps it until the container is gone.
LEMMA StopsStay ==
    ASSUME AppsInv, Next, NEW r \in containers', r \in stopping
    PROVE  r \in stopping'
<1>1. ASSUME NEW j \in Active, Schedules(j) PROVE stopping' = stopping
    BY <1>1, ActiveJobs, ScheduleEffect DEF AppsInv, ServicesOK
<1> QED BY <1>1, StoreSteps DEF Trims, Makes, StopDone, End

\* A container is launched by a scheduling call.
LEMMA ContainersGain ==
    ASSUME AppsInv, Next, NEW r \in containers', r \notin containers
    PROVE  \E j \in Active : /\ j.id = r
                             /\ replica'[r].state = "running" \/ faults' # faults
<1>1. ASSUME NEW j \in Active, Schedules(j)
      PROVE  j.id = r /\ (replica'[r].state = "running" \/ faults' # faults)
    <2>1. j \in Job
        BY ActiveJobs
    <2>2. j.id = r
        BY <1>1, <2>1, ScheduleEffect DEF AppsInv, ServicesOK
    <2> QED BY <1>1, <2>1, <2>2, ScheduleEffect DEF AppsInv, ServicesOK
<1> QED BY <1>1, StoreSteps DEF Trims, Makes, StopDone, End

LEMMA DoomedStays ==
    ASSUME AppsInv, Next, History, NEW r, Doomed(r), \A j \in Active : j.id # r
    PROVE  Doomed(r)'
<1> SUFFICES ASSUME r \in containers' PROVE r \in hit' \/ r \in stopping'
    BY DEF Doomed
<1>1. r \in containers
    BY ContainersGain
<1>2. r \in Held'
    BY DEF Held
<1> QED BY <1>1, <1>2, StopsStay, HitStays DEF Doomed

\* Whoever deletes the record of a running replica has had it stopped, or is
\* somebody that the invariant tells of.
LEMMA Deletions ==
    ASSUME AppsInv, StrayInv, PendingRecords, Next, NEW r \in Replicas,
           replica[r].state = "running", replica'[r] = Absent
    PROVE  \/ r \in hit \/ r \in stopping'
           \/ Busy /\ r \in pass.old
           \/ pass.pc \in {"unrestarted", "unadded"} /\ \E j \in pass.job : r = j.id
<1> DEFINE Goal == \/ r \in hit \/ r \in stopping'
                   \/ Busy /\ r \in pass.old
                   \/ pass.pc \in {"unrestarted", "unadded"} /\ \E j \in pass.job : r = j.id
<1> USE DEF AppsInv, ServicesOK, ServicesTypeOK, replicaVars, servicesVars
<1>0. replica'[r] # replica[r] /\ replica'[r].state = "absent" /\ Stops(r) = {r}
    BY DEF Absent, Stops
<1>1. CASE Users
    BY <1>0, <1>1, UsersLeave DEF Users
<1>2. ASSUME NEW q \in requests, RequestNext(q) PROVE Goal
    <2>1. CASE \/ PostSave(q) \/ PutRejected(q) \/ PutState(q) \/ PutSave(q) \/ DeleteEnd(q)
               \/ DropService(q) \/ DropEnd(q)
               \/ \E i \in Objects : DropList(q, i)
               \/ \E s \in Replicas : DeleteStop(q, s)
        BY <1>0, <2>1 DEF PostSave, PutRejected, PutState, PutSave, Save, DropService, DropEnd,
                          DeleteEnd, DropList, DeleteStop
    <2>2. ASSUME NEW s \in Replicas, DropReplica(q, s) PROVE Goal
        BY <1>0, <2>2 DEF DropReplica, StrayInv, DropsKnown
    <2>3. CASE RestartDelete(q)
        BY <1>0, <2>3 DEF RestartDelete, StrayInv, RestartsKnown
    <2>4. CASE RestartEnd(q)
        <3>1. q.job \in Job /\ Schedules(q.job)
            BY <2>4, RequestKinds DEF RestartEnd, Schedules
        <3> QED BY <1>0, <3>1, ScheduleEffect
    <2>5. ASSUME NEW n \in First(FreeReplicas), RestartCreate(q, n) PROVE Goal
        BY <1>0, <2>5 DEF RestartCreate, PendingRecords
    <2> QED BY <1>2, <2>1, <2>2, <2>3, <2>4, <2>5 DEF RequestNext
<1>3. CASE Loop
    <2>1. CASE Tick \/ \E o \in pass.left : SkipStopped(o) \/ Begin(o)
        BY <1>0, <2>1 DEF Tick, SkipStopped, Begin
    <2>2. ASSUME NEW pc \in Scheduling, NEW p, Succeeds(pc, p) \/ Errs(pc, p) PROVE FALSE
        <3>1. PICK k \in pass.job : Schedules(k)
            BY <2>2 DEF Succeeds, Errs, Schedules
        <3>2. k \in Job
            BY <2>2, <3>1, ActiveJobs DEF Active, Succeeds, Errs, At
        <3> QED BY <1>0, <3>1, <3>2, ScheduleEffect
    <2>3. CASE FailedRestarted \/ FailedNotRestarted \/ ReplicaAdded \/ ReplicaNotAdded
               \/ RolledOne \/ NotRolledOne
        BY <2>2, <2>3 DEF FailedRestarted, FailedNotRestarted, ReplicaAdded, ReplicaNotAdded,
                          RolledOne, NotRolledOne, Scheduling
    <2>4. CASE DeleteFailed
        BY <1>0, <2>4 DEF DeleteFailed, Deleted, At, Busy
    <2>5. CASE UndoRestart \/ UndoAdd
        BY <1>0, <2>5 DEF UndoRestart, UndoAdd, Undo, Deleted, At
    <2>6. CASE \/ \E n \in First(FreeReplicas) :
                    \/ ScaleUp(n) \/ \E f \in pass.failed : RestartFailed(f, n)
                    \/ \E s \in pass.todo : RollOne(s, n)
               \/ \E s \in pass.todo : StopExcess(s) \/ RollPassesOver(s)
        <3>1. \A n : NewJob(n).record.state = "pending"
            BY DEF NewJob
        <3> QED BY <1>0, <2>6, <3>1
                DEF ScaleUp, RestartFailed, RollOne, Create, StopExcess, RollPassesOver
    <2> QED BY <1>3, <2>1, <2>3, <2>4, <2>5, <2>6 DEF Loop, Reconcile, ForOneService
<1>4. CASE Workers
    BY <1>0, <1>4 DEF Workers, WorkerNext, StopDone, End, Record
<1> QED BY <1>1, <1>2, <1>3, <1>4 DEF Next, Handlers

LEMMA NoStraysStep ==
    ASSUME AppsInv, JobsInv, StrayInv, Next, History
    PROVE  NoStrays'
<1> SUFFICES ASSUME NEW r \in containers', r \notin hit'
             PROVE  replica'[r].state = "running" \/ r \in stopping'
    BY DEF NoStrays
<1>1. r \notin hit /\ ~Loses(r)
    <2>1. r \in Held'
        BY DEF Held
    <2> QED BY <2>1, HitStays
<1>2. CASE r \notin containers
    BY <1>1, <1>2, ContainersGain DEF Loses
<1>3. CASE r \in containers /\ r \in stopping
    BY <1>3, StopsStay
<1>4. CASE r \in containers /\ replica[r].state = "running"
    <2>1. r \in Replicas
        BY <1>4 DEF AppsInv, ServicesOK, ServicesTypeOK
    <2>2. r \notin FreeReplicas
        BY <1>4, HeldNotFree
    <2>3. ~StopDone(r) /\ \A how : ~End(r, how)
        BY DEF StopDone, End
    <2>4. CASE replica'[r] = Absent
        <3>1. Busy /\ r \in pass.old => r \in stopping
            BY <1>1, <1>4 DEF StrayInv, FailedDoomed, Doomed
        <3>2. pass.pc \in {"unrestarted", "unadded"} /\ (\E j \in pass.job : r = j.id)
              => r \in stopping
            BY <1>1, <1>4 DEF StrayInv, UndoneDoomed, Doomed
        <3> QED BY <1>1, <1>4, <2>1, <2>4, <3>1, <3>2, Deletions, StopsStay DEF JobsInv
    <2> QED BY <1>4, <2>1, <2>2, <2>3, <2>4, RecordsChange
<1> QED BY <1>1, <1>2, <1>3, <1>4 DEF StrayInv, NoStrays

LEMMA KnownStep ==
    ASSUME AppsInv, StrayInv, Next, History
    PROVE  RestartsKnown' /\ DropsKnown'
<1>1. ASSUME NEW q \in requests', q.op = "restart", ~q.ran PROVE q.old \in hit'
    <2>1. q.old \in Held'
        BY <1>1 DEF Held
    <2>2. CASE q \in requests
        BY <1>1, <2>1, <2>2, HitStays DEF StrayInv, RestartsKnown
    <2>3. CASE q \notin requests
        BY <1>1, <2>1, <2>3, HitStays DEF Loses
    <2> QED BY <2>2, <2>3
<1>2. ASSUME NEW q \in requests', q.op = "dropping", NEW r \in q.todo \ q.ran PROVE r \in hit'
    <2>1. r \in Held'
        BY <1>2 DEF Held
    <2>2. CASE q \in requests
        BY <1>2, <2>1, <2>2, HitStays DEF StrayInv, DropsKnown
    <2>3. CASE q \notin requests
        <3>1. CASE \E p \in requests \ requests' : p.op = "drop"
            BY <1>2, <2>1, <2>3, <3>1, HitStays DEF Loses
        <3>2. CASE \E p \in requests : p.op = "dropping" /\ q.todo \ q.ran \subseteq p.todo \ p.ran
            BY <1>2, <2>1, <3>2, HitStays DEF StrayInv, DropsKnown
        <3> QED BY <1>2, <2>3, <3>1, <3>2, RequestSteps DEF Stages
    <2> QED BY <2>2, <2>3
<1> QED BY <1>1, <1>2 DEF RestartsKnown, DropsKnown

LEMMA DoomedStep ==
    ASSUME AppsInv, JobsInv, StrayInv, Next, History
    PROVE  FailedDoomed' /\ UndoneDoomed'
<1>1. ASSUME Busy', NEW f \in pass'.failed \cup pass'.old PROVE Doomed(f)'
    <2>1. ASSUME Busy, f \in pass.failed \cup pass.old PROVE Doomed(f)'
        <3>1. \A j \in Active : j.id # f
            BY <2>1 DEF JobsInv, AllFresh
        <3>2. Doomed(f)
            BY <2>1 DEF StrayInv, FailedDoomed
        <3> QED BY <3>1, <3>2, DoomedStays
    <2>2. CASE Begins
        <3>1. replica[f].state = "failed" /\ UNCHANGED <<containers, stopping>>
            BY <1>1, <2>2 DEF Begins
        <3>2. f \in containers' => f \in Held'
            BY DEF Held
        <3> QED BY <3>1, <3>2, HitStays DEF StrayInv, NoStrays, Doomed
    <2>3. CASE GoesForth \/ Creates \/ Awaits
        BY <1>1, <2>1, <2>3 DEF GoesForth, Creates, Awaits, Busy, Scheduling
    <2>4. CASE pass' = pass
        BY <1>1, <2>1, <2>4 DEF Busy
    <2> QED BY <1>1, <2>2, <2>3, <2>4, PassSteps, OthersKeepPass
<1>2. ASSUME pass'.pc \in {"unrestarted", "unadded"}, NEW j \in pass'.job PROVE Doomed(j.id)'
    <2>1. CASE pass' = pass
        <3>1. Doomed(j.id)
            BY <1>2, <2>1 DEF StrayInv, UndoneDoomed
        <3>2. \A k \in Active : k.id # j.id
            BY <1>2, <2>1 DEF Active, JobsInv, OneCall, Busy, Scheduling
        <3> QED BY <3>1, <3>2, DoomedStays
    <2>2. CASE pass' # pass
        <3>1. Awaits
            BY <1>2, <2>2, PassSteps, OthersKeepPass
               DEF Begins, GoesForth, Creates, Busy, Stepping, Scheduling
        <3>2. j \in Active /\ j.id \notin containers
            BY <1>2, <3>1 DEF Awaits, Active, JobsInv, AllFresh, Fresh
        <3>3. PICK k \in pass.job : Refused \/ AnswerLost(k)
            BY <1>2, <3>1 DEF Awaits
        <3>4. ASSUME j.id \in containers' PROVE j.id \in hit'
            <4>1. faults' # faults
                BY <3>2, <3>3, <3>4
                   DEF Refused, AnswerLost, Fails, replicaVars, AppsInv, ServicesOK, ServicesTypeOK
            <4>2. j.id \in Held'
                BY <3>4 DEF Held
            <4> QED BY <3>2, <3>4, <4>1, <4>2, HitStays DEF Loses
        <3> QED BY <3>4 DEF Doomed
    <2> QED BY <2>1, <2>2
<1> QED BY <1>1, <1>2 DEF FailedDoomed, UndoneDoomed

LEMMA StrayStep == AppsInv /\ JobsInv /\ StrayInv /\ [Next]_vars => StrayInv'
<1> SUFFICES ASSUME AppsInv, JobsInv, StrayInv, [Next]_vars PROVE StrayInv'
    OBVIOUS
<1>1. CASE Next
    <2>1. History
        BY <1>1 DEF Next, Users, Handlers, Loop, Workers
    <2> QED BY <1>1, <2>1, NoStraysStep, KnownStep, DoomedStep DEF StrayInv
<1>2. CASE UNCHANGED vars
    BY <1>2 DEF vars, reconcilerVars, servicesVars, replicaVars, StrayInv, NoStrays, RestartsKnown,
                DropsKnown, FailedDoomed, UndoneDoomed, Doomed, Busy
<1> QED BY <1>1, <1>2

LEMMA StrayInvariant == Spec => []StrayInv
<1>1. Init => StrayInv
    BY DEF Init, ReconcilerInit, ServicesInit, Idle, StrayInv, NoStrays, RestartsKnown, DropsKnown,
           FailedDoomed, UndoneDoomed, Busy
<1> QED BY <1>1, JobsInvariant, StrayStep, PTL DEF Spec

\* No container is lost sight of but in the two ways the model names: whatever the
\* number of users, restarts, roll overs, deletions and passes, and in whatever
\* order they meet, a container's record is deleted only after a worker has taken the
\* request to stop it, or by somebody who saw the replica as pending, or after a lost
\* answer.
THEOREM ContainersAccounted == Spec => []NoStrays
BY StrayInvariant, PTL DEF StrayInv
=============================================================================
