-------------------------------- MODULE Apps --------------------------------
(***************************************************************************)
(* Users, the service handlers and the reconciler together.  A user runs   *)
(* the commands of cmd/app.go, each a program that sends requests one      *)
(* after the other or side by side, or sends a single request.             *)
(***************************************************************************)
EXTENDS Integers, Reconciler

CONSTANTS NoCommand,    \* what an idle user runs
          Commands,     \* the kinds of commands users may run
          MaxCommands   \* bound on how many they run

ASSUME MaxCommandsAssumption == MaxCommands \in Nat

VARIABLES cmd,    \* cmd[c]: the command user c runs, and how far it is
          issued, \* how many were run so far
          raced,  \* history, not code: services switched off in a race with another
          hit,    \* history, not code: replicas that were lost sight of
          late,   \* history, not code: how many failed while they were being stopped
          again   \* history, not code: how many were rolled over while they were

commandVars == <<cmd, issued>>
vars == <<reconcilerVars, commandVars, raced, hit, late, again>>

Init ==
    /\ ReconcilerInit
    /\ cmd = [c \in Clients |-> NoCommand] /\ issued = 0
    /\ raced = {} /\ hit = {} /\ late = 0 /\ again = 0

-----------------------------------------------------------------------------
\* UUIDs: which one is minted makes no difference, so it is always the first
\* that is free.  The UUID of a completed replica that nobody refers to any more
\* may be minted again, which bounds the records that the manager never deletes.

Jobs == {q.job : q \in {p \in requests : p.op = "schedule"}}
        \cup IF Busy THEN pass.job ELSE {}

Deploying == {j.id : j \in Jobs}

Held ==
    containers \cup stopping \cup Deploying
    \cup (IF Busy THEN pass.failed \cup pass.todo \cup pass.old
                       \cup {s.id : s \in pass.running} ELSE {})
    \cup (UNION {q.todo : q \in {p \in requests : p.op \in {"delete", "dropping"}}})
    \cup {q.old : q \in {p \in requests : p.op \in {"restart", "replace"}}}
    \cup (UNION {cmd[c].found : c \in {d \in Clients : cmd[d] # NoCommand}})

FreeReplicas == {r \in Replicas \ Held : replica[r] = Absent \/ replica[r].state = "completed"}
FreeObjects == {o \in Objects : object[o] = NoService}

First(S) == IF S = {} THEN {} ELSE {CHOOSE x \in S : TRUE}

-----------------------------------------------------------------------------
\* The commands.  A command sends its next request when the one before it is
\* answered, unless it is said to send them side by side.

\* listed: the services a command has got, with their counts; ids: those still to
\* go; found: the replicas still to go.
Listing == [id : Objects, n : 0..MaxReplicas]
File == [replicas : 1..MaxReplicas, config : Configs, policy : Policies]
Command ==
    [op : {"mark", "stop", "look", "restart", "start"}, listed : SUBSET Listing,
     ids : SUBSET Objects, found : SUBSET Replicas]
    \cup [op : {"deploy"}, names : SUBSET Names, file : File, found : {{}}]

ASSUME NoCommandAssumption == NoCommand \notin Command

List == {[id |-> i, n |-> object[services[i]].replicas] : i \in Stored}
Over(op) == [op |-> op, listed |-> List, ids |-> Stored, found |-> {}]

Waiting(c) == \E q \in requests : q.by = c
Runs(c, op) == cmd[c] # NoCommand /\ cmd[c].op = op

\* The command has sent its last request.
Sent(k) ==
    \/ k.op = "deploy" /\ k.names = {}
    \/ k.op = "stop" /\ k.ids = {} /\ k.found = {}
    \/ k.op = "restart" /\ k.found = {}
    \/ k.op = "start" /\ k.listed = {}

Becomes(c, k) == cmd' = [cmd EXCEPT ![c] = IF Sent(k) THEN NoCommand ELSE k]

Issue(c, kind) ==
    /\ kind \in Commands
    /\ cmd[c] = NoCommand /\ ~Waiting(c)
    /\ issued < MaxCommands /\ issued' = issued + 1
    /\ UNCHANGED pass

Continues == UNCHANGED <<pass, issued>>

\* One request alone: a new count, perhaps with an invalid state; a service to
\* delete; app delete.
ScaleService(c, i, k, s) == Issue(c, "scale") /\ Put(c, i, k, s) /\ UNCHANGED cmd
Remove(c, i) == Issue(c, "remove") /\ Delete(c, i) /\ UNCHANGED cmd
DeleteApp(c) == Issue(c, "delete") /\ Drop(c) /\ UNCHANGED cmd

\* app deploy: a POST for each service of the file.
DeployApp(c, f) ==
    /\ Issue(c, "deploy")
    /\ Becomes(c, [op |-> "deploy", names |-> Names, file |-> f, found |-> {}])
    /\ UNCHANGED servicesVars

DeployService(c, n) ==
    /\ Runs(c, "deploy") /\ n \in cmd[c].names /\ ~Waiting(c)
    /\ LET f == cmd[c].file IN
       \E o \in First(FreeObjects) : Post(c, o, n, f.replicas, f.config, f.policy)
    /\ Becomes(c, [cmd[c] EXCEPT !.names = @ \ {n}])
    /\ Continues

\* app stop: mark all services as stopped; the count is left out of the request,
\* which makes it zero.
StopApp(c) ==
    /\ Stored # {} /\ Issue(c, "stop")
    /\ Becomes(c, Over("mark"))
    /\ UNCHANGED servicesVars

OmittedCount == 0

MarkStopped(c, i) ==
    /\ Runs(c, "mark") /\ i \in cmd[c].ids /\ ~Waiting(c)
    /\ IF i \in Stored THEN Put(c, i, OmittedCount, "stopped") ELSE UNCHANGED servicesVars
    /\ Becomes(c, [cmd[c] EXCEPT !.ids = @ \ {i}])
    /\ Continues

\* Then list the replicas of each ...
AllMarked(c) ==
    /\ Runs(c, "mark") /\ cmd[c].ids = {} /\ ~Waiting(c)
    /\ Becomes(c, [cmd[c] EXCEPT !.op = "stop", !.ids = {s.id : s \in cmd[c].listed}])
    /\ UNCHANGED servicesVars /\ Continues

ListReplicas(c, i) ==
    /\ Runs(c, "stop") \/ Runs(c, "look")
    /\ i \in cmd[c].ids
    /\ Becomes(c, [cmd[c] EXCEPT !.ids = @ \ {i}, !.found = @ \cup Live(i)])
    /\ UNCHANGED servicesVars /\ Continues

\* ... and stop them, side by side; of a pending one that is an error.
StopFound(c, r) ==
    /\ Runs(c, "stop") /\ cmd[c].ids = {} /\ r \in cmd[c].found
    /\ StopReplica(r)
    /\ Becomes(c, [cmd[c] EXCEPT !.found = @ \ {r}])
    /\ Continues

\* app restart: look for live replicas,
RestartApp(c) ==
    /\ Stored # {} /\ Issue(c, "restart")
    /\ Becomes(c, Over("look"))
    /\ UNCHANGED servicesVars

\* restart those there are; if there are none, start the services.
Looked(c) ==
    /\ Runs(c, "look") /\ cmd[c].ids = {}
    /\ Becomes(c, IF cmd[c].found # {} THEN [cmd[c] EXCEPT !.op = "restart"]
                  ELSE [cmd[c] EXCEPT !.op = "start", !.listed = {s \in @ : s.n > 0}])
    /\ UNCHANGED servicesVars /\ Continues

RestartFound(c, r) ==
    /\ Runs(c, "restart") /\ r \in cmd[c].found
    /\ IF replica[r] # Absent /\ replica[r].service \in Stored THEN Restart(c, r)
                                                               ELSE UNCHANGED servicesVars
    /\ Becomes(c, [cmd[c] EXCEPT !.found = @ \ {r}])
    /\ Continues

StartService(c, s) ==
    /\ Runs(c, "start") /\ s \in cmd[c].listed
    /\ IF s.id \in Stored THEN Put(c, s.id, s.n, "running") ELSE UNCHANGED servicesVars
    /\ Becomes(c, [cmd[c] EXCEPT !.listed = @ \ {s}])
    /\ Continues

-----------------------------------------------------------------------------
\* History

\* Somebody may be creating replicas of service i.
BusyOn(i) ==
    \/ Busy /\ object[pass.svc].id = i
    \/ \E q \in requests : \/ q.op \in {"restart", "replace"} /\ q.record.service = i
                           \/ q.op = "schedule" /\ q.job.record.service = i

\* Service i is to have no replicas: stopped, deleted, or about to be.
Leaving(i) ==
    \/ i \notin Stored
    \/ object[services[i]].state = "stopped"
    \/ \E q \in requests : q.op \in {"delete", "dropping"} /\ q.svc = i

\* It is switched off while somebody is, or somebody starts with it meanwhile:
\* a restart, or a pass that still sees it as running.
Races(i) ==
    /\ Leaving(i)' /\ BusyOn(i)'
    /\ \/ ~Leaving(i)
       \/ /\ ~BusyOn(i)
          /\ Busy' /\ ~Busy => object[pass'.svc].state = "running"

\* A PUT stores its object, stopped since it was read, over the one that a POST has
\* put in its place, and its sender is not about to stop the replicas.
PutsBack(i) ==
    /\ ~Leaving(i) /\ Leaving(i)'
    /\ \E q \in requests \ requests' : q.op = "save" /\ ~Runs(q.by, "mark")

\* A container that its record does not tell of: the record was deleted by
\* somebody who saw it as pending, or the answer to its deployment was lost.
Loses(r) ==
    \/ \E q \in requests' \ requests :
         \/ q.op = "restart" /\ q.old = r /\ ~q.ran
         \/ q.op = "dropping" /\ r \in q.todo \ q.ran /\ \E p \in requests \ requests' : p.op = "drop"
    \/ faults' # faults /\ r \in containers' \ containers

FailsNow(r) == replica[r].state = "running" /\ replica'[r].state = "failed"
RollsNow(r) == At("roll") /\ At("rolling")' /\ r \in pass.todo \ pass'.todo

History ==
    /\ raced' = {i \in Objects : \/ i \in raced /\ Leaving(i)'
                              \/ Races(i) \/ PutsBack(i)}
    /\ hit' = {r \in Held' : r \in hit \/ Loses(r)}
    /\ late' = late + Cardinality({r \in stopping : FailsNow(r)})
    /\ again' = again + Cardinality({r \in stopping : RollsNow(r)})

-----------------------------------------------------------------------------
CommandNext(c) ==
    \/ \E i \in Objects, k \in 0..MaxReplicas, s \in {"same", "bad"} : ScaleService(c, i, k, s)
    \/ \E i \in Objects : Remove(c, i) \/ MarkStopped(c, i) \/ ListReplicas(c, i)
    \/ DeleteApp(c) \/ StopApp(c) \/ AllMarked(c) \/ RestartApp(c) \/ Looked(c)
    \/ \E f \in File : DeployApp(c, f)
    \/ \E n \in Names : DeployService(c, n)
    \/ \E r \in Replicas : StopFound(c, r) \/ RestartFound(c, r)
    \/ \E s \in Listing : StartService(c, s)

RequestNext(q) ==
    \/ PostSave(q) \/ PutRejected(q) \/ PutState(q) \/ PutSave(q)
    \/ DeleteEnd(q) \/ DropService(q) \/ DropEnd(q)
    \/ \E i \in Objects : DropList(q, i)
    \/ \E r \in Replicas : DeleteStop(q, r) \/ DropReplica(q, r)
    \/ RestartDelete(q) \/ RestartEnd(q)
    \/ \E n \in First(FreeReplicas) : RestartCreate(q, n)

WorkerNext(r) == StopDone(r) \/ \E how \in {"completed", "failed"} : End(r, how)

Users == \E c \in Clients : CommandNext(c) /\ History
Handlers == (\E q \in requests : RequestNext(q)) /\ UNCHANGED <<pass, commandVars>> /\ History
Loop == Reconcile(First(FreeReplicas)) /\ UNCHANGED commandVars /\ History
Workers == (\E r \in Replicas : WorkerNext(r)) /\ UNCHANGED <<pass, commandVars>> /\ History

Next == Users \/ Handlers \/ Loop \/ Workers

Spec == Init /\ [][Next]_vars

(***************************************************************************)
(* Fairness: commands go on, requests are handled, the loop runs, and a    *)
(* stop is carried out.  Users, failures and containers are not fair.      *)
(***************************************************************************)
Finishes(c) ==
    \/ AllMarked(c) \/ Looked(c)
    \/ \E i \in Objects : MarkStopped(c, i) \/ ListReplicas(c, i)
    \/ \E n \in Names : DeployService(c, n)
    \/ \E r \in Replicas : StopFound(c, r) \/ RestartFound(c, r)
    \/ \E s \in Listing : StartService(c, s)

FairSpec ==
    /\ Spec
    /\ \A c \in Clients : WF_vars(Finishes(c) /\ History)
    /\ WF_vars(Handlers)
    /\ WF_vars(Loop)
    /\ \A r \in Replicas :
        WF_vars(StopDone(r) /\ UNCHANGED <<pass, commandVars>> /\ History)

-----------------------------------------------------------------------------
\* Type invariant: every variable of users, handlers and loop keeps its type.
TypeOK ==
    /\ ServicesTypeOK
    /\ pass \in Pass
    /\ cmd \in [Clients -> Command \cup {NoCommand}]
    /\ issued \in 0..MaxCommands
    /\ raced \subseteq Objects /\ hit \subseteq Replicas /\ late \in 0..MaxEnds
    /\ again \in Nat

On(i) == i \in Stored /\ object[services[i]].state = "running"

\* A pending record whose scheduling has failed and been given up.
LeftPending(i) == InState(i, "pending") \ Deploying

\* Once users are done, the reconciler brings every running service to the wanted
\* number of replicas, all with its configuration, whatever was restarted, scaled,
\* rolled over or ended meanwhile -- but a pending record that was left behind
\* counts as a replica for ever, and cannot be stopped.
Converges ==
    \A i \in Objects :
        <>[](On(i) =>
              LET o == object[services[i]]
                  missing == o.replicas - Cardinality(LeftPending(i)) IN
              /\ Cardinality(InState(i, "running")) = IF missing > 0 THEN missing ELSE 0
              /\ \A r \in InState(i, "running") :
                    r \in containers /\ replica[r].config = o.config)

Quiet ==
    /\ requests = {} /\ stopping = {} /\ ~Busy
    /\ \A c \in Clients : cmd[c] = NoCommand

\* When nothing is under way, a service that was stopped or deleted has no running
\* replica -- unless it was switched off under the eyes of a pass or a restart,
\* which goes on with the list and the object it has, or by a stale object that a
\* request for another count stored over a newer one.
OffStaysOff ==
    Quiet => \A i \in Objects \ raced : ~On(i) => InState(i, "running") = {}

\* Every container that runs is recorded as running or is being stopped, except
\* where a record was deleted by somebody who saw it as pending, or after a lost
\* answer: restarts, roll overs and deletions lose no container in another way.
NoStrays ==
    \A r \in containers \ hit : replica[r].state = "running" \/ r \in stopping

\* Service i was always deployed with policies that restart failed replicas, or always
\* with those that do not.
SamePolicy(i) ==
    \A o, p \in {q \in Objects : object[q].id = i} : ShouldRestart(o) <=> ShouldRestart(p)

\* Without restarts by users the loop never has more replicas of a service at a time
\* than may be wanted, those being stopped left out, however often they are scaled,
\* rolled over or fail: a failed one is counted when it is restarted, so the scaling
\* up that follows does not replace it as well -- unless it was replaced already, under
\* another policy.  The exceptions are one for each deploy request that failed, for each
\* replica that failed while it was being stopped, which is restarted though its
\* successor runs, and for each that was still being stopped when the next pass
\* rolled it over again.
NeverTooMany ==
    \A i \in Objects :
        SamePolicy(i) => Cardinality(Live(i) \ stopping) <= MaxReplicas + faults + late + again

-----------------------------------------------------------------------------
\* What comments and tests say, and the code does not do

\* tests/integration_test.go:366, one replica that fails and is not to be restarted
\* leaves one failed replica: it has no successor, which would fail as well.
NeverMeansNever ==
    \A i \in Stored :
        object[services[i]].policy = "never"
        => Cardinality(InState(i, "failed")) <= object[services[i]].replicas

\* cmd/app.go:98, stopping an app preserves its configuration for a restart: a
\* deployment asks for at least one replica, and a stopped service still does.
StopPreserves ==
    \A i \in Stored : object[services[i]].state = "stopped" => object[services[i]].replicas > 0
=============================================================================
