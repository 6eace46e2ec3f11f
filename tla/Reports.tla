------------------------------ MODULE Reports ------------------------------
(***************************************************************************)
(* The status reports on the wire between the workers and the manager: the *)
(* PUT /replicas/{id}/status calls of worker.go's reportReplicaStatus.  A  *)
(* report is in the set from the moment a worker sends it until the        *)
(* manager has answered it or the network has lost it; the sending         *)
(* goroutine waits for exactly that, unless its HTTP client times out.     *)
(***************************************************************************)
EXTENDS Replica

CONSTANT Faults  \* the faults an instance allows, of the kinds below

\* loss:    a request or an answer is lost (connection refused or reset)
\* timeout: a worker's HTTP client gives up on a call after 10s
\* stale:   a live worker's heartbeats stay away for longer than 30s
\* runtime: the container runtime fails an operation
\* stop:    a worker is told to shut down
\* crash:   a worker process dies
FaultKinds == {"loss", "timeout", "stale", "runtime", "stop", "crash"}

ASSUME FaultsAssumption == Faults \subseteq FaultKinds

VARIABLE reports  \* the status reports sent and not yet answered

\* Who sends: the deploy handler, the stop handler, or the goroutine that
\* watches the container for its exit.
Senders == {"deploy", "stop", "exit"}

Report == [replica: Replicas, from: Senders,
           state: {"running", "completed", "failed"}, container: BOOLEAN]

ReportsInit == reports = {}

\* The guard keeps apart two equal stop reports of one replica, of which the
\* first was given up by its sender: a bound, the code has none.
Send(m) == m \notin reports /\ reports' = reports \cup {m}

Answered(m) == m \notin reports

\* The body of the manager's status update.
ApplyReport(r, m) ==
    LET s == SetState(r, m.state)
    IN  IF m.container THEN SetContainerID(s) ELSE s
=============================================================================
