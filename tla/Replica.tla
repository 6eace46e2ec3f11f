------------------------------ MODULE Replica ------------------------------
(***************************************************************************)
(* The replica record of replica/replica.go as the rest of the system sees *)
(* it: its lifecycle state, the worker it is assigned to, and whether its  *)
(* container ID is filled in.  Names, images, commands, error texts and    *)
(* timestamps decide nothing in the code modelled here and are left out.   *)
(*                                                                         *)
(* A record is passed by value: storage/memory.go clones a replica on Put  *)
(* and on Get, so every holder of a record works on a snapshot of its own. *)
(***************************************************************************)

CONSTANTS Workers,    \* worker processes, each with its container runtime
          Replicas,   \* replica UUIDs the manager may mint
          NoWorker    \* the zero UUID of an unassigned replica

ASSUME NoWorkerAssumption == NoWorker \notin Workers

ReplicaStates == {"pending", "running", "completed", "failed"}

\* A container ID is its replica's own, so knowing it is all there is to tell:
\* the runtime names the container after the replica's UUID.
ReplicaRecord == [state: ReplicaStates, worker: Workers \cup {NoWorker},
                  container: BOOLEAN]

\* What the store holds under a UUID it has no record for.
Absent == [state |-> "absent", worker |-> NoWorker, container |-> FALSE]

NewReplica == [state |-> "pending", worker |-> NoWorker, container |-> FALSE]

SetState(r, s) == [r EXCEPT !.state = s]
SetWorkerID(r, w) == [r EXCEPT !.worker = w]
SetContainerID(r) == [r EXCEPT !.container = TRUE]

\* Variant: a failed replica is detached from its worker.
SetErrorDetached(r) == SetWorkerID(SetState(r, "failed"), NoWorker)

SetError(r) == SetState(r, "failed")
=============================================================================
