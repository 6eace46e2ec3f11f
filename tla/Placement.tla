----------------------------- MODULE Placement -----------------------------
(***************************************************************************)
(* What gorc promises about a replica, without saying how: it is given at  *)
(* most one worker, no other worker ever makes a container for it, and it  *)
(* gets one container at most, which is started at most once.  A restarted *)
(* replica is a new replica.  Cluster implements this specification.       *)
(***************************************************************************)
CONSTANTS Workers, Replicas, NoWorker

VARIABLES home,  \* home[r]: the worker chosen for r
          life   \* life[w][r]: the life of r's container at w

vars == <<home, life>>

Init ==
    /\ home = [r \in Replicas |-> NoWorker]
    /\ life = [w \in Workers |-> [r \in Replicas |-> "none"]]

Place(r, w) ==
    /\ home[r] = NoWorker
    /\ home' = [home EXCEPT ![r] = w]
    /\ UNCHANGED life

Launch(r, w) ==
    /\ home[r] = w
    /\ life[w][r] = "none"
    /\ life' = [life EXCEPT ![w][r] = "running"]
    /\ UNCHANGED home

\* The container ends, or turns out impossible to start.
End(r, w) ==
    /\ home[r] = w
    /\ life[w][r] # "ended"
    /\ life' = [life EXCEPT ![w][r] = "ended"]
    /\ UNCHANGED home

Next == \E r \in Replicas, w \in Workers : Place(r, w) \/ Launch(r, w) \/ End(r, w)

Spec == Init /\ [][Next]_vars
=============================================================================
