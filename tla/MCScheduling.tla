---------------------------- MODULE MCScheduling ----------------------------
(***************************************************************************)
(* Scheduling for TLC: h1 has two workers, h2 has one and no manager.      *)
(* Calls of scheduleReplica are interchangeable.                           *)
(***************************************************************************)
EXTENDS Scheduling, TLC

CONSTANTS w1, w2, w3, h1, h2

MCHost == w1 :> h1 @@ w2 :> h1 @@ w3 :> h2
MCUtilization == [m \in Levels |-> IF m = "over" THEN 100 ELSE IF m = "busy" THEN 80 ELSE 0]

Symmetry == Permutations(Calls)
=============================================================================
