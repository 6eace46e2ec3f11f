----------------------------- MODULE MCCluster -----------------------------
(***************************************************************************)
(* Cluster for TLC: workers are interchangeable, and so are replica UUIDs. *)
(***************************************************************************)
EXTENDS Cluster, TLC

Symmetry == Permutations(Workers) \cup Permutations(Replicas)
=============================================================================
