--------------------------- MODULE MCWorkerNames ---------------------------
(***************************************************************************)
(* WorkerNames for TLC: w1 and w2 run on h1, the manager's host, w3 on h2; *)
(* h1's prefix finds a number in the names of h2, as "a-" does in "a-1-0". *)
(***************************************************************************)
EXTENDS WorkerNames, TLC

CONSTANTS w1, w2, w3, h1, h2

MCHost == w1 :> h1 @@ w2 :> h1 @@ w3 :> h2
MCMisread == h1 :> (h1 :> {} @@ h2 :> {1}) @@ h2 :> (h1 :> {} @@ h2 :> {})
=============================================================================
