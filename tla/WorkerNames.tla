---------------------------- MODULE WorkerNames ----------------------------
(***************************************************************************)
(* The names of workers (manager/manager.go:188-213): a worker's name is   *)
(* its host's and the first number after those of the workers registered   *)
(* at that time.  Removed workers' numbers may be given again.             *)
(***************************************************************************)
EXTENDS Registry

CONSTANT Misread    \* Misread[h][g]: the numbers h's prefix finds in names of host g

ASSUME MisreadAssumption == Misread \in [Hosts -> [Hosts -> SUBSET Nat]]

VARIABLES
    number,     \* number[w]: the number in w's name
    clash       \* history, not code: named during another registration, or put back

vars == <<registryVars, number, clash>>

Init == RegistryInit /\ number = [w \in Workers |-> 0] /\ clash = {}

\* What allocateWorkerName reads after a host's name and a dash: "a-" also begins
\* the names of a host "a-1", and finds a 1 in them.
Numbers(h) ==
    {number[v] : v \in {u \in workers : Host[u] = h}}
    \cup UNION {Misread[h][Host[v]] : v \in workers}

\* Variant: the last name listed wins, not the greatest number.
AfterLast(h, n) == IF Numbers(h) = {} THEN n = 0 ELSE n - 1 \in Numbers(h)

\* One more than the greatest, or 0.
IsNext(h, n) == (\A k \in Numbers(h) : k < n) /\ (n = 0 \/ n - 1 \in Numbers(h))

Others(w) == {v \in Workers \ {w} : Host[v] = Host[w] /\ reg[v] \in Registering}

AllocateName(w) ==
    /\ BeginRegistration(w)
    /\ \E n \in {0} \cup {k + 1 : k \in Numbers(Host[w])} :
        /\ IsNext(Host[w], n)
        /\ number' = [number EXCEPT ![w] = n]
    /\ clash' = IF Others(w) = {} THEN clash ELSE clash \cup {w}

\* A worker that was removed comes back with its name.
PutBack(w) ==
    /\ SaveHeartbeat(w) /\ UNCHANGED number
    /\ clash' = IF w \in workers THEN clash ELSE clash \cup {w}

Next ==
    \/ \E w \in Workers : AllocateName(w) \/ PutBack(w)
    \/ (RegistryOther \/ \E w \in Workers : Remove(w)) /\ UNCHANGED <<number, clash>>

Spec == Init /\ [][Next]_vars

-----------------------------------------------------------------------------
TypeOK == RegistryTypeOK /\ number \in [Workers -> Nat] /\ clash \subseteq Workers

\* No two registered workers of a host have one name, though numbers of removed ones
\* are given again -- unless the second was named before the first was stored, or a
\* heartbeat put a removed worker back.
NamesUnique ==
    \A v, w \in workers \ clash :
        v # w /\ Host[v] = Host[w] => number[v] # number[w]
=============================================================================
