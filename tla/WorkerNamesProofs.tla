------------------------- MODULE WorkerNamesProofs -------------------------
(***************************************************************************)
(* Names are unique for any workers and hosts, whatever hosts are called.  *)
(***************************************************************************)
EXTENDS WorkerNames, RegistryProofs

\* A worker whose number is taken: it is registered or being registered.
Named(w) == w \in workers \/ reg[w] \in Registering

NamesInv ==
    \A v, w \in Workers \ clash :
        v # w /\ Host[v] = Host[w] /\ Named(v) /\ Named(w) => number[v] # number[w]

-----------------------------------------------------------------------------
\* Every step of WorkerNames is one of the registry.
LEMMA StepsOfRegistry == [Next]_vars => [RegistryNext]_registryVars
BY DEF Next, vars, AllocateName, PutBack, RegistryNext

LEMMA NumbersNat ==
    ASSUME TypeOK, NEW h \in Hosts
    PROVE  Numbers(h) \subseteq Nat
<1> SUFFICES ASSUME NEW k \in Numbers(h) PROVE k \in Nat
    OBVIOUS
<1>1. CASE k \in {number[v] : v \in {u \in workers : Host[u] = h}}
    BY <1>1 DEF TypeOK, RegistryTypeOK
<1>2. CASE k \in UNION {Misread[h][Host[v]] : v \in workers}
    <2>1. PICK v \in workers : k \in Misread[h][Host[v]]
        BY <1>2
    <2>2. Host[v] \in Hosts
        BY WorkersAssumption DEF TypeOK, RegistryTypeOK
    <2> QED BY <2>1, <2>2, MisreadAssumption
<1> QED BY <1>1, <1>2 DEF Numbers

LEMMA NumberTypes == RegistryInv /\ TypeOK /\ [Next]_vars => TypeOK'
<1> SUFFICES ASSUME RegistryInv, TypeOK, [Next]_vars PROVE TypeOK'
    OBVIOUS
<1>1. RegistryTypeOK'
    BY StepsOfRegistry, RegistryStepInv DEF RegistryInv
<1>2. \A h \in Hosts : Numbers(h) \subseteq Nat
    BY NumbersNat
<1>3. number' \in [Workers -> Nat] /\ clash' \subseteq Workers
    <2>1. ASSUME NEW w \in Workers, AllocateName(w)
          PROVE  number' \in [Workers -> Nat] /\ clash' \subseteq Workers
        <3>1. PICK n \in {0} \cup {k + 1 : k \in Numbers(Host[w])} :
                number' = [number EXCEPT ![w] = n]
            BY <2>1 DEF AllocateName
        <3>2. n \in Nat
            BY <1>2, WorkersAssumption
        <3>3. clash' \in {clash, clash \cup {w}}
            BY <2>1 DEF AllocateName
        <3> QED BY <3>1, <3>2, <3>3 DEF TypeOK
    <2>2. ASSUME NEW w \in Workers, PutBack(w)
          PROVE  number' \in [Workers -> Nat] /\ clash' \subseteq Workers
        BY <2>2 DEF PutBack, TypeOK
    <2> QED BY <2>1, <2>2 DEF Next, vars, TypeOK
<1> QED BY <1>1, <1>3 DEF TypeOK

\* A step that names nobody and puts nobody back names no one else.
LEMMA NamedStays ==
    ASSUME RegistryInv, RegistryOther \/ \E u \in Workers : Remove(u),
           NEW w \in Workers, Named(w)'
    PROVE  Named(w)
<1> USE DEF Named, RegistryInv, RegistryTypeOK
<1>1. ASSUME NEW u \in Workers, Remove(u) PROVE Named(w)
    BY <1>1 DEF Remove
<1>2. ASSUME NEW u \in Workers, FindNode(u) \/ PutNode(u) \/ PutWorker(u) PROVE Named(w)
    BY <1>2 DEF FindNode, PutNode, PutWorker
<1>3. ASSUME NEW u \in Workers, Heartbeat(u) \/ GoStale(u) \/ Condemn(u) PROVE Named(w)
    BY <1>3 DEF Heartbeat, GoStale, Condemn
<1>4. ASSUME \/ \E h \in Hosts, m \in Levels \ {"none"} : PushMetrics(h, m)
             \/ \E p \in pushes : SaveNode(p)
      PROVE  Named(w)
    BY <1>4 DEF PushMetrics, SaveNode, workerVars
<1> QED BY <1>1, <1>2, <1>3, <1>4 DEF RegistryOther

LEMMA NamesStep == RegistryInv /\ TypeOK /\ NamesInv /\ [Next]_vars => NamesInv'
<1> SUFFICES ASSUME RegistryInv, TypeOK, NamesInv, [Next]_vars,
                    NEW v \in Workers, NEW w \in Workers, v \notin clash', w \notin clash',
                    v # w, Host[v] = Host[w], Named(v)', Named(w)'
             PROVE  number'[v] # number'[w]
    BY DEF NamesInv
\* The worker that is named has a number greater than those of the registered ones.
<1>1. ASSUME NEW a \in Workers, NEW b \in Workers, AllocateName(a),
             a # b, Host[a] = Host[b], a \notin clash', b \notin clash', Named(b)'
      PROVE  number'[a] # number'[b]
    <2>1. Named(b) /\ reg[b] \notin Registering
        BY <1>1 DEF AllocateName, BeginRegistration, Others, Named, RegistryInv, RegistryTypeOK
    <2>2. number[b] \in Numbers(Host[a])
        BY <1>1, <2>1 DEF Named, Numbers
    <2>3. PICK n \in {0} \cup {k + 1 : k \in Numbers(Host[a])} :
            IsNext(Host[a], n) /\ number' = [number EXCEPT ![a] = n]
        BY <1>1 DEF AllocateName
    <2>4. Numbers(Host[a]) \subseteq Nat
        BY NumbersNat, WorkersAssumption
    <2>5. number[b] < n /\ n \in Nat
        BY <2>2, <2>3, <2>4 DEF IsNext
    <2> QED BY <1>1, <2>3, <2>4, <2>5 DEF TypeOK
<1>2. ASSUME NEW u \in Workers, AllocateName(u) PROVE number'[v] # number'[w]
    <2>1. CASE u = v
        BY <1>1, <1>2, <2>1
    <2>2. CASE u = w
        BY <1>1, <1>2, <2>2
    <2>3. CASE u # v /\ u # w
        <3>1. Named(v) /\ Named(w)
            BY <1>2, <2>3 DEF AllocateName, BeginRegistration, Named, RegistryInv, RegistryTypeOK
        <3>2. v \notin clash /\ w \notin clash
            BY <1>2 DEF AllocateName
        <3>3. number'[v] = number[v] /\ number'[w] = number[w]
            BY <1>2, <2>3 DEF AllocateName, TypeOK
        <3> QED BY <3>1, <3>2, <3>3 DEF NamesInv
    <2> QED BY <2>1, <2>2, <2>3
<1>3. ASSUME NEW u \in Workers, PutBack(u) PROVE number'[v] # number'[w]
    <2>1. v \notin clash /\ w \notin clash /\ (u \in {v, w} => u \in workers)
        BY <1>3 DEF PutBack
    <2>2. Named(v) /\ Named(w)
        BY <1>3, <2>1 DEF PutBack, SaveHeartbeat, Named
    <2> QED BY <1>3, <2>1, <2>2 DEF PutBack, NamesInv
<1>4. CASE (RegistryOther \/ \E u \in Workers : Remove(u)) /\ UNCHANGED <<number, clash>>
    <2>1. Named(v) /\ Named(w)
        BY <1>4, NamedStays
    <2> QED BY <1>4, <2>1 DEF NamesInv
<1>5. CASE UNCHANGED vars
    BY <1>5 DEF vars, registryVars, workerVars, Named, NamesInv
<1> QED BY <1>2, <1>3, <1>4, <1>5 DEF Next

LEMMA NamesInvariant == Spec => [](RegistryInv /\ TypeOK /\ NamesInv)
<1>1. Init => RegistryInv /\ TypeOK /\ NamesInv
    <2>1. Init => RegistryInv
        BY RegistryInitInv DEF Init
    <2>2. Init /\ RegistryInv => TypeOK
        <3>1. Init => number \in [Workers -> Nat] /\ clash \subseteq Workers
            BY DEF Init
        <3> QED BY <3>1 DEF RegistryInv, TypeOK
    <2>3. Init => NamesInv
        BY DEF Init, RegistryInit, NamesInv, Named, Registering
    <2> QED BY <2>1, <2>2, <2>3
<1>2. RegistryInv /\ TypeOK /\ NamesInv /\ [Next]_vars => (RegistryInv /\ TypeOK /\ NamesInv)'
    BY StepsOfRegistry, RegistryStepInv, NumberTypes, NamesStep
<1> QED BY <1>1, <1>2, PTL DEF Spec

\* The registry's variables keep their types, and the number that a name is given
\* is a natural one, whatever is read out of other hosts' names.
THEOREM NameTypes == Spec => []TypeOK
BY NamesInvariant, PTL

\* No two registered workers of a host have one name, for any workers, hosts and
\* prefixes (manager/manager.go:188-213) -- with the exceptions that clash names.
THEOREM Names == Spec => []NamesUnique
<1>1. RegistryInv /\ NamesInv => NamesUnique
    BY DEF RegistryInv, RegistryTypeOK, NamesInv, Named, NamesUnique
<1> QED BY <1>1, NamesInvariant, PTL
=============================================================================
