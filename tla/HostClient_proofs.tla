------------------------- MODULE HostClient_proofs -------------------------
(***************************************************************************)
(* For any number of callers and kinds: the lock discipline of the host    *)
(* client, that a client given to anybody is warm, and that the callers    *)
(* see what LazyClient promises.                                           *)
(***************************************************************************)
EXTENDS HostClient, TLAPS

\* The inductive invariant holds initially
LEMMA IndInvInit == Init => IndInv
BY HostClientAssumption DEF Init, IndInv, TypeOK, InInit, Listed

\* A call that returns gives back both locks
LEMMA ReturnPreserves ==
    ASSUME IndInv, NEW c \in Callers, pc[c] \in InInit \ {"init"},
           ReturnError(c), faults' \in Nat
    PROVE  IndInv'
BY HostClientAssumption
DEF IndInv, TypeOK, InInit, ReturnError, Unlock, GoTo, Listed, clusters, env

\* Every step of a caller preserves the inductive invariant
LEMMA CallerPreserves ==
    ASSUME IndInv, NEW c \in Callers,
           Call(c) \/ GetHostClient(c) \/ InitStep(c) \/ InitFails(c)
    PROVE  IndInv'
<1> USE HostClientAssumption
<1>1. CASE Call(c)
    BY <1>1 DEF IndInv, TypeOK, InInit, Call, GoTo, Listed, locks, clusters, env
<1>2. CASE GetHostClient(c)
    BY <1>2 DEF IndInv, TypeOK, InInit, GetHostClient, GoTo, Listed, clusters, answers, env
<1>3. CASE LockInit(c)
    BY <1>3 DEF IndInv, TypeOK, InInit, LockInit, GoTo, Listed, clusters, answers, env
<1>4. CASE HostNotFound(c)
    BY <1>4, ReturnPreserves DEF HostNotFound, InInit, IndInv, TypeOK
<1>5. CASE CreateCluster(c)
    BY <1>5 DEF IndInv, TypeOK, InInit, CreateCluster, GoTo, Listed, locks, answers, env
<1>6. CASE WaitForCacheSync(c)
    BY <1>6 DEF IndInv, TypeOK, InInit, WaitForCacheSync, GoTo, Listed, locks, clusters, answers, env
<1>7. CASE List(c)
    BY <1>7 DEF IndInv, TypeOK, InInit, List, Listed, locks, answers, env
<1>8. CASE Publish(c)
    BY <1>8 DEF IndInv, TypeOK, InInit, Publish, Unlock, GoTo, Listed, clusters, env
<1>9. CASE CreateClusterFails(c) \/ WaitForCacheSyncFails(c) \/ ListFails(c)
    <2>1. faults' \in Nat
        BY <1>9 DEF CreateClusterFails, WaitForCacheSyncFails, ListFails, Fault, IndInv, TypeOK
    <2>2. pc[c] \in InInit \ {"init"} /\ ReturnError(c)
        BY <1>9 DEF CreateClusterFails, WaitForCacheSyncFails, ListFails, InInit
    <2> QED BY <2>1, <2>2, ReturnPreserves
<1> QED BY <1>1, <1>2, <1>3, <1>4, <1>5, <1>6, <1>7, <1>8, <1>9 DEF InitStep, InitFails

\* So does every step of the host and of the process
LEMMA EnvironmentPreserves ==
    ASSUME IndInv,
           \/ InformerSyncs
           \/ HostGoesDown \/ HostComesUp \/ HostRegistered \/ HostUnregistered
           \/ Restart
    PROVE  IndInv'
<1> USE HostClientAssumption
<1>1. CASE InformerSyncs
    BY <1>1 DEF IndInv, TypeOK, InInit, InformerSyncs, Listed, locks, answers, env
<1>2. CASE HostGoesDown \/ HostComesUp \/ HostRegistered \/ HostUnregistered
    <2>1. faults' \in Nat
        BY <1>2 DEF HostGoesDown, HostComesUp, HostRegistered, HostUnregistered, Fault,
            IndInv, TypeOK
    <2>2. hostKnown' \in BOOLEAN /\ hostUp' \in BOOLEAN
        BY <1>2, Zenon DEF HostGoesDown, HostComesUp, HostRegistered, HostUnregistered,
            IndInv, TypeOK
    <2>3. UNCHANGED <<getLock, initLock, client, pc, made, started, informers, synced,
                      outcome, given>>
        BY <1>2 DEF HostGoesDown, HostComesUp, HostRegistered, HostUnregistered,
            locks, clusters, answers
    <2> QED BY <2>1, <2>2, <2>3 DEF IndInv, TypeOK, InInit, Listed
<1>3. CASE Restart
    BY <1>3 DEF IndInv, TypeOK, InInit, Restart, Fault, Listed, env
<1> QED BY <1>1, <1>2, <1>3

\* The inductive invariant is an invariant of the specification
THEOREM LockDiscipline == Spec => []IndInv
<1>1. IndInv /\ [Next]_vars => IndInv'
    <2> SUFFICES ASSUME IndInv, [Next]_vars PROVE IndInv'
        OBVIOUS
    <2>1. CASE Next
        BY <2>1, CallerPreserves, EnvironmentPreserves DEF Next
    <2>2. CASE UNCHANGED vars
        BY <2>2 DEF IndInv, TypeOK, Listed, vars, locks, clusters, answers, env
    <2> QED BY <2>1, <2>2
<1> QED BY IndInvInit, <1>1, PTL DEF Spec

\* Nobody is given a client before all its informers have synced
THEOREM GivenClientIsWarm == Spec => []ClientIsWarm
<1>1. IndInv => ClientIsWarm
    BY DEF IndInv, ClientIsWarm
<1> QED BY <1>1, LockDiscipline, PTL

\* A step of a caller is a step of LazyClient or changes nothing it shows
LEMMA CallerStepImplements ==
    ASSUME IndInv, NEW c \in Callers,
           Call(c) \/ GetHostClient(c) \/ InitStep(c) \/ InitFails(c)
    PROVE  [Lazy!Next]_(Lazy!vars)
<1> USE HostClientAssumption DEF IndInv, TypeOK, InInit
<1> DEFINE waiting == {d \in Callers : pc[d] # "idle"}
<1>1. CASE Call(c)
    <2>1. Lazy!Ask(c)
        BY <1>1 DEF Call, GoTo, Lazy!Ask, locks, clusters, env
    <2> QED BY <2>1 DEF Lazy!Next
<1>2. CASE GetHostClient(c) /\ client # 0
    <2>1. Lazy!Give(c)
        BY <1>2 DEF GetHostClient, GoTo, Lazy!Give, clusters, env
    <2> QED BY <2>1 DEF Lazy!Next
<1>3. CASE \/ GetHostClient(c) /\ client = 0
           \/ LockInit(c) \/ CreateCluster(c) \/ WaitForCacheSync(c) \/ List(c)
    <2>1. waiting' = waiting
        BY <1>3 DEF GetHostClient, LockInit, CreateCluster, WaitForCacheSync, List, GoTo
    <2>2. UNCHANGED <<client, outcome, given>>
        BY <1>3 DEF GetHostClient, LockInit, CreateCluster, WaitForCacheSync, List, answers
    <2> QED BY <2>1, <2>2 DEF Lazy!vars
<1>4. CASE pc[c] \in InInit /\ ReturnError(c)
    <2>1. Lazy!Refuse(c)
        BY <1>4 DEF ReturnError, Unlock, GoTo, Lazy!Refuse
    <2> QED BY <2>1 DEF Lazy!Next
<1>5. CASE Publish(c)
    <2>1. Lazy!Give(c)
        BY <1>5 DEF Publish, Unlock, GoTo, Lazy!Give
    <2> QED BY <2>1 DEF Lazy!Next
<1> QED
    BY <1>1, <1>2, <1>3, <1>4, <1>5
    DEF InitStep, InitFails, HostNotFound, CreateClusterFails, WaitForCacheSyncFails, ListFails

\* The environment's steps are not seen, but for a stop of the process
LEMMA EnvironmentStepImplements ==
    ASSUME \/ InformerSyncs
           \/ HostGoesDown \/ HostComesUp \/ HostRegistered \/ HostUnregistered
           \/ Restart
    PROVE  [Lazy!Next]_(Lazy!vars)
<1>1. CASE Restart
    <2>1. Lazy!Restart
        BY <1>1 DEF Restart, Lazy!Restart
    <2> QED BY <2>1 DEF Lazy!Next
<1>2. CASE \/ InformerSyncs
           \/ HostGoesDown \/ HostComesUp \/ HostRegistered \/ HostUnregistered
    BY <1>2 DEF InformerSyncs, HostGoesDown, HostComesUp, HostRegistered,
        HostUnregistered, locks, answers, Lazy!vars
<1> QED BY <1>1, <1>2

\* The host client implements its abstract specification
THEOREM Implementation == Spec => ImplementsLazyClient
<1>1. Init => Lazy!Init
    BY DEF Init, Lazy!Init
<1>2. IndInv /\ [Next]_vars => [Lazy!Next]_(Lazy!vars)
    <2> SUFFICES ASSUME IndInv, [Next]_vars PROVE [Lazy!Next]_(Lazy!vars)
        OBVIOUS
    <2>1. CASE Next
        BY <2>1, CallerStepImplements, EnvironmentStepImplements DEF Next
    <2>2. CASE UNCHANGED vars
        BY <2>2 DEF vars, answers, Lazy!vars
    <2> QED BY <2>1, <2>2
<1> QED BY <1>1, <1>2, LockDiscipline, PTL DEF Spec, ImplementsLazyClient, Lazy!Spec
===========================================================================
