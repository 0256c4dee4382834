---------------------------- MODULE HostClient -----------------------------
(***************************************************************************)
(* CachedHostClientInit of pkg/host/client.go: the client of the host      *)
(* cluster that every Reconcile of an NSTemplateSet asks for.  It is made  *)
(* by the first caller, who creates a cluster with a cache, starts it in a *)
(* goroutine and lists the kinds of interest so that their informers are   *)
(* synced; all others wait for the lock meanwhile.  An attempt may fail at *)
(* any of these steps, the host may be unknown or out of reach, and the    *)
(* process may stop.                                                       *)
(***************************************************************************)
EXTENDS Naturals, FiniteSets

CONSTANTS
    Callers,     \* goroutines that call GetHostClient
    NoCaller,    \* nobody holds the lock
    Kinds,       \* the kinds in objectsToList
    MaxFaults    \* bound on failing calls, outages and stops

ASSUME HostClientAssumption ==
    /\ NoCaller \notin Callers
    /\ Kinds # {}
    /\ MaxFaults \in Nat

VARIABLES
    getLock, initLock,   \* the holders of the two mutexes
    client,      \* cachedHostClusterClient: 0 for nil, or the cluster it reads
    pc,          \* where a caller is: "idle", "get", "init", "cluster", "sync", "list"
    made,        \* the cluster that the caller's init has created, 0 if none
    started,     \* number of clusters created and started so far
    informers,   \* <<cluster, kind>> whose informer has been started by a List
    synced,      \* those that have synced with the host
    outcome, given,      \* the caller's last answer, see LazyClient
    hostKnown,   \* does GetHostCluster find the host's ToolchainCluster?
    hostUp,      \* do the host's API calls succeed?
    faults

locks == <<getLock, initLock>>
clusters == <<started, informers, synced>>
answers == <<outcome, given>>
env == <<hostKnown, hostUp>>
vars == <<locks, client, pc, made, clusters, answers, env, faults>>

TypeOK ==
    /\ getLock \in Callers \union {NoCaller}
    /\ initLock \in Callers \union {NoCaller}
    /\ client \in Nat /\ started \in Nat /\ faults \in Nat
    /\ pc \in [Callers -> {"idle", "get", "init", "cluster", "sync", "list"}]
    /\ made \in [Callers -> Nat]
    /\ informers \subseteq Nat \X Kinds /\ synced \subseteq informers
    /\ outcome \in [Callers -> {"none", "error", "client"}]
    /\ given \in [Callers -> Nat]
    /\ hostKnown \in BOOLEAN /\ hostUp \in BOOLEAN

Init ==
    /\ getLock = NoCaller /\ initLock = NoCaller
    /\ client = 0 /\ started = 0 /\ faults = 0
    /\ pc = [c \in Callers |-> "idle"]
    /\ made = [c \in Callers |-> 0]
    /\ informers = {} /\ synced = {}
    /\ outcome = [c \in Callers |-> "none"]
    /\ given = [c \in Callers |-> 0]
    /\ hostKnown \in BOOLEAN /\ hostUp \in BOOLEAN

Fault == faults < MaxFaults /\ faults' = faults + 1

---------------------------------------------------------------------------
(* The caller                                                              *)

GoTo(c, step) == pc' = [pc EXCEPT ![c] = step]

\* A Reconcile calls GetHostClient
Call(c) ==
    /\ pc[c] = "idle"
    /\ GoTo(c, "get")
    /\ outcome' = [outcome EXCEPT ![c] = "none"]
    /\ given' = [given EXCEPT ![c] = 0]
    /\ UNCHANGED <<locks, client, made, clusters, env, faults>>

\* Mutant: the nil check is made before the lock is taken
CheckedBeforeLock(c) ==
    /\ pc[c] = "get"
    /\ IF client = 0
       THEN /\ GoTo(c, "init")
            /\ UNCHANGED <<getLock, answers>>
       ELSE /\ GoTo(c, "idle")
            /\ outcome' = [outcome EXCEPT ![c] = "client"]
            /\ given' = [given EXCEPT ![c] = client]
            /\ UNCHANGED getLock
    /\ UNCHANGED <<initLock, client, made, clusters, env, faults>>

\* Mutant: the first attempt is the only one
TriedOnce(c) ==
    /\ pc[c] = "get" /\ getLock = NoCaller
    /\ \/ /\ client = 0 /\ started = 0
          /\ getLock' = c
          /\ GoTo(c, "init")
          /\ UNCHANGED answers
       \/ /\ client # 0 \/ started # 0
          /\ GoTo(c, "idle")
          /\ outcome' = [outcome EXCEPT ![c] = IF client = 0 THEN "error" ELSE "client"]
          /\ given' = [given EXCEPT ![c] = client]
          /\ UNCHANGED getLock
    /\ UNCHANGED <<initLock, client, made, clusters, env, faults>>

\* getLock is taken, and given back at once when the client exists
GetHostClient(c) ==
    /\ pc[c] = "get" /\ getLock = NoCaller
    /\ IF client = 0
       THEN /\ getLock' = c
            /\ GoTo(c, "init")
            /\ UNCHANGED answers
       ELSE /\ GoTo(c, "idle")
            /\ outcome' = [outcome EXCEPT ![c] = "client"]
            /\ given' = [given EXCEPT ![c] = client]
            /\ UNCHANGED getLock
    /\ UNCHANGED <<initLock, client, made, clusters, env, faults>>

\* init takes its own lock
LockInit(c) ==
    /\ pc[c] = "init" /\ initLock = NoCaller
    /\ initLock' = c
    /\ GoTo(c, "cluster")
    /\ UNCHANGED <<getLock, client, made, clusters, answers, env, faults>>

\* Mutant: the lock is not given back when init returns an error
LockKept(c) ==
    /\ initLock' = NoCaller
    /\ GoTo(c, "idle")
    /\ made' = [made EXCEPT ![c] = 0]
    /\ UNCHANGED getLock

\* The deferred unlocks of init and GetHostClient.  What init has made is only
\* known to it; a cluster it has started keeps running.
Unlock(c) ==
    /\ getLock' = NoCaller /\ initLock' = NoCaller
    /\ GoTo(c, "idle")
    /\ made' = [made EXCEPT ![c] = 0]

ReturnError(c) ==
    /\ Unlock(c)
    /\ outcome' = [outcome EXCEPT ![c] = "error"]
    /\ UNCHANGED <<client, given, clusters, env>>

\* getHostCluster, then runtimecluster.New
HostNotFound(c) ==
    /\ pc[c] = "cluster" /\ ~hostKnown
    /\ ReturnError(c)
    /\ UNCHANGED faults

CreateClusterFails(c) ==
    /\ pc[c] = "cluster" /\ hostKnown /\ Fault
    /\ ReturnError(c)

CreateCluster(c) ==
    /\ pc[c] = "cluster" /\ hostKnown
    /\ started' = started + 1
    /\ made' = [made EXCEPT ![c] = started']
    /\ GoTo(c, "sync")
    /\ UNCHANGED <<locks, client, informers, synced, answers, env, faults>>

\* Nothing has asked for an informer yet, so the cache is synced once it is
\* started, whether the host can be reached or not
WaitForCacheSync(c) ==
    /\ pc[c] = "sync"
    /\ GoTo(c, "list")
    /\ UNCHANGED <<locks, client, made, clusters, answers, env, faults>>

WaitForCacheSyncFails(c) ==
    /\ pc[c] = "sync" /\ Fault
    /\ ReturnError(c)

Asked(id) == {k \in Kinds : <<id, k>> \in informers}
Listed(id) == {k \in Kinds : <<id, k>> \in synced}

\* The next List starts the informer of its kind and waits until it has synced;
\* the order is that of a Go map
List(c) ==
    /\ pc[c] = "list" /\ Asked(made[c]) = Listed(made[c])
    /\ \E k \in Kinds \ Asked(made[c]) : informers' = informers \union {<<made[c], k>>}
    /\ UNCHANGED <<locks, client, pc, made, started, synced, answers, env, faults>>

ListFails(c) ==
    /\ pc[c] = "list" /\ Asked(made[c]) # Listed(made[c]) /\ Fault
    /\ ReturnError(c)

\* Mutant: the client is published when its cluster has been started
PublishedEarly(c) ==
    /\ pc[c] = "list"
    /\ client' = made[c]
    /\ Unlock(c)
    /\ outcome' = [outcome EXCEPT ![c] = "client"]
    /\ given' = [given EXCEPT ![c] = made[c]]
    /\ UNCHANGED <<clusters, env, faults>>

\* All kinds are listed: the client becomes the one of everybody
Publish(c) ==
    /\ pc[c] = "list" /\ Listed(made[c]) = Kinds
    /\ client' = made[c]
    /\ Unlock(c)
    /\ outcome' = [outcome EXCEPT ![c] = "client"]
    /\ given' = [given EXCEPT ![c] = made[c]]
    /\ UNCHANGED <<clusters, env, faults>>

---------------------------------------------------------------------------
(* The host and the process                                                *)

\* The reflector of an informer gets its first list from the host
InformerSyncs ==
    /\ hostUp
    /\ \E i \in informers \ synced : synced' = synced \union {i}
    /\ UNCHANGED <<locks, client, pc, made, started, informers, answers, env, faults>>

HostGoesDown ==
    /\ hostUp /\ Fault
    /\ hostUp' = FALSE
    /\ UNCHANGED <<locks, client, pc, made, clusters, answers, hostKnown>>

HostComesUp ==
    /\ ~hostUp
    /\ hostUp' = TRUE
    /\ UNCHANGED <<locks, client, pc, made, clusters, answers, hostKnown, faults>>

HostRegistered ==
    /\ ~hostKnown
    /\ hostKnown' = TRUE
    /\ UNCHANGED <<locks, client, pc, made, clusters, answers, hostUp, faults>>

HostUnregistered ==
    /\ hostKnown /\ Fault
    /\ hostKnown' = FALSE
    /\ UNCHANGED <<locks, client, pc, made, clusters, answers, hostUp>>

\* The process stops, also because the goroutine of a cluster that cannot be
\* started panics, and is started again
Restart ==
    /\ Fault
    /\ getLock' = NoCaller /\ initLock' = NoCaller
    /\ client' = 0 /\ started' = 0
    /\ pc' = [c \in Callers |-> "idle"]
    /\ made' = [c \in Callers |-> 0]
    /\ informers' = {} /\ synced' = {}
    /\ outcome' = [c \in Callers |-> "none"]
    /\ given' = [c \in Callers |-> 0]
    /\ UNCHANGED env

---------------------------------------------------------------------------

InitStep(c) ==
    \/ LockInit(c)
    \/ HostNotFound(c) \/ CreateCluster(c) \/ WaitForCacheSync(c)
    \/ List(c) \/ Publish(c)

InitFails(c) == CreateClusterFails(c) \/ WaitForCacheSyncFails(c) \/ ListFails(c)

Next ==
    \/ \E c \in Callers : Call(c) \/ GetHostClient(c) \/ InitStep(c) \/ InitFails(c)
    \/ InformerSyncs
    \/ HostGoesDown \/ HostComesUp \/ HostRegistered \/ HostUnregistered
    \/ Restart

Spec == Init /\ [][Next]_vars

\* A failed Reconcile is retried by the work queue.  Go's mutex hands the lock
\* to a waiter that has waited too long, so nobody waits for it forever.  The
\* host is known and up in the end, and its informers sync while it is.
Fairness ==
    /\ \A c \in Callers :
          /\ WF_vars(outcome[c] = "error" /\ Call(c))
          /\ SF_vars(GetHostClient(c))
          /\ WF_vars(InitStep(c))
    /\ WF_vars(InformerSyncs) /\ WF_vars(HostComesUp) /\ WF_vars(HostRegistered)

FairSpec == Spec /\ Fairness

---------------------------------------------------------------------------
(* Properties                                                              *)

\* Whoever has been given a client by GetHostClient reads through informers
\* that have synced for every kind in objectsToList: nobody gets a client of an
\* attempt that has failed or is still listing, and takes an empty cache for
\* templates that the host does not have.
ClientIsWarm ==
    \A c \in Callers : outcome[c] = "client" => Listed(given[c]) = Kinds

\* The callers of GetHostClient see what LazyClient promises: all of them are
\* given one and the same client, it is not replaced while the process runs,
\* and once it is there nobody gets an error because an attempt of his own
\* fails.
Lazy ==
    INSTANCE LazyClient WITH
        cell <- client,
        waiting <- {c \in Callers : pc[c] # "idle"}

ImplementsLazyClient == Lazy!Spec

\* What keeps these true: only the holder of getLock is inside init and it holds
\* initLock too, the client is nil as long as somebody is there, and every
\* client given is the one that is cached.
InInit == {"init", "cluster", "sync", "list"}

IndInv ==
    /\ TypeOK
    /\ \A c \in Callers :
          /\ pc[c] \in InInit <=> getLock = c
          /\ pc[c] \in InInit \ {"init"} <=> initLock = c
          /\ pc[c] \in InInit => client = 0
          /\ pc[c] \in {"sync", "list"} => made[c] # 0
          /\ outcome[c] = "client" => client # 0 /\ given[c] = client
    /\ client # 0 => Listed(client) = Kinds

\* Every call of GetHostClient returns, although init blocks in List while the
\* host is out of reach and keeps everybody else waiting for getLock.
CallsReturn ==
    \A c \in Callers : pc[c] # "idle" ~> pc[c] = "idle"

\* In the end GetHostClient refuses nobody: a failed initialisation is tried
\* again by the next call, and leaves nothing behind that keeps it from working.
ErrorsEnd == <>[](\A c \in Callers : outcome[c] # "error")
===========================================================================
