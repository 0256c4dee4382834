---------------------------- MODULE MemberStatus ----------------------------
(***************************************************************************)
(* The MemberStatus controller (controllers/memberstatus): every period it *)
(* looks at the operator's Deployment and version, the connection to the   *)
(* host, the memory of the nodes and the console's route, one after the    *)
(* other, and writes one report.  Beside it: the cluster, which changes    *)
(* while it looks; administrators, who remove the MemberStatus; failing    *)
(* calls and restarts of the operator, which creates the MemberStatus.     *)
(***************************************************************************)
EXTENDS Naturals, FiniteSets, FiniteSetsExt

CONSTANTS
    Node,         \* nodes of the cluster
    Labels,       \* Labels[n]: the roles a node is labelled with
    Capacity,     \* Capacity[n]: allocatable memory; 0 where there is no such item
    Load,         \* Load[n]: memory in use
    MaxChanges,   \* bound on what happens to the cluster
    MaxFaults     \* bound on failing calls and restarts

ASSUME MemberStatusAssumption ==
    /\ Labels \in [Node -> SUBSET {"infra", "worker", "master"}]
    /\ Capacity \in [Node -> Nat] /\ Load \in [Node -> Nat]
    /\ MaxChanges \in Nat /\ MaxFaults \in Nat

Parts == {"deployment", "version", "host", "route"}
Tags == {"memberOperator", "hostConnection", "resourceUsage", "routes"}
Roles == {"worker", "master"}

VARIABLES
    health,     \* is each part of the system healthy?
    nodes,      \* is there a Node, and NodeMetrics for it?
    exists,     \* does the MemberStatus exist?
    report,     \* its status
    seen,       \* MemberStatus in the cache: "none", "old" or "latest" revision
    undelivered, \* are events of it under way?
    queued, due, \* a request in the work queue, or to be added after the period
    pc,         \* place in Reconcile
    copy,       \* the MemberStatus this Reconcile works on
    current,    \* is it the stored one?
    unready,    \* components that were found not ready
    allocatable, \* nodes with their capacity, as listed
    changes, faults

system == <<health, nodes>>
stored == <<exists, report, seen, undelivered>>
queue == <<queued, due>>
locals == <<copy, current, unready, allocatable>>
vars == <<system, stored, queue, pc, locals, changes, faults>>

\* What is reported: conditions of the parts, memory per role, whether there is a
\* URL of the console, and the Ready condition with the components not ready
ReportOK(r) ==
    /\ r \in [cond : [Parts -> BOOLEAN], usage : {r.usage}, url : BOOLEAN, ready : BOOLEAN,
              unready : SUBSET Tags]
    /\ DOMAIN r.usage \subseteq Roles
NoReport == [cond |-> [p \in Parts |-> FALSE], usage |-> <<>>, url |-> FALSE,
             ready |-> FALSE, unready |-> {}]

\* A Node may have no metrics, or metrics without memory; metrics may outlive it
NodeStates == {"metered", "unmetered", "bare", "leftover", "gone"}

TypeOK ==
    /\ health \in [Parts -> BOOLEAN] /\ nodes \in [Node -> NodeStates]
    /\ exists \in BOOLEAN /\ ReportOK(report)
    /\ seen \in {"none", "old", "latest"} /\ undelivered \in BOOLEAN
    /\ queued \in BOOLEAN /\ due \in BOOLEAN
    /\ pc \in {"idle", "get", "memberOperator", "hostConnection", "nodes", "metrics", "routes", "update"}
    /\ ReportOK(copy) /\ current \in BOOLEAN
    /\ unready \subseteq Tags /\ allocatable \subseteq Node
    /\ changes \in Nat /\ faults \in Nat
    /\ ~undelivered => seen = IF exists THEN "latest" ELSE "none"

Init ==
    /\ health = [p \in Parts |-> TRUE] /\ nodes = [n \in Node |-> "metered"]
    /\ exists = TRUE /\ report = NoReport /\ seen = "latest" /\ undelivered = FALSE
    /\ queued = TRUE /\ due = FALSE
    /\ pc = "idle" /\ copy = NoReport /\ current = FALSE /\ unready = {} /\ allocatable = {}
    /\ changes = 0 /\ faults = 0

Fault == faults < MaxFaults /\ faults' = faults + 1 /\ UNCHANGED changes
Change == changes < MaxChanges /\ changes' = changes + 1 /\ UNCHANGED faults

---------------------------------------------------------------------------
(* Memory of the nodes                                                     *)

\* getNodeRoles: none for a node that is infra as well
getNodeRoles(n) == IF "infra" \in Labels[n] THEN {} ELSE Labels[n] \intersect Roles

\* getAllocatableValues: the nodes that count
getAllocatableValues ==
    {n \in Node : /\ nodes[n] \in {"metered", "unmetered", "bare"}
                  /\ getNodeRoles(n) # {} /\ Capacity[n] > 0}

Total(f, S) == MapThenSumSet(LAMBDA n : f[n], S)
OfRole(r, S) == {n \in S : r \in getNodeRoles(n)}

\* Memory in use per role, in percent of what the same nodes have
UsagePerRole(counted) ==
    [r \in {q \in Roles : OfRole(q, counted) # {}} |->
        (100 * Total(Load, OfRole(r, counted))) \div Total(Capacity, OfRole(r, counted))]

---------------------------------------------------------------------------
(* Reconcile                                                               *)

\* The configuration is read first
Start ==
    /\ pc = "idle" /\ queued
    /\ queued' = FALSE /\ pc' = "get"
    /\ UNCHANGED <<system, stored, due, locals, changes, faults>>

\* Get, from the cache; a MemberStatus that is not found ends it all.  What an
\* old one says does not matter: its update will fail.
Get ==
    /\ pc = "get"
    /\ \/ seen = "none" /\ pc' = "idle" /\ UNCHANGED locals
       \/ /\ seen # "none" /\ pc' = "memberOperator"
          /\ copy' = report /\ current' = (seen = "latest") /\ unready' = {} /\ allocatable' = {}
    /\ UNCHANGED <<system, stored, queue, changes, faults>>

\* A handler has run: what it reports, and whether it returns an error
Handled(tag, c, error, next) ==
    /\ copy' = c
    /\ unready' = IF error THEN unready \union {tag} ELSE unready
    /\ pc' = next
    /\ UNCHANGED <<system, stored, queue, current, changes>>

\* Mutant: a version that is not up to date is a component of its own
VersionAsComponent ==
    /\ pc = "memberOperator"
    /\ Handled(IF health["version"] THEN "memberOperator" ELSE "version",
               [copy EXCEPT !.cond["deployment"] = health["deployment"],
                            !.cond["version"] = health["version"]],
               ~(health["deployment"] /\ health["version"]), "hostConnection")
    /\ UNCHANGED <<allocatable, faults>>

\* Conditions of the Deployment and of the version; either may be the error
memberOperatorHandleStatus ==
    /\ pc = "memberOperator"
    /\ Handled("memberOperator",
               [copy EXCEPT !.cond["deployment"] = health["deployment"],
                            !.cond["version"] = health["version"]],
               ~(health["deployment"] /\ health["version"]), "hostConnection")
    /\ UNCHANGED <<allocatable, faults>>

hostConnectionHandleStatus ==
    /\ pc = "hostConnection"
    /\ Handled("hostConnection", [copy EXCEPT !.cond["host"] = health["host"]],
               ~health["host"], "nodes")
    /\ UNCHANGED <<allocatable, faults>>

\* Mutant: the usage reported before is kept until there is a new one
UsageKept ==
    /\ pc = "nodes"
    /\ \/ /\ pc' = "metrics" /\ allocatable' = getAllocatableValues
          /\ UNCHANGED <<system, stored, queue, copy, current, unready, changes, faults>>
       \/ /\ Handled("resourceUsage", copy, TRUE, "routes")
          /\ faults < MaxFaults /\ faults' = faults + 1 /\ UNCHANGED allocatable

\* loadCurrentResourceUsage empties the usage and lists the nodes, which may fail
listNodes ==
    /\ pc = "nodes"
    /\ LET emptied == [copy EXCEPT !.usage = <<>>] IN
       \/ /\ copy' = emptied
          /\ pc' = "metrics" /\ allocatable' = getAllocatableValues
          /\ UNCHANGED <<system, stored, queue, current, unready, changes, faults>>
       \/ /\ Handled("resourceUsage", emptied, TRUE, "routes")
          /\ faults < MaxFaults /\ faults' = faults + 1 /\ UNCHANGED allocatable

\* It lists the metrics, which may fail.  One without memory is an error, and so
\* are two nodes without metrics; one is not.
listMetrics ==
    /\ pc = "metrics"
    /\ LET listed == {n \in Node : nodes[n] \in {"metered", "bare", "leftover"}}
           counted == listed \intersect allocatable
           incomplete == \/ \E n \in listed : nodes[n] = "bare"
                         \/ Cardinality(allocatable \ listed) > 1
       IN  \/ /\ Handled("resourceUsage",
                         IF incomplete THEN copy
                         ELSE [copy EXCEPT !.usage = UsagePerRole(counted)],
                         incomplete, "routes")
              /\ UNCHANGED faults
           \/ /\ Handled("resourceUsage", copy, TRUE, "routes")
              /\ faults < MaxFaults /\ faults' = faults + 1
    /\ UNCHANGED allocatable

\* The URL of a console whose route is gone is kept
routesHandleStatus ==
    /\ pc = "routes"
    /\ Handled("routes", [copy EXCEPT !.cond["route"] = health["route"], !.url = @ \/ health["route"]],
               ~health["route"], "update")
    /\ UNCHANGED <<allocatable, faults>>

\* Reconcile returns an error and is called again
Retry ==
    /\ pc' = "idle" /\ queued' = TRUE
    /\ UNCHANGED <<system, stored, due, locals>>

\* Mutant: nothing asks for the next Reconcile
NotRequeued ==
    /\ pc = "update"
    /\ \/ /\ exists /\ current
          /\ report' = [copy EXCEPT !.ready = (unready = {}), !.unready = unready]
          /\ seen' = "old" /\ undelivered' = TRUE
          /\ pc' = "idle"
          /\ UNCHANGED <<system, exists, queue, locals>>
       \/ ~(exists /\ current) /\ Retry
    /\ UNCHANGED <<changes, faults>>

\* setStatusReady or setStatusNotReady, and the next Reconcile after the period;
\* a conflict if the copy was old
UpdateStatus ==
    /\ pc = "update"
    /\ \/ /\ exists /\ current
          /\ report' = [copy EXCEPT !.ready = (unready = {}), !.unready = unready]
          /\ seen' = "old" /\ undelivered' = TRUE
          /\ pc' = "idle" /\ due' = TRUE
          /\ UNCHANGED <<system, exists, queued, locals>>
       \/ ~(exists /\ current) /\ Retry
    /\ UNCHANGED <<changes, faults>>

\* The configuration, the MemberStatus or the update: an API call fails
CallFails == pc \in {"get", "update"} /\ Fault /\ Retry

Reconcile ==
    \/ Start \/ Get \/ memberOperatorHandleStatus \/ hostConnectionHandleStatus
    \/ listNodes \/ listMetrics \/ routesHandleStatus \/ UpdateStatus

---------------------------------------------------------------------------
(* Queue, operator and cluster                                             *)

PeriodEnds ==
    /\ due /\ due' = FALSE /\ queued' = TRUE
    /\ UNCHANGED <<system, stored, pc, locals, changes, faults>>

\* The cache gets the latest MemberStatus.  GenerationChangedPredicate: only one
\* that comes or goes is enqueued, not one that replaces another in the cache.
Deliver ==
    /\ undelivered /\ undelivered' = FALSE
    /\ seen' = IF exists THEN "latest" ELSE "none"
    /\ queued' = (queued \/ (seen = "none") = exists)
    /\ UNCHANGED <<system, exists, report, due, pc, locals, changes, faults>>

\* The MemberStatus is applied; its status stays
CreateOrUpdateResources ==
    /\ exists' = TRUE
    /\ report' = IF exists THEN report ELSE NoReport

\* The operator starts anew
Restart ==
    /\ Fault
    /\ CreateOrUpdateResources
    /\ seen' = "latest" /\ undelivered' = FALSE
    /\ queued' = TRUE /\ due' = FALSE /\ pc' = "idle"
    /\ UNCHANGED <<system, locals>>

\* An administrator deletes the MemberStatus or creates it again
Remove ==
    /\ exists /\ exists' = FALSE /\ report' = NoReport
    /\ seen' = (IF seen = "none" THEN "none" ELSE "old")
    /\ undelivered' = TRUE /\ current' = FALSE
    /\ Change /\ UNCHANGED <<system, queue, pc, copy, unready, allocatable>>

Recreate ==
    /\ ~exists /\ exists' = TRUE
    /\ undelivered' = TRUE
    /\ Change /\ UNCHANGED <<system, report, seen, queue, pc, locals>>

Disturb ==
    /\ \/ \E p \in Parts : health' = [health EXCEPT ![p] = ~@] /\ UNCHANGED nodes
       \/ \E n \in Node, s \in NodeStates :
             s # nodes[n] /\ nodes' = [nodes EXCEPT ![n] = s] /\ UNCHANGED health
    /\ Change /\ UNCHANGED <<stored, queue, pc, locals>>

Next ==
    \/ Reconcile \/ CallFails \/ PeriodEnds \/ Deliver \/ Restart
    \/ Remove \/ Recreate \/ Disturb

Spec == Init /\ [][Next]_vars

\* The controller's worker, its timer and the informer run
FairSpec == Spec /\ WF_vars(Reconcile) /\ WF_vars(PeriodEnds) /\ WF_vars(Deliver)

---------------------------------------------------------------------------
(* Properties                                                              *)

\* The component that a condition belongs to
ComponentOf(p) ==
    CASE p = "host" -> "hostConnection" [] p = "route" -> "routes" [] OTHER -> "memberOperator"

\* A report that has been written is of one piece, although its parts are looked
\* at one after the other and fields that one period could not fill are left from
\* another: Ready is for all conditions in it and for a usage computed just now,
\* a component is called not ready if and only if one of its conditions is bad, and
\* a usage that could not be computed is not an old one.
ReportIsCoherent ==
    report # NoReport =>
        /\ report.ready = (report.unready = {})
        /\ report.unready \ {"resourceUsage"} = {ComponentOf(p) : p \in {q \in Parts : ~report.cond[q]}}
        /\ "resourceUsage" \in report.unready => report.usage = <<>>
        /\ report.cond["route"] => report.url

\* What is known of the nodes of a role, in percent
Percents(r) ==
    {(100 * Load[n]) \div Capacity[n] : n \in {m \in OfRole(r, getAllocatableValues) : nodes[m] = "metered"}}

\* However late something breaks or recovers, and whatever is stale, fails or is
\* removed meanwhile, a MemberStatus that is there in the end says what is the
\* case: the components that are broken, and for each role a usage that lies
\* between those of its nodes.  Only the timer of the controller brings this about.
EventuallyReported ==
    <>[](exists =>
        LET missing == {n \in getAllocatableValues : nodes[n] = "unmetered"}
            measured == Cardinality(missing) <= 1 /\ \A n \in Node : nodes[n] # "bare"
        IN  /\ report.cond = health
            /\ report.ready = (measured /\ \A p \in Parts : health[p])
            /\ ("resourceUsage" \in report.unready) = ~measured
            /\ \A r \in Roles :
                  /\ r \in DOMAIN report.usage <=> measured /\ Percents(r) # {}
                  /\ r \in DOMAIN report.usage =>
                        report.usage[r] \in Min(Percents(r)) .. Max(Percents(r)))

---------------------------------------------------------------------------
(* The inductive invariant behind ReportIsCoherent.                        *)

\* What the handlers that have run left in the copy and in the list of
\* components, of which a later handler takes nothing back
HandlersDone ==
    CASE pc = "hostConnection" -> {"memberOperator"}
      [] pc \in {"nodes", "metrics", "routes"} -> {"memberOperator", "hostConnection"}
      [] pc = "update" -> {"memberOperator", "hostConnection", "routes"}
      [] OTHER -> {}

HandlersOK ==
    /\ pc \notin {"idle", "get"} =>
          unready \ {"resourceUsage"} =
              {ComponentOf(p) : p \in {q \in Parts : ~copy.cond[q] /\ ComponentOf(q) \in HandlersDone}}
    /\ pc \in {"memberOperator", "hostConnection", "nodes", "metrics"} => "resourceUsage" \notin unready
    /\ pc = "metrics" => copy.usage = <<>>
    /\ pc \in {"routes", "update"} /\ "resourceUsage" \in unready => copy.usage = <<>>
    /\ pc = "update" /\ copy.cond["route"] => copy.url

IndInv == TypeOK /\ HandlersOK /\ ReportIsCoherent
===========================================================================
