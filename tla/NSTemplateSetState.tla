------------------------ MODULE NSTemplateSetState ------------------------
(***************************************************************************)
(* The state shared by the modules that model the NSTemplateSet controller *)
(* (controllers/nstemplateset) for one NSTemplateSet, i.e. one space:      *)
(*  - what the API server stores: the NSTemplateSet, the cluster-scoped    *)
(*    objects of the space, its namespaces and what they contain;          *)
(*  - the informer caches the operator reads, which may lag behind;        *)
(*  - the work queue and the local state of the one running Reconcile.     *)
(* A resourceVersion is only ever compared for equality with the current   *)
(* one, so it is kept as a flag: `synced`, `current`, `nsSynced` and       *)
(* `snapCur` say whether a copy is the version the API server stores.      *)
(***************************************************************************)
EXTENDS Naturals, FiniteSets

CONSTANTS
    NoRef,        \* nil / an absent label or annotation
    Types,        \* namespace types; the space has one namespace per type
    CRRefs,       \* templates of cluster-scoped resources
    NSRefs,       \* namespace templates
    RoleRefs,     \* values of Spec.SpaceRoles
    Features,     \* feature toggle names
    ClusterObjs,  \* cluster-scoped objects that the templates define
    InnerObjs,    \* namespaced objects that the namespace templates define
    RBAC,         \* those of InnerObjs that are Roles and RoleBindings
    Grants,       \* objects of the space role templates (role x user)
    Labels,       \* values of the labels a template sets on its namespace
    CRObjs,       \* CRObjs[c]: the objects of the template c
    FeatureOf,    \* FeatureOf[o]: the feature that guards o, or NoRef
    NSType,       \* NSType[r]: the type of the namespace template r
    NSObjs,       \* NSObjs[r]: the objects of r but for the namespace itself
    NSLabel,      \* NSLabel[r]: the label r sets on the namespace, or NoRef
    RoleGrants,   \* RoleGrants[s]: the objects of the space roles s
    Specs,        \* the specs (tiers) the host may assign to the space
    Lagging,      \* informers whose cache may be stale: {"nstt","ns","rbac"}
    ApplyKeeps,   \* may re-applying a Namespace keep labels it does not set?
    Losable,      \* cluster-scoped objects an administrator may remove
    Intruders,    \* may users remove roles and administrators namespaces?
    MaxChanges,   \* bound on the changes made by others (host, users)
    MaxFaults     \* bound on failed calls and operator crashes

CRSpec == [cr: CRRefs \union {NoRef}, feat: SUBSET Features]

Spec4 ==
    [cr: CRRefs \union {NoRef}, feat: SUBSET Features, ns: SUBSET NSRefs,
     roles: RoleRefs \union {NoRef}]

ASSUME ConstantsAssumption ==
    /\ NoRef \notin Types \union CRRefs \union NSRefs \union RoleRefs
                    \union Features \union Labels
    /\ CRObjs \in [CRRefs -> SUBSET ClusterObjs]
    /\ FeatureOf \in [ClusterObjs -> Features \union {NoRef}]
    /\ NSType \in [NSRefs -> Types]
    /\ NSObjs \in [NSRefs -> SUBSET InnerObjs]
    /\ NSLabel \in [NSRefs -> Labels \union {NoRef}]
    /\ RoleGrants \in [RoleRefs -> SUBSET Grants]
    /\ RBAC \subseteq InnerObjs
    /\ Specs # {} /\ Specs \subseteq Spec4
    /\ Losable \subseteq ClusterObjs
    /\ Intruders \in BOOLEAN
    /\ ApplyKeeps # {} /\ ApplyKeeps \subseteq BOOLEAN
    /\ MaxChanges \in Nat /\ MaxFaults \in Nat

\* Objects are told apart by kind and name, and a tier has one template per type.
ASSUME ObjectsAssumption ==
    /\ InnerObjs \intersect Grants = {}
    /\ Lagging \subseteq {"nstt", "ns", "rbac"}
    /\ \A s \in Specs : \A r1, r2 \in s.ns : NSType[r1] = NSType[r2] => r1 = r2

VARIABLES
    nstt,         \* the NSTemplateSet in the API server
    clusterObjs,  \* the cluster-scoped objects of the space
    ns,           \* ns[t]: the namespace of type t
    nsObjs,       \* nsObjs[t]: the objects in the namespace of type t
    cached,       \* the NSTemplateSet in the informer cache ...
    synced,       \* ... which is the version in the API server
    nsCached,     \* the namespaces in the informer cache
    nsSynced,     \* nsSynced[t]: ... which is the version in the API server
    rbCached,     \* Roles and RoleBindings in the all-namespaces cache ...
    rbSynced,     \* rbSynced[t]: ... no event of them is pending
    wake,         \* an event of the NSTemplateSet that enqueues it is pending
    queued,       \* the work queue holds a request for the NSTemplateSet
    pc,           \* where the running Reconcile is; "idle" when none is running
    mem,          \* Reconcile's copy of the NSTemplateSet ...
    current,      \* ... which is the version in the API server
    snap,         \* the namespaces Reconcile listed last
    snapCur,      \* snapCur[t]: ... which is the version in the API server
    pickT,        \* the type of the namespace being worked on
    pickR,        \* the namespace template being applied
    todo,         \* the namespaces spaceRoles.ensure has left
    changes,      \* changes made so far by others, up to MaxChanges
    faults,       \* failures so far, up to MaxFaults
    tried,        \* history: cluster resources applied and not recorded
    lost          \* history: cluster-scoped objects removed by others

objVars   == <<clusterObjs, tried, lost>>
innerVars == <<nsObjs, rbSynced>>
nsVars    == <<ns, nsSynced, innerVars>>
cacheVars == <<cached, nsCached, rbCached, wake>>
listVars  == <<snap, snapCur, pickT, pickR, todo>>
vars == <<nstt, objVars, nsVars, synced, cacheVars, queued, pc, mem, current,
          listVars, changes, faults>>

Reasons ==
    {"None", "Provisioning", "Updating", "Provisioned", "UnableToProvision",
     "UnableToProvisionNamespace", "UnableToProvisionClusterResources",
     "UnableToProvisionSpaceRoles", "UpdateFailed", "Terminating",
     "TerminatingFailed"}

\* Status: recorded revisions, provisioned namespaces and the Ready condition.
Status ==
    [cr: CRRefs \union {NoRef}, feat: SUBSET Features, ns: SUBSET NSRefs,
     roles: RoleRefs \union {NoRef}, prov: SUBSET Types, reason: Reasons]

NSTemplateSet ==
    [life: {"live", "deleting", "gone"}, fin: BOOLEAN, spec: Specs,
     status: Status]

Namespace ==
    [phase: {"None", "Active", "Terminating"}, lbl: Labels \union {NoRef},
     tref: NSRefs \union {NoRef}, anno: RoleRefs \union {NoRef}]

PCs == {"idle", "finalizer", "ready",
        "cr", "crApply", "crClean", "crRev",
        "ns", "nsStatus", "nsDelete", "nsCreate", "nsObsolete", "nsApply",
        "nsLabel", "nsRev", "prov",
        "sr", "srStatus", "srApply", "srObsolete", "srAnno", "srRev",
        "dTerm", "dCR", "dClear", "dNs", "dFin"}

NoNamespace == [phase |-> "None", lbl |-> NoRef, tref |-> NoRef, anno |-> NoRef]
NoStatus == [cr |-> NoRef, feat |-> {}, ns |-> {}, roles |-> NoRef,
             prov |-> {}, reason |-> "None"]
Blank == [life |-> "gone", fin |-> FALSE, spec |-> CHOOSE s \in Specs : TRUE,
          status |-> NoStatus]
NoSnap == [t \in Types |-> NoNamespace]

---------------------------------------------------------------------------
(* Templates (external: the host's TierTemplates, read through             *)
(* getTierTemplate and processed by tierTemplate.process).                 *)

CRObjsOf(c) == IF c = NoRef THEN {} ELSE CRObjs[c]

GrantsOf(s) == IF s = NoRef THEN {} ELSE RoleGrants[s]

\* Objects of p's cluster resources that p's feature toggles let be created.
Enabled(p) ==
    {o \in CRObjsOf(p.cr) : FeatureOf[o] = NoRef \/ FeatureOf[o] \in p.feat}

\* The revision and the features of a spec or of a status.
CRPart(p) == [cr |-> p.cr, feat |-> p.feat]

Present(view) == {t \in Types : view[t].phase # "None"}

\* The Roles and RoleBindings in the namespace of type t.
RBACIn(t) == nsObjs[t] \intersect (RBAC \union Grants)

---------------------------------------------------------------------------
(* Ends of Reconcile and writes of the NSTemplateSet (statusManager).      *)

\* Reconcile returns; the request is put back on an error or a RequeueAfter.
Finish(requeue) ==
    /\ pc' = "idle"
    /\ mem' = Blank /\ current' = FALSE
    /\ snap' = NoSnap /\ snapCur' = [t \in Types |-> FALSE]
    /\ pickT' = NoRef /\ pickR' = NoRef /\ todo' = {}
    /\ queued' = (queued \/ requeue)

\* Status().Update: the API server stores st; an unchanged object keeps its
\* resourceVersion.
Persist(st) ==
    /\ nstt' = [nstt EXCEPT !.status = st]
    /\ synced' = (synced /\ st = nstt.status)

\* A status update that succeeds and lets Reconcile go on. There is no call
\* when nothing changed, and a call needs the current resourceVersion.
UpdateStatus(st, next) ==
    /\ IF st = mem.status
         THEN UNCHANGED <<nstt, synced>>
         ELSE current /\ Persist(st)
    /\ mem' = [mem EXCEPT !.status = st]
    /\ pc' = next
    /\ UNCHANGED <<current, queued>>

\* The API server rejects a status update made from an old resourceVersion.
Conflict(st) == st # mem.status /\ ~current

\* Mutant: the failure is recorded, but the error is not returned.
SwallowedFailure(st, reason) ==
    /\ \/ /\ current
          /\ nstt' = [nstt EXCEPT !.status = [st EXCEPT !.reason = reason]]
          /\ synced' = FALSE
       \/ UNCHANGED <<nstt, synced>>
    /\ Finish(FALSE)

\* wrapErrorWithStatusUpdate: try to record the failure, return the error. The
\* condition also gets the error's message, so the stored object changes; it does
\* not when that update fails or the same failure is recorded already.
FailFrom(st, reason) ==
    /\ \/ /\ current
          /\ nstt' = [nstt EXCEPT !.status = [st EXCEPT !.reason = reason]]
          /\ synced' = FALSE
       \/ UNCHANGED <<nstt, synced>>
    /\ Finish(TRUE)

FailWith(reason) == FailFrom(mem.status, reason)

\* Return an error without touching the status.
ReturnError == Finish(TRUE) /\ UNCHANGED <<nstt, synced>>

\* One more call fails (an API error other than a conflict).
CallFails == faults < MaxFaults /\ faults' = faults + 1

setStatusProvisioningIfNotUpdating(st) ==
    IF st.reason = "Updating" THEN st ELSE [st EXCEPT !.reason = "Provisioning"]

setStatusUpdatingIfNotProvisioning(st) ==
    IF st.reason = "Provisioning" THEN st ELSE [st EXCEPT !.reason = "Updating"]

\* wrapErrorWithStatusUpdateFor{ClusterResource,SpaceRoles}Failure
FailureReason(reason) ==
    IF mem.status.reason \in {"Updating", "UpdateFailed"}
      THEN "UpdateFailed" ELSE reason

---------------------------------------------------------------------------
(* Calls on namespaces.                                                    *)

\* A cache that does not lag is read only when it is up to date.
NamespacesReadable == "ns" \in Lagging \/ \A t \in Types : nsSynced[t]

\* fetchNamespacesByOwner: list the space's namespaces from the cache.
ListNamespaces ==
    /\ NamespacesReadable
    /\ snap' = nsCached
    /\ snapCur' = nsSynced

\* Client.Delete of a namespace: it starts terminating.
DeleteNamespace(t) ==
    /\ ns[t].phase # "None"
    /\ ns' = [ns EXCEPT ![t].phase = "Terminating"]
    /\ nsSynced' = [nsSynced EXCEPT ![t] = @ /\ ns[t].phase = "Terminating"]
    /\ UNCHANGED innerVars

\* Client.Update of a namespace from the listed copy, changed to view.
UpdateNamespace(t, view) ==
    /\ snapCur[t]
    /\ ns' = [ns EXCEPT ![t] = view]
    /\ nsSynced' = [nsSynced EXCEPT ![t] = @ /\ view = ns[t]]
    /\ UNCHANGED innerVars

\* ApplyToolchainObjects in a namespace: a terminating one accepts no new object.
Appliable(t, objs) ==
    ns[t].phase = "Active" \/ (ns[t].phase # "None" /\ objs \subseteq nsObjs[t])

\* The namespace of type t now holds objs; changed RBAC objects make an event.
SetObjects(t, objs) ==
    /\ nsObjs' = [nsObjs EXCEPT ![t] = objs]
    /\ rbSynced' = [rbSynced EXCEPT ![t] =
                      @ /\ objs \intersect (RBAC \union Grants) = RBACIn(t)]

PutObjects(t, objs) == SetObjects(t, nsObjs[t] \union objs)

DropObjects(t, objs) == SetObjects(t, nsObjs[t] \ objs)
===========================================================================
