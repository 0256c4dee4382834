---------------------- MODULE NSTemplateSetController ----------------------
(***************************************************************************)
(* Reconcile of the NSTemplateSet controller, composed from its managers,  *)
(* together with what runs beside it: the host operator that writes the    *)
(* NSTemplateSet, users and administrators, the namespace controller, the  *)
(* informers, and crashes of the operator itself.                          *)
(***************************************************************************)
EXTENDS ClusterResources, Namespaces, SpaceRoles

---------------------------------------------------------------------------
(* Reconcile.                                                              *)

\* Mutant: Reconcile does not make sure that there is a finalizer.
NoFinalizer ==
    /\ pc = "idle" /\ queued
    /\ "nstt" \in Lagging \/ synced
    /\ queued' = FALSE
    /\ IF cached.life = "gone" \/ (cached.life = "deleting" /\ ~cached.fin)
         THEN UNCHANGED <<pc, mem, current>>
         ELSE /\ mem' = cached /\ current' = synced
              /\ pc' = IF cached.life = "deleting" THEN "dTerm" ELSE "cr"
    /\ UNCHANGED <<nstt, objVars, nsVars, synced, cacheVars, listVars, changes,
                   faults>>

\* Reconcile: get the NSTemplateSet from the cache, see what is to be done.
StartReconcile ==
    /\ pc = "idle" /\ queued
    /\ "nstt" \in Lagging \/ synced
    /\ queued' = FALSE
    /\ IF cached.life = "gone" \/ (cached.life = "deleting" /\ ~cached.fin)
         THEN UNCHANGED <<pc, mem, current>>
         ELSE /\ mem' = cached /\ current' = synced
              /\ pc' = IF cached.life = "deleting" THEN "dTerm"
                       ELSE IF ~cached.fin THEN "finalizer" ELSE "cr"
    /\ UNCHANGED <<nstt, objVars, nsVars, synced, cacheVars, listVars, changes,
                   faults>>

\* addFinalizer
AddFinalizer ==
    /\ pc = "finalizer"
    /\ \/ /\ current
          /\ nstt' = [nstt EXCEPT !.fin = TRUE] /\ synced' = FALSE
          /\ mem' = [mem EXCEPT !.fin = TRUE]
          /\ pc' = "cr"
          /\ UNCHANGED <<queued, current, listVars>>
       \/ ~current /\ ReturnError
    /\ UNCHANGED <<objVars, nsVars, cacheVars, changes, faults>>

\* setStatusReady, the last call of Reconcile
Readied == [mem.status EXCEPT !.reason = "Provisioned"]

\* Mutant: the condition is patched, whatever version is stored.
UncheckedReady ==
    /\ pc = "ready"
    /\ Finish(FALSE)
    /\ Persist([nstt.status EXCEPT !.reason = "Provisioned"])
    /\ UNCHANGED <<objVars, nsVars, cacheVars, changes, faults>>

SetStatusReady ==
    /\ pc = "ready"
    /\ \/ /\ Readied = mem.status
          /\ Finish(FALSE) /\ UNCHANGED <<nstt, synced>>
       \/ /\ Readied # mem.status /\ current
          /\ Finish(FALSE) /\ Persist(Readied)
       \/ Conflict(Readied) /\ ReturnError
    /\ UNCHANGED <<objVars, nsVars, cacheVars, changes, faults>>

\* deleteNSTemplateSet: setStatusTerminating
Terminated == [mem.status EXCEPT !.reason = "Terminating"]

\* Mutant: the cluster resources are left for after the namespaces.
NamespacesFirst ==
    /\ pc = "dTerm"
    /\ UpdateStatus(Terminated, "dNs") /\ UNCHANGED listVars
    /\ UNCHANGED <<objVars, nsVars, cacheVars, changes, faults>>

SetStatusTerminating ==
    /\ pc = "dTerm"
    /\ \/ /\ UpdateStatus(Terminated, IF mem.status.cr = NoRef THEN "dNs" ELSE "dCR")
          /\ UNCHANGED listVars
       \/ Conflict(Terminated) /\ FailWith("TerminatingFailed")
    /\ UNCHANGED <<objVars, nsVars, cacheVars, changes, faults>>

\* deleteNSTemplateSet: with its only finalizer removed the object is gone
RemoveFinalizer ==
    /\ pc = "dFin"
    /\ \/ /\ current
          /\ nstt' = [nstt EXCEPT !.life = "gone", !.fin = FALSE]
          /\ synced' = FALSE /\ wake' = TRUE
          /\ Finish(FALSE)
       \/ ~current /\ FailWith("TerminatingFailed") /\ UNCHANGED wake
    /\ UNCHANGED <<objVars, nsVars, cached, nsCached, rbCached, changes, faults>>

\* A call made by the controller itself fails.
ControllerFault ==
    /\ CallFails
    /\ \/ pc \in {"finalizer", "ready"} /\ ReturnError
       \/ pc = "dTerm" /\ Terminated # mem.status /\ FailWith("TerminatingFailed")
       \/ pc = "dFin" /\ FailWith("TerminatingFailed")
    /\ UNCHANGED <<objVars, nsVars, cacheVars, changes>>

\* The operator crashes; its successor starts from fresh caches and a queue
\* that holds every object.
Crash ==
    /\ CallFails
    /\ Finish(TRUE)
    /\ cached' = nstt /\ synced' = TRUE /\ wake' = FALSE
    /\ nsCached' = ns /\ nsSynced' = [t \in Types |-> TRUE]
    /\ rbCached' = [t \in Types |-> RBACIn(t)]
    /\ rbSynced' = [t \in Types |-> TRUE]
    /\ UNCHANGED <<nstt, objVars, ns, nsObjs, changes>>

---------------------------------------------------------------------------
(* The rest of the cluster (external).                                     *)

AnotherChange == changes < MaxChanges /\ changes' = changes + 1

\* The host operator moves the space to another tier or changes its roles.
HostUpdates ==
    /\ AnotherChange
    /\ nstt.life = "live"
    /\ \E s \in Specs \ {nstt.spec} : nstt' = [nstt EXCEPT !.spec = s]
    /\ synced' = FALSE /\ wake' = TRUE /\ current' = FALSE
    /\ UNCHANGED <<objVars, nsVars, cached, nsCached, rbCached, queued, pc, mem, listVars, faults>>

\* The host operator deletes the NSTemplateSet.
HostDeletes ==
    /\ AnotherChange
    /\ nstt.life = "live"
    /\ nstt' = [nstt EXCEPT !.life = IF nstt.fin THEN "deleting" ELSE "gone"]
    /\ synced' = FALSE /\ wake' = TRUE /\ current' = FALSE
    /\ UNCHANGED <<objVars, nsVars, cached, nsCached, rbCached, queued, pc, mem, listVars, faults>>

\* An administrator deletes a namespace of the space.
AdminDeletesNamespace(t) ==
    /\ Intruders /\ AnotherChange
    /\ ns[t].phase = "Active"
    /\ DeleteNamespace(t)
    /\ snapCur' = [snapCur EXCEPT ![t] = FALSE]
    /\ UNCHANGED <<nstt, objVars, synced, cacheVars, queued, pc, mem, current,
                   snap, pickT, pickR, todo, faults>>

\* A user deletes a Role or a RoleBinding.
UserDeletesRBAC(t, o) ==
    /\ Intruders /\ AnotherChange
    /\ o \in RBACIn(t)
    /\ DropObjects(t, {o})
    /\ UNCHANGED <<nstt, objVars, ns, nsSynced, synced, cacheVars, queued, pc, mem, current,
                   listVars, faults>>

\* A cluster-scoped object disappears.
LoseClusterObject(o) ==
    /\ AnotherChange
    /\ o \in clusterObjs
    /\ clusterObjs' = clusterObjs \ {o} /\ lost' = lost \union {o}
    /\ UNCHANGED <<nstt, tried, nsVars, synced, cacheVars, queued, pc, mem,
                   current, listVars, faults>>

\* The namespace controller empties a terminating namespace, then removes it.
EmptyNamespace(t) ==
    /\ ns[t].phase = "Terminating" /\ nsObjs[t] # {}
    /\ DropObjects(t, nsObjs[t])
    /\ UNCHANGED <<nstt, objVars, ns, nsSynced, synced, cacheVars, queued, pc, mem, current,
                   listVars, changes, faults>>

RemoveNamespace(t) ==
    /\ ns[t].phase = "Terminating" /\ nsObjs[t] = {}
    /\ ns' = [ns EXCEPT ![t] = NoNamespace]
    /\ nsSynced' = [nsSynced EXCEPT ![t] = FALSE]
    /\ snapCur' = [snapCur EXCEPT ![t] = FALSE]
    /\ UNCHANGED <<nstt, objVars, innerVars, synced, cacheVars, queued, pc, mem,
                   current, snap, pickT, pickR, todo, changes, faults>>

---------------------------------------------------------------------------
(* Informers: SetupWithManager says which events enqueue a request.        *)

\* GenerationChangedPredicate or AnnotationChangedPredicate; deletions pass
SyncNSTemplateSet ==
    /\ ~synced
    /\ cached' = nstt /\ synced' = TRUE
    /\ queued' = (queued \/ wake) /\ wake' = FALSE
    /\ UNCHANGED <<nstt, objVars, nsVars, nsCached, rbCached, pc, mem, current,
                   listVars, changes, faults>>

\* Namespaces are watched without a predicate.
SyncNamespace(t) ==
    /\ ~nsSynced[t]
    /\ nsCached' = [nsCached EXCEPT ![t] = ns[t]]
    /\ nsSynced' = [nsSynced EXCEPT ![t] = TRUE]
    /\ queued' = TRUE
    /\ UNCHANGED <<nstt, objVars, ns, innerVars, synced, cached, rbCached, wake,
                   pc, mem, current, listVars, changes, faults>>

\* Mutant: Roles and RoleBindings are cached but not watched.
RBACUnwatched(t) ==
    /\ ~rbSynced[t]
    /\ rbCached' = [rbCached EXCEPT ![t] = RBACIn(t)]
    /\ rbSynced' = [rbSynced EXCEPT ![t] = TRUE]
    /\ UNCHANGED <<nstt, objVars, ns, nsSynced, nsObjs, synced, cached, nsCached,
                   wake, queued, pc, mem, current, listVars, changes, faults>>

\* Roles and RoleBindings are watched with LabelsAndGenerationPredicate.
SyncRBAC(t) ==
    /\ ~rbSynced[t]
    /\ rbCached' = [rbCached EXCEPT ![t] = RBACIn(t)]
    /\ rbSynced' = [rbSynced EXCEPT ![t] = TRUE]
    /\ queued' = TRUE
    /\ UNCHANGED <<nstt, objVars, ns, nsSynced, nsObjs, synced, cached, nsCached,
                   wake, pc, mem, current, listVars, changes, faults>>

\* The periodic resync sends an update without a change of each cached object:
\* the predicates drop it for all but the namespaces.
Resync ==
    /\ Present(nsCached) # {}
    /\ queued' = TRUE
    /\ UNCHANGED <<nstt, objVars, nsVars, synced, cacheVars, pc, mem, current,
                   listVars, changes, faults>>

---------------------------------------------------------------------------
Init ==
    /\ nstt \in [life: {"live"}, fin: {FALSE}, spec: Specs, status: {NoStatus}]
    /\ clusterObjs = {} /\ tried = {} /\ lost = {}
    /\ ns = NoSnap /\ nsObjs = [t \in Types |-> {}]
    /\ cached = nstt /\ synced = TRUE
    /\ nsCached = NoSnap /\ nsSynced = [t \in Types |-> TRUE]
    /\ rbCached = [t \in Types |-> {}] /\ rbSynced = [t \in Types |-> TRUE]
    /\ wake = FALSE
    /\ queued = TRUE
    /\ pc = "idle" /\ mem = Blank /\ current = FALSE
    /\ snap = NoSnap /\ snapCur = [t \in Types |-> FALSE]
    /\ pickT = NoRef /\ pickR = NoRef /\ todo = {}
    /\ changes = 0 /\ faults = 0

Reconcile ==
    \/ StartReconcile \/ AddFinalizer
    \/ EnsureClusterResources \/ ApplyClusterObjects \/ CleanupClusterObjects
    \/ RecordClusterResources
    \/ EnsureNamespaces \/ AnnounceNamespace \/ DeprovisionNamespace
    \/ EnsureNamespaceResource \/ DeleteObsoleteInner \/ ApplyInner
    \/ LabelNamespace \/ RecordNamespaces \/ SetProvisionedNamespaces
    \/ EnsureSpaceRoles \/ NextNamespace \/ ApplySpaceRoles
    \/ DeleteObsoleteGrants \/ AnnotateNamespace \/ RecordSpaceRoles
    \/ SetStatusReady

Delete ==
    \/ SetStatusTerminating \/ DeleteClusterObjects \/ ClearClusterResources
    \/ EnsureNamespacesDeleted \/ RemoveFinalizer

Fault ==
    \/ ControllerFault \/ ClusterResourcesFault \/ NamespacesFault
    \/ SpaceRolesFault \/ DeleteClusterResourcesFault \/ DeleteNamespacesFault
    \/ Crash

Others ==
    \/ HostUpdates \/ HostDeletes
    \/ \E t \in Types : AdminDeletesNamespace(t)
    \/ \E t \in Types : \E o \in RBAC \union Grants : UserDeletesRBAC(t, o)
    \/ \E o \in Losable : LoseClusterObject(o)

Cluster ==
    \/ \E t \in Types : EmptyNamespace(t)
    \/ \E t \in Types : RemoveNamespace(t)
    \/ SyncNSTemplateSet
    \/ \E t \in Types : SyncNamespace(t)
    \/ \E t \in Types : SyncRBAC(t)
    \/ Resync

Next == Reconcile \/ Delete \/ Fault \/ Others \/ Cluster

Spec == Init /\ [][Next]_vars

\* The worker keeps running Reconcile, informers deliver in the end, and the
\* namespace controller finishes. Nothing is assumed of faults, of others and
\* of the periodic resync.
Fairness ==
    /\ WF_vars(Reconcile \/ Delete)
    /\ WF_vars(SyncNSTemplateSet)
    /\ \A t \in Types :
          /\ WF_vars(EmptyNamespace(t)) /\ WF_vars(RemoveNamespace(t))
          /\ WF_vars(SyncNamespace(t)) /\ WF_vars(SyncRBAC(t))

FairSpec == Spec /\ Fairness

---------------------------------------------------------------------------
ObjTypes == clusterObjs \subseteq ClusterObjs /\ lost \subseteq ClusterObjs /\ tried \subseteq CRSpec

StoreTypes == nstt \in NSTemplateSet /\ synced \in BOOLEAN

RunTypes ==
    /\ mem \in NSTemplateSet /\ current \in BOOLEAN /\ queued \in BOOLEAN
    /\ pc \in PCs

ListTypes ==
    /\ snap \in [Types -> Namespace] /\ snapCur \in [Types -> BOOLEAN]
    /\ pickT \in Types \union {NoRef} /\ pickR \in NSRefs \union {NoRef}
    /\ todo \subseteq Types

NsTypes == ns \in [Types -> Namespace] /\ nsSynced \in [Types -> BOOLEAN]

InnerTypes ==
    /\ nsObjs \in [Types -> SUBSET (InnerObjs \union Grants)]
    /\ rbSynced \in [Types -> BOOLEAN]

CacheTypes ==
    /\ cached \in NSTemplateSet /\ nsCached \in [Types -> Namespace]
    /\ rbCached \in [Types -> SUBSET (RBAC \union Grants)] /\ wake \in BOOLEAN

CountTypes == changes \in 0..MaxChanges /\ faults \in 0..MaxFaults

\* Every variable has its type in every state Reconcile and its environment reach.
TypeOK ==
    /\ ObjTypes /\ StoreTypes /\ RunTypes /\ ListTypes
    /\ NsTypes /\ InnerTypes /\ CacheTypes /\ CountTypes

---------------------------------------------------------------------------
(* Safety.                                                                 *)

\* The cluster-scoped objects of the space are accounted for: each belongs to
\* the template in Status.ClusterResources, which is all delete() goes by, or
\* to one whose application was begun and never recorded; and unless such an
\* attempt is pending, a live space has every object its status records, but
\* for those that others removed, and a space that is gone has left none.
ClusterAccounting ==
    /\ clusterObjs \subseteq CRObjsOf(nstt.status.cr)
                              \union UNION {Enabled(p) : p \in tried}
    /\ nstt.life = "live" /\ tried = {} => Enabled(nstt.status) \ lost \subseteq clusterObjs
    /\ nstt.life = "gone" /\ tried = {} => clusterObjs = {}

BecomesReady ==
    nstt.status.reason # "Provisioned" /\ nstt'.status.reason = "Provisioned"

\* setStatusReady never speaks of an outdated spec: when the Ready condition
\* becomes true, the status records every part of the spec the API server holds
\* at that moment, whatever the host changed while Reconcile was running.
ReadyIsCurrent ==
    [][BecomesReady =>
          /\ CRPart(nstt'.status) = CRPart(nstt'.spec)
          /\ nstt'.status.ns = nstt'.spec.ns
          /\ nstt'.status.roles = nstt'.spec.roles]_vars

\* When Ready becomes true, every namespace of the spec that is not terminating
\* is labelled with its template, has its Roles and RoleBindings, is annotated
\* with the space roles and has all of their objects. (Fresh caches, and users
\* who leave the namespaces alone.)
ReadyNamespacesComplete ==
    [][BecomesReady /\ ~Intruders /\ Lagging \intersect {"ns", "rbac"} = {} =>
          \A r \in nstt'.spec.ns : ns[NSType[r]].phase = "Active" =>
              /\ ns[NSType[r]].tref = r
              /\ ns[NSType[r]].anno = nstt'.spec.roles
              /\ (NSObjs[r] \intersect RBAC) \union GrantsOf(nstt'.spec.roles)
                     \subseteq nsObjs[NSType[r]]]_vars

\* The finalizer holds the NSTemplateSet until its last namespace is gone.
\* (Fresh namespace cache.)
NoOrphanedNamespaces ==
    nstt.life = "gone" /\ "ns" \notin Lagging => Present(ns) = {}

\* "we want to be sure that cluster-scoped resources such as quotas are set even
\* before the namespaces exist": the operator creates a namespace only while the
\* cluster-scoped objects of the spec it is working on are in place.
QuotaBeforeNamespace ==
    [][\A t \in Types :
          ns[t].phase = "None" /\ ns'[t].phase = "Active" /\ tried = {}
             => Enabled(mem.spec) \ lost \subseteq clusterObjs]_vars

\* "delete cluster resources first": no namespace of a space being deleted is
\* removed by the operator while a recorded cluster-scoped object is left.
ClusterResourcesDeletedFirst ==
    [][pc = "dNs" /\ Present(ns) # {} /\ ns' # ns /\ pc' = "idle"
          => clusterObjs \intersect CRObjsOf(nstt.status.cr) = {}
             /\ (tried = {} => clusterObjs = {})]_vars

---------------------------------------------------------------------------
(* The inductive invariant behind the safety properties.                   *)

\* What Reconcile works on fits where it is.
PickOK ==
    /\ pc \in {"nsStatus", "nsDelete", "srApply", "srObsolete", "srAnno"}
          => pickT \in Types
    /\ pc \in {"nsCreate", "nsObsolete", "nsApply", "nsLabel"}
          => pickR \in NSRefs /\ pickT \in Types

\* A copy whose resourceVersion is the stored one is the stored object.
CopiesOK ==
    /\ synced => cached = nstt
    /\ current => mem = nstt /\ pc # "idle"

\* Deletion is final, and every copy of a deleted object knows it or is old.
LifeOK ==
    /\ cached.life # "live" => nstt.life # "live"
    /\ pc # "idle" => mem.life # "gone"
    /\ pc \in {"dTerm", "dCR", "dClear", "dNs", "dFin"} => nstt.life # "live"
    /\ pc \notin {"idle", "finalizer"} => mem.fin
    /\ ~nstt.fin => nstt.status.cr = NoRef
    /\ nstt.life = "gone" => nstt.status.cr = NoRef

\* How far the cluster-scoped resources are.
ClusterStepOK ==
    /\ pc \in {"crApply", "crClean", "crRev"} => CRChanged
    /\ pc \in {"crClean", "crRev"} =>
          /\ Enabled(mem.spec) \ lost \subseteq clusterObjs
          /\ CRPart(mem.spec) \in tried \union {CRPart(nstt.status)}
    /\ pc = "crRev" => clusterObjs \intersect Obsolete = {}
    /\ pc = "dClear" => clusterObjs \intersect CRObjsOf(mem.status.cr) = {}
    /\ pc \in {"dNs", "dFin"} => mem.status.cr = NoRef

\* The parts of the spec that Reconcile has dealt with and recorded.
NSDone == {"prov", "sr", "srStatus", "srApply", "srObsolete", "srAnno", "srRev", "ready"}
CRDone == NSDone \union {"ns", "nsStatus", "nsDelete", "nsCreate", "nsObsolete",
                        "nsApply", "nsLabel", "nsRev"}

ProgressOK ==
    /\ pc \in CRDone => CRPart(mem.status) = CRPart(mem.spec)
    /\ pc \in NSDone => mem.status.ns = mem.spec.ns
    /\ pc = "ready" => mem.status.roles = mem.spec.roles

\* Everything the safety properties rest on, preserved by every single step.
IndInv ==
    /\ TypeOK /\ PickOK /\ CopiesOK /\ LifeOK /\ ClusterStepOK /\ ProgressOK
    /\ ClusterAccounting

---------------------------------------------------------------------------
(* More of it: the order of deletion, of quotas and namespaces, and what   *)
(* Ready says of the namespaces.                                           *)

Deleting == {"dTerm", "dCR", "dClear", "dNs", "dFin"}
Ensuring == CRDone \union {"cr", "crApply", "crClean", "crRev"}

\* A copy of a namespace, or of its Roles and RoleBindings, that no event is to
\* replace is what the API server stores.
ListsOK ==
    \A t \in Types :
        /\ nsSynced[t] => nsCached[t] = ns[t]
        /\ rbSynced[t] => rbCached[t] = RBACIn(t)

\* While namespaces may be made the finalizer is there, and it goes after them.
FinalizerOK ==
    /\ nstt.life = "gone" => ~nstt.fin
    /\ pc \in Ensuring \/ (cached.life = "live" /\ cached.fin) => nstt.fin
    /\ pc \in Ensuring \union {"finalizer"} => mem.life = "live"
    /\ pc \in Deleting => cached.life # "live"
    /\ "ns" \notin Lagging /\ (~nstt.fin \/ pc = "dFin") => Present(ns) = {}

\* The cluster resources recorded in a copy of the status are out of date only
\* if that shows: in a live copy they are not those of its spec, in a deleted
\* one there are some.
RecordOK ==
    /\ current => cached.spec = mem.spec
    /\ cached.life = "live" /\ CRPart(cached.spec) = CRPart(cached.status)
          => CRPart(nstt.status) = CRPart(cached.status)
    /\ pc \in Ensuring \union {"finalizer"} /\ CRPart(mem.spec) = CRPart(mem.status)
          => CRPart(nstt.status) = CRPart(mem.status)
    /\ cached.life # "live" /\ cached.status.cr = NoRef => nstt.status.cr = NoRef
    /\ pc \in Deleting /\ mem.status.cr = NoRef => nstt.status.cr = NoRef
    /\ (pc \in Ensuring \union {"finalizer"} \/ cached.life = "live") /\ tried = {}
          => Enabled(nstt.status) \ lost \subseteq clusterObjs

\* The namespaces that Reconcile found up to date, and those in which it has
\* dealt with the space roles, are so while they are active.
SRLoop == {"srStatus", "srApply", "srObsolete", "srAnno", "srRev", "ready"}

NamespacesOK ==
    /\ pc \in NSDone \union {"nsRev"} =>
          \A r \in mem.spec.ns : ns[NSType[r]].phase = "Active" =>
              /\ ns[NSType[r]].tref = r
              /\ NSObjs[r] \intersect RBAC \subseteq nsObjs[NSType[r]]
    /\ pc \in SRLoop => \A t \in Types : ns[t].phase = "Active" =>
          /\ snap[t] = ns[t]
          /\ t \notin todo => /\ ns[t].anno = mem.spec.roles
                              /\ GrantsOf(mem.spec.roles) \subseteq nsObjs[t]
          /\ pc \in {"srObsolete", "srAnno"} /\ t = pickT => GrantsOf(mem.spec.roles) \subseteq nsObjs[t]
    /\ pc \in {"srRev", "ready"} => todo = {}

\* The whole inductive invariant.
OrderInv ==
    /\ IndInv /\ ListsOK /\ FinalizerOK /\ RecordOK
    /\ ~Intruders /\ Lagging \intersect {"ns", "rbac"} = {} => NamespacesOK

---------------------------------------------------------------------------
(* Liveness, under FairSpec.                                               *)

Settled ==
    /\ nstt.status.reason = "Provisioned"
    /\ CRPart(nstt.status) = CRPart(nstt.spec)
    /\ nstt.status.ns = nstt.spec.ns /\ nstt.status.roles = nstt.spec.roles
    /\ \A t \in Types :
          /\ ns[t].phase = (IF t \in {NSType[r] : r \in nstt.spec.ns}
                              THEN "Active" ELSE "None")
          /\ \A r \in nstt.spec.ns : NSType[r] = t =>
                /\ ns[t].tref = r /\ ns[t].anno = nstt.spec.roles
                /\ (NSObjs[r] \intersect RBAC) \union GrantsOf(nstt.spec.roles)
                      \subseteq nsObjs[t]

\* Once the others leave it alone, a space that is not deleted becomes Ready for
\* its latest spec with all its namespaces and roles, and stays so: no change of
\* the spec, no lost role, no failed call and no crash is left unanswered.
EventuallyProvisioned == <>[](nstt.life = "live" => Settled)

\* A deleted NSTemplateSet goes away: neither a conflict, a namespace that takes
\* its time to terminate, a failed call nor a crash keeps its finalizer forever.
DeletionCompletes == nstt.life = "deleting" ~> nstt.life = "gone"

---------------------------------------------------------------------------
(* What comments of the code say and the code does not guarantee: each of  *)
(* these is the subject of a run that is expected to find a violation.     *)

\* cluster_resources.go: "when the NSTemplateSet is deleted, we explicitly delete
\* the associated cluster-wide resources that belong to the same user".
NoClusterObjectsLeft == nstt.life = "gone" => clusterObjs = {}

\* space_roles.go: the annotation is read "so we can compare with the new
\* SpaceRoles and remove all obsolete resources".
ReadyGrantsAreThoseOfSpec ==
    [][BecomesReady =>
          \A t \in Types : ns[t].phase = "Active"
              => nsObjs[t] \intersect Grants \subseteq GrantsOf(nstt'.spec.roles)]_vars
===========================================================================
