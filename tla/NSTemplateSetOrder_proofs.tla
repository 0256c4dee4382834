--------------------- MODULE NSTemplateSetOrder_proofs ---------------------
(***************************************************************************)
(* More proofs about NSTemplateSetController: OrderInv is an inductive     *)
(* invariant, from which it follows that no namespace outlives its         *)
(* NSTemplateSet, that quotas come before namespaces, that a deletion      *)
(* takes cluster-scoped objects first, and that Ready is only said of      *)
(* complete namespaces.                                                    *)
(***************************************************************************)
EXTENDS NSTemplateSet_proofs

USE DEF objVars, innerVars, nsVars, cacheVars, listVars

---------------------------------------------------------------------------
(* Caches of namespaces, Roles and RoleBindings.                           *)

\* Writing what a namespace holds announces an event if its RBAC objects change.
LEMMA SetObjectsLists ==
  ASSUME IndInv, ListsOK, NEW t \in Types, NEW objs, SetObjects(t, objs),
         UNCHANGED <<ns, nsSynced, nsCached, rbCached>>
  PROVE  ListsOK'
  BY DEF SetObjects, ListsOK, RBACIn, IndInv, TypeOK, InnerTypes

\* Writing a namespace announces an event if it changes.
LEMMA NamespaceLists ==
  ASSUME IndInv, ListsOK, NEW t \in Types, NEW view, ns' = [ns EXCEPT ![t] = view],
         nsSynced' = [nsSynced EXCEPT ![t] = @ /\ view = ns[t]],
         UNCHANGED <<nsObjs, rbSynced, nsCached, rbCached>>
  PROVE  ListsOK'
  BY DEF ListsOK, RBACIn, IndInv, TypeOK, NsTypes

LEMMA CallsLists ==
  ASSUME IndInv, ListsOK, NEW t \in Types, UNCHANGED <<nsCached, rbCached>>,
         \/ DeleteNamespace(t)
         \/ \E view : UpdateNamespace(t, view)
         \/ (\E objs : PutObjects(t, objs) \/ DropObjects(t, objs)) /\ UNCHANGED <<ns, nsSynced>>
  PROVE  ListsOK'
  <1>1. CASE DeleteNamespace(t)
    <2> DEFINE view == [ns[t] EXCEPT !.phase = "Terminating"]
    <2>1. ns[t] \in Namespace
      BY DEF IndInv, TypeOK, NsTypes
    <2>2. view = ns[t] <=> ns[t].phase = "Terminating"
      BY <2>1 DEF Namespace
    <2>3. ns' = [ns EXCEPT ![t] = view]
      BY <1>1 DEF DeleteNamespace
    <2>4. nsSynced' = [nsSynced EXCEPT ![t] = @ /\ view = ns[t]]
      BY <1>1, <2>2 DEF DeleteNamespace
    <2> QED
      BY <1>1, <2>3, <2>4, NamespaceLists DEF DeleteNamespace
  <1>2. CASE \E view : UpdateNamespace(t, view)
    BY <1>2, NamespaceLists DEF UpdateNamespace
  <1>3. CASE (\E objs : PutObjects(t, objs) \/ DropObjects(t, objs)) /\ UNCHANGED <<ns, nsSynced>>
    BY <1>3, SetObjectsLists DEF PutObjects, DropObjects
  <1> QED
    BY <1>1, <1>2, <1>3

\* A step that writes nothing of the namespaces and reads nothing into the caches.
LEMMA SameLists ==
  ASSUME ListsOK, UNCHANGED <<nsVars, nsCached, rbCached>>
  PROVE  ListsOK'
  BY DEF ListsOK, RBACIn

\* What the caches hold is what is stored, or an event is under way.
LEMMA NextLists == IndInv /\ ListsOK /\ [Next]_vars => ListsOK'
  <1> SUFFICES ASSUME IndInv, ListsOK, [Next]_vars PROVE ListsOK'
    OBVIOUS
  <1>1. CASE Reconcile
    <2>1. CASE \/ StartReconcile \/ AddFinalizer \/ EnsureClusterResources \/ ApplyClusterObjects
               \/ CleanupClusterObjects \/ RecordClusterResources \/ EnsureNamespaces
               \/ AnnounceNamespace \/ RecordNamespaces \/ SetProvisionedNamespaces
               \/ EnsureSpaceRoles \/ NextNamespace \/ RecordSpaceRoles \/ SetStatusReady
      <3>1. UNCHANGED <<nsVars, nsCached, rbCached>>
        BY <2>1 DEF StartReconcile, AddFinalizer, EnsureClusterResources, ApplyClusterObjects,
           CleanupClusterObjects, RecordClusterResources, EnsureNamespaces,
           AnnounceNamespace, RecordNamespaces, SetProvisionedNamespaces,
           EnsureSpaceRoles, NextNamespace, RecordSpaceRoles, SetStatusReady
      <3> QED
        BY <3>1, SameLists
    <2>2. CASE DeprovisionNamespace
      BY <2>2, SameLists, CallsLists DEF DeprovisionNamespace, IndInv, PickOK
    <2>3. CASE EnsureNamespaceResource
      <3>1. PICK keep \in ApplyKeeps :
               ns' = [ns EXCEPT ![pickT] = AppliedNamespace(ns[pickT], NSLabel[pickR], keep)]
        BY <2>3 DEF EnsureNamespaceResource
      <3> DEFINE view == AppliedNamespace(ns[pickT], NSLabel[pickR], keep)
      <3>2. pickT \in Types /\ ns'[pickT] = view
        BY <2>3, <3>1 DEF EnsureNamespaceResource, IndInv, PickOK, TypeOK, NsTypes
      <3>3. nsSynced' = [nsSynced EXCEPT ![pickT] = @ /\ view = ns[pickT]]
        BY <2>3, <3>2 DEF EnsureNamespaceResource
      <3> HIDE DEF view
      <3>4. ns' = [ns EXCEPT ![pickT] = view]
        BY <3>1 DEF view
      <3> QED
        BY <2>3, <3>2, <3>3, <3>4, NamespaceLists DEF EnsureNamespaceResource
    <2>4. CASE DeleteObsoleteInner \/ ApplyInner
      BY <2>4, SameLists, CallsLists DEF DeleteObsoleteInner, ApplyInner, IndInv, PickOK
    <2>5. CASE LabelNamespace \/ AnnotateNamespace
      BY <2>5, SameLists, CallsLists DEF LabelNamespace, AnnotateNamespace, IndInv, PickOK
    <2>6. CASE ApplySpaceRoles \/ DeleteObsoleteGrants
      BY <2>6, SameLists, CallsLists DEF ApplySpaceRoles, DeleteObsoleteGrants, IndInv, PickOK
    <2> QED
      BY <1>1, <2>1, <2>2, <2>3, <2>4, <2>5, <2>6 DEF Reconcile
  <1>2. CASE Delete
    <2>1. CASE SetStatusTerminating \/ DeleteClusterObjects \/ ClearClusterResources \/ RemoveFinalizer
      <3>1. UNCHANGED <<nsVars, nsCached, rbCached>>
        BY <2>1 DEF SetStatusTerminating, DeleteClusterObjects, ClearClusterResources, RemoveFinalizer
      <3> QED
        BY <3>1, SameLists
    <2>2. CASE EnsureNamespacesDeleted
      BY <2>2, SameLists, CallsLists DEF EnsureNamespacesDeleted, Present
    <2> QED
      BY <1>2, <2>1, <2>2 DEF Delete
  <1>3. CASE Fault
    <2>1. CASE \/ ControllerFault \/ ClusterResourcesFault \/ DeleteClusterResourcesFault
               \/ DeleteNamespacesFault
      <3>1. UNCHANGED <<nsVars, nsCached, rbCached>>
        BY <2>1 DEF ControllerFault, ClusterResourcesFault, DeleteClusterResourcesFault,
           DeleteNamespacesFault
      <3> QED
        BY <3>1, SameLists
    <2>2. CASE NamespacesFault
      BY <2>2, SameLists, CallsLists DEF NamespacesFault, IndInv, PickOK
    <2>3. CASE SpaceRolesFault
      BY <2>3, SameLists, CallsLists DEF SpaceRolesFault, IndInv, PickOK
    <2>4. CASE Crash
      BY <2>4 DEF Crash, ListsOK, RBACIn
    <2> QED
      BY <1>3, <2>1, <2>2, <2>3, <2>4 DEF Fault
  <1>4. CASE Others
    <2>1. CASE HostUpdates \/ HostDeletes \/ \E o \in Losable : LoseClusterObject(o)
      BY <2>1, SameLists DEF HostUpdates, HostDeletes, LoseClusterObject
    <2>2. ASSUME NEW t \in Types,
                 AdminDeletesNamespace(t) \/ \E o \in RBAC \union Grants : UserDeletesRBAC(t, o)
          PROVE  ListsOK'
      BY <2>2, CallsLists DEF AdminDeletesNamespace, UserDeletesRBAC
    <2> QED
      BY <1>4, <2>1, <2>2 DEF Others
  <1>5. CASE Cluster
    <2>1. CASE SyncNSTemplateSet \/ Resync
      BY <2>1, SameLists DEF SyncNSTemplateSet, Resync
    <2>2. ASSUME NEW t \in Types, EmptyNamespace(t)
          PROVE  ListsOK'
      BY <2>2, CallsLists DEF EmptyNamespace
    <2>3. ASSUME NEW t \in Types, RemoveNamespace(t) \/ SyncNamespace(t) \/ SyncRBAC(t)
          PROVE  ListsOK'
      BY <2>3 DEF RemoveNamespace, SyncNamespace, SyncRBAC, ListsOK, RBACIn, IndInv, TypeOK,
         NsTypes, InnerTypes, CacheTypes
    <2> QED
      BY <1>5, <2>1, <2>2, <2>3 DEF Cluster
  <1>6. CASE UNCHANGED vars
    BY <1>6, SameLists DEF vars
  <1> QED
    BY <1>1, <1>2, <1>3, <1>4, <1>5, <1>6 DEF Next

---------------------------------------------------------------------------
(* The finalizer and what copies of the status record.                     *)

\* A write of the NSTemplateSet that concerns neither its life nor the cluster
\* resources it records, or none.
QuietWrite ==
    /\ nstt'.life = nstt.life /\ nstt'.fin = nstt.fin
    /\ CRPart(nstt'.status) = CRPart(nstt.status)

\* Reconcile ends, or goes on with a copy changed in the same way.
QuietRun ==
    \/ pc' = "idle" /\ current' = FALSE
    \/ /\ mem'.life = mem.life /\ mem'.spec = mem.spec
       /\ CRPart(mem'.status) = CRPart(mem.status)
       /\ current' => current
       /\ pc' \in Ensuring => pc \in Ensuring
       /\ pc' = "finalizer" => pc = "finalizer"
       /\ pc' \in Deleting => pc \in Deleting

\* What the status records is in place after the step if it was before.
QuietObjs ==
    tried' = {} =>
        /\ tried = {}
        /\ Enabled(nstt.status) \ lost \subseteq clusterObjs
              => Enabled(nstt.status) \ lost' \subseteq clusterObjs'

\* Such a step; namespaces are made only while the finalizer is there.
Quiet ==
    /\ QuietWrite /\ QuietRun /\ UNCHANGED cached
    /\ pc \in Deleting \/ QuietObjs
    /\ pc \in Ensuring \/ Present(ns') \subseteq Present(ns)
    /\ pc' = "dFin" => pc = "dFin"

\* It keeps what is said of the finalizer and of the records.
LEMMA QuietKeeps ==
  ASSUME FinalizerOK, RecordOK, Quiet
  PROVE  FinalizerOK' /\ RecordOK'
  <1>1. /\ nstt'.status.cr = nstt.status.cr /\ nstt'.status.feat = nstt.status.feat
        /\ Enabled(nstt'.status) = Enabled(nstt.status)
    BY DEF Quiet, QuietWrite, CRPart, Enabled
  <1>2. FinalizerOK'
    BY DEF Quiet, FinalizerOK, QuietWrite, QuietRun, Ensuring, Deleting, CRDone, NSDone
  <1>3. (pc' \in Ensuring \union {"finalizer"} \/ cached'.life = "live") /\ tried' = {}
           => Enabled(nstt'.status) \ lost' \subseteq clusterObjs'
    <2> HAVE (pc' \in Ensuring \union {"finalizer"} \/ cached'.life = "live") /\ tried' = {}
    <2>1. pc \notin Deleting
      BY DEF Quiet, QuietRun, FinalizerOK, Ensuring, Deleting, CRDone, NSDone
    <2>2. pc \in Ensuring \union {"finalizer"} \/ cached.life = "live"
      BY DEF Quiet, QuietRun, Ensuring, CRDone, NSDone
    <2> QED
      BY <1>1, <2>1, <2>2 DEF Quiet, QuietObjs, RecordOK
  <1>4. CASE pc' = "idle" /\ current' = FALSE
    BY <1>1, <1>2, <1>3, <1>4 DEF RecordOK, Quiet, QuietWrite, Ensuring, Deleting, CRDone, NSDone
  <1>5. CASE ~(pc' = "idle" /\ current' = FALSE)
    <2>1. /\ mem'.spec = mem.spec /\ CRPart(mem'.status) = CRPart(mem.status)
          /\ mem'.status.cr = mem.status.cr
          /\ current' => current
          /\ pc' \in Ensuring \union {"finalizer"} => pc \in Ensuring \union {"finalizer"}
          /\ pc' \in Deleting => pc \in Deleting
      BY <1>5 DEF Quiet, QuietRun, CRPart
    <2> QED
      BY <1>1, <1>2, <1>3, <2>1 DEF RecordOK, Quiet, QuietWrite
  <1> QED
    BY <1>2, <1>4, <1>5

\* Returning from Reconcile, with or without an error and a recorded failure.
LEMMA EndsQuietly ==
  ASSUME IndInv,
         \/ \E b \in BOOLEAN : Finish(b) /\ UNCHANGED <<nstt, synced>>
         \/ ReturnError
         \/ \E reason : FailWith(reason)
         \/ \E st \in Status : \E reason : CRPart(st) = CRPart(mem.status) /\ FailFrom(st, reason)
  PROVE  QuietWrite /\ QuietRun /\ pc' = "idle"
  <1>1. ASSUME NEW st \in Status, NEW reason, CRPart(st) = CRPart(mem.status), FailFrom(st, reason)
        PROVE  QuietWrite /\ pc' = "idle" /\ current' = FALSE
    BY <1>1 DEF FailFrom, Finish, QuietWrite, IndInv, CopiesOK, TypeOK, StoreTypes, RunTypes,
       NSTemplateSet, Status, CRPart
  <1>2. mem.status \in Status
    BY StatusTypes DEF IndInv
  <1>3. (\E reason : FailWith(reason)) => QuietWrite /\ pc' = "idle" /\ current' = FALSE
    BY <1>1, <1>2 DEF FailWith
  <1> QED
    BY <1>1, <1>3 DEF ReturnError, Finish, QuietWrite, QuietRun

\* A status update that keeps the recorded cluster resources.
LEMMA UpdatesQuietly ==
  ASSUME IndInv, NEW st \in Status, NEW next, UpdateStatus(st, next),
         CRPart(st) = CRPart(mem.status), next # "finalizer",
         next \in Ensuring => pc \in Ensuring, next \in Deleting => pc \in Deleting
  PROVE  QuietWrite /\ QuietRun /\ pc' = next
  <1>1. QuietWrite
    BY DEF UpdateStatus, Persist, QuietWrite, IndInv, CopiesOK, TypeOK, StoreTypes, RunTypes,
     NSTemplateSet, Status, CRPart
  <1>2. /\ mem'.life = mem.life /\ mem'.spec = mem.spec /\ mem'.status = st
        /\ current' = current /\ pc' = next
    BY DEF UpdateStatus, IndInv, TypeOK, RunTypes, NSTemplateSet
  <1> QED
    BY <1>1, <1>2 DEF QuietRun

\* A step to another place in ensure() or delete() that writes no NSTemplateSet.
LEMMA MovesQuietly ==
  ASSUME UNCHANGED <<nstt, mem, current>>,
         \/ pc' = pc
         \/ pc' \in Ensuring /\ pc \in Ensuring
         \/ pc' \in Deleting /\ pc \in Deleting
  PROVE  QuietWrite /\ QuietRun
  BY DEF QuietWrite, QuietRun, Ensuring, Deleting, CRDone, NSDone

\* clusterResourcesManager.ensure up to the record of its work
LEMMA ClusterResourcesQuiet ==
  ASSUME IndInv, EnsureClusterResources \/ ApplyClusterObjects \/ CleanupClusterObjects
                 \/ ClusterResourcesFault
  PROVE  Quiet
  <1>1. /\ UNCHANGED cached /\ UNCHANGED ns /\ pc \in Ensuring /\ pc' # "dFin"
        /\ TypeOK /\ mem.status \in Status
    BY StatusTypes DEF EnsureClusterResources, ApplyClusterObjects, CleanupClusterObjects,
       ClusterResourcesFault, UpdateStatus, ReturnError, Finish, FailWith, FailFrom,
       Ensuring, CRDone, NSDone, IndInv
  <1>2. QuietWrite /\ QuietRun
    <2>1. CASE EnsureClusterResources
      BY <1>1, <2>1, CRInProgressStatus, UpdatesQuietly, EndsQuietly
      DEF EnsureClusterResources, Ensuring, Deleting, CRDone, NSDone
    <2>2. CASE ApplyClusterObjects \/ CleanupClusterObjects
      <3>1. /\ UNCHANGED <<nstt, mem, current>>
            /\ pc' \in Ensuring /\ pc \in Ensuring
        BY <2>2 DEF ApplyClusterObjects, CleanupClusterObjects, Ensuring
      <3> QED
        BY <3>1, MovesQuietly
    <2>3. CASE ClusterResourcesFault
      BY <2>3, EndsQuietly DEF ClusterResourcesFault
    <2> QED
      BY <2>1, <2>2, <2>3
  <1>3. QuietObjs
    <2>1. CASE EnsureClusterResources
      BY <2>1 DEF EnsureClusterResources, QuietObjs, Enabled
    <2>2. ASSUME NEW done, clusterObjs' = clusterObjs \union done, lost' = lost \ done,
                 tried' = tried \union ({CRPart(mem.spec)} \ {CRPart(nstt.status)})
          PROVE  QuietObjs
      BY <2>2 DEF QuietObjs
    <2>3. ASSUME NEW done \in SUBSET Obsolete, clusterObjs' = clusterObjs \ done,
                 UNCHANGED <<tried, lost>>, pc = "crClean"
          PROVE  QuietObjs
      <3>1. tried = {} => Enabled(nstt.status) = Enabled(mem.spec)
        BY <2>3 DEF IndInv, ClusterStepOK, CRPart, Enabled
      <3> QED
        BY <2>3, <3>1 DEF QuietObjs, Obsolete
    <2>4. CASE UNCHANGED objVars
      BY <2>4 DEF QuietObjs
    <2>5. CASE ApplyClusterObjects
      BY <2>2, <2>5 DEF ApplyClusterObjects
    <2>6. CASE CleanupClusterObjects
      BY <2>3, <2>6 DEF CleanupClusterObjects
    <2>7. CASE ClusterResourcesFault
      BY <2>2, <2>3, <2>4, <2>7 DEF ClusterResourcesFault
    <2> QED
      BY <2>1, <2>5, <2>6, <2>7
  <1> QED
    BY <1>1, <1>2, <1>3 DEF Quiet

\* namespacesManager.ensure and spaceRolesManager.ensure, setStatusReady
LEMMA EnsureQuiet ==
  ASSUME IndInv,
         \/ EnsureNamespaces \/ AnnounceNamespace \/ DeprovisionNamespace
         \/ EnsureNamespaceResource \/ DeleteObsoleteInner \/ ApplyInner
         \/ LabelNamespace \/ RecordNamespaces \/ SetProvisionedNamespaces
         \/ EnsureSpaceRoles \/ NextNamespace \/ ApplySpaceRoles
         \/ DeleteObsoleteGrants \/ AnnotateNamespace \/ RecordSpaceRoles
         \/ SetStatusReady \/ NamespacesFault \/ SpaceRolesFault
  PROVE  Quiet
  <1>1. /\ cached' = cached /\ clusterObjs' = clusterObjs /\ tried' = tried /\ lost' = lost
        /\ pc \in Ensuring
    BY DEF EnsureNamespaces, AnnounceNamespace, DeprovisionNamespace,
       EnsureNamespaceResource, DeleteObsoleteInner, ApplyInner, LabelNamespace,
       RecordNamespaces, SetProvisionedNamespaces, EnsureSpaceRoles, NextNamespace,
       ApplySpaceRoles, DeleteObsoleteGrants, AnnotateNamespace, RecordSpaceRoles,
       SetStatusReady, NamespacesFault, SpaceRolesFault, Ensuring, CRDone, NSDone
  <1>2. TypeOK /\ mem.status \in Status
    BY StatusTypes DEF IndInv
  <1>3. QuietWrite /\ QuietRun /\ pc' # "dFin"
    <2>1. CASE EnsureNamespaces \/ DeleteObsoleteInner \/ EnsureSpaceRoles \/ DeleteObsoleteGrants
      <3>1. UNCHANGED <<nstt, mem, current>> /\ pc' \in Ensuring
        BY <2>1 DEF EnsureNamespaces, DeleteObsoleteInner, EnsureSpaceRoles,
           DeleteObsoleteGrants, Ensuring, CRDone, NSDone
      <3> QED
        BY <1>1, <3>1, MovesQuietly DEF Ensuring, CRDone, NSDone
    <2>2. CASE ApplyInner \/ ApplySpaceRoles \/ AnnotateNamespace
      <3>1. \/ UNCHANGED <<nstt, mem, current>> /\ pc' \in Ensuring
            \/ \E reason : FailWith(reason)
            \/ Finish(FALSE) /\ UNCHANGED <<nstt, synced>>
        BY <2>2 DEF ApplyInner, ApplySpaceRoles, AnnotateNamespace, Ensuring, CRDone, NSDone
      <3> QED
        BY <1>1, <3>1, MovesQuietly, EndsQuietly DEF Ensuring, CRDone, NSDone
    <2>3. CASE DeprovisionNamespace \/ EnsureNamespaceResource \/ LabelNamespace
               \/ NamespacesFault \/ SpaceRolesFault
      <3>1. \/ \E reason : FailWith(reason)
            \/ Finish(FALSE) /\ UNCHANGED <<nstt, synced>>
            \/ ReturnError
        BY <2>3 DEF DeprovisionNamespace, EnsureNamespaceResource, LabelNamespace,
           NamespacesFault, SpaceRolesFault
      <3> QED
        BY <3>1, EndsQuietly
    <2>4. ASSUME NEW st \in Status, NEW next \in Ensuring, CRPart(st) = CRPart(mem.status),
                 UpdateStatus(st, next)
          PROVE  QuietWrite /\ QuietRun /\ pc' # "dFin"
      BY <1>1, <2>4, UpdatesQuietly DEF Ensuring, Deleting, CRDone, NSDone
    <2>5. {"nsDelete", "nsCreate", "nsObsolete", "prov", "sr", "srApply", "srRev", "ready"}
             \subseteq Ensuring
      BY DEF Ensuring, CRDone, NSDone
    <2>6. ASSUME ReturnError PROVE QuietWrite /\ QuietRun /\ pc' # "dFin"
      BY <2>6, EndsQuietly
    <2>7. CASE AnnounceNamespace
      <3>1. \/ ReturnError
            \/ \E next \in {"nsDelete", "nsCreate", "nsObsolete"} : UpdateStatus(NSInProgress, next)
        BY <2>7 DEF AnnounceNamespace
      <3> QED
        BY <1>2, <2>4, <2>5, <2>6, <3>1, NSInProgressStatus
    <2>8. CASE RecordNamespaces \/ RecordSpaceRoles
      <3>1. /\ CRPart(NSRecorded) = CRPart(mem.status) /\ CRPart(SRRecorded) = CRPart(mem.status)
            /\ NSRecorded \in Status /\ SRRecorded \in Status
        BY <1>2, StatusTypes DEF NSRecorded, SRRecorded, CRPart, Status
      <3> QED
        BY <2>4, <2>5, <2>6, <2>8, <3>1 DEF RecordNamespaces, RecordSpaceRoles
    <2>9. CASE SetProvisionedNamespaces
      <3> DEFINE st == IF Present(nsCached) = {} THEN mem.status
                       ELSE [mem.status EXCEPT !.prov = Present(nsCached)]
      <3>1. st \in Status /\ CRPart(st) = CRPart(mem.status)
        BY <1>2 DEF Status, CRPart, Present
      <3>2. ReturnError \/ UpdateStatus(st, "sr")
        BY <2>9 DEF SetProvisionedNamespaces
      <3> QED
        BY <2>4, <2>5, <2>6, <3>1, <3>2
    <2>10. CASE NextNamespace
      <3>1. ReturnError \/ UpdateStatus(mem.status, "srRev")
            \/ \E t \in todo : UpdateStatus(SRInProgress(t), "srApply")
        BY <2>10 DEF NextNamespace
      <3> QED
        BY <1>2, <2>4, <2>5, <2>6, <3>1, SRInProgressStatus
    <2>11. CASE SetStatusReady
      <3>1. ASSUME Finish(FALSE), current, Persist(Readied)
            PROVE  QuietWrite /\ QuietRun /\ pc' = "idle"
        <4>1. /\ mem = nstt /\ nstt \in NSTemplateSet
              /\ CRPart(Readied) = CRPart(mem.status)
          BY <1>2, <3>1 DEF IndInv, CopiesOK, TypeOK, StoreTypes, Readied, CRPart, Status
        <4> QED
          BY <3>1, <4>1 DEF Persist, Finish, QuietWrite, QuietRun, NSTemplateSet
      <3> QED
        BY <2>6, <2>11, <3>1, EndsQuietly DEF SetStatusReady
    <2> QED
      BY <2>1, <2>2, <2>3, <2>7, <2>8, <2>9, <2>10, <2>11
  <1> QED
    BY <1>1, <1>3 DEF Quiet, QuietObjs

\* deleteNSTemplateSet, except for the steps that change the record or the finalizer
LEMMA DeleteQuiet ==
  ASSUME IndInv,
         \/ SetStatusTerminating \/ DeleteClusterObjects
         \/ EnsureNamespacesDeleted /\ pc' # "dFin"
         \/ DeleteClusterResourcesFault /\ pc # "dClear"
         \/ DeleteNamespacesFault
  PROVE  Quiet
  <1>1. cached' = cached /\ pc \in Deleting /\ Present(ns') \subseteq Present(ns)
    BY DEF SetStatusTerminating, DeleteClusterObjects, EnsureNamespacesDeleted, Deleting,
       DeleteClusterResourcesFault, DeleteNamespacesFault, DeleteNamespace, Present,
       IndInv, TypeOK, NsTypes, Namespace
  <1>2. QuietWrite /\ QuietRun /\ (pc' = "dFin" => pc = "dFin")
    <2>1. CASE SetStatusTerminating
      <3>1. CASE \E reason : FailWith(reason)
        BY <3>1, EndsQuietly
      <3>2. CASE \E next \in {"dNs", "dCR"} : UpdateStatus(Terminated, next)
        <4>1. Terminated \in Status /\ CRPart(Terminated) = CRPart(mem.status)
          BY StatusTypes DEF Terminated, CRPart, Status, IndInv
        <4>2. \A next \in {"dNs", "dCR"} : next \notin Ensuring \union {"finalizer", "dFin"}
                                           /\ next \in Deleting
          BY DEF Ensuring, Deleting, CRDone, NSDone
        <4> QED
          BY <1>1, <3>2, <4>1, <4>2, UpdatesQuietly
      <3> QED
        BY <2>1, <3>1, <3>2 DEF SetStatusTerminating
    <2>2. CASE DeleteClusterObjects
      <3>1. UNCHANGED <<nstt, mem, current>> /\ pc' \in Deleting /\ pc' # "dFin"
        BY <2>2 DEF DeleteClusterObjects, Deleting
      <3> QED
        BY <1>1, <3>1, MovesQuietly
    <2>3. CASE \/ EnsureNamespacesDeleted /\ pc' # "dFin"
               \/ DeleteClusterResourcesFault /\ pc # "dClear"
               \/ DeleteNamespacesFault
      <3>1. \/ \E b \in BOOLEAN : Finish(b) /\ UNCHANGED <<nstt, synced>>
            \/ ReturnError
            \/ \E reason : FailWith(reason)
        BY <2>3 DEF EnsureNamespacesDeleted, DeleteClusterResourcesFault, DeleteNamespacesFault
      <3> QED
        BY <3>1, EndsQuietly
    <2> QED
      BY <2>1, <2>2, <2>3
  <1> QED
    BY <1>1, <1>2 DEF Quiet

\* What others do to namespaces and cluster-scoped objects, and the other informers
LEMMA OthersQuiet ==
  ASSUME IndInv,
         \/ \E t \in Types : \/ AdminDeletesNamespace(t) \/ EmptyNamespace(t) \/ RemoveNamespace(t)
                             \/ SyncNamespace(t) \/ SyncRBAC(t)
                             \/ \E o \in RBAC \union Grants : UserDeletesRBAC(t, o)
         \/ \E o \in Losable : LoseClusterObject(o)
         \/ Resync
         \/ ControllerFault
         \/ UNCHANGED vars
  PROVE  Quiet
  <1>1. cached' = cached /\ Present(ns') \subseteq Present(ns)
    BY DEF AdminDeletesNamespace, EmptyNamespace, RemoveNamespace, SyncNamespace, SyncRBAC,
       UserDeletesRBAC, LoseClusterObject, Resync, ControllerFault, vars, DeleteNamespace,
       Present, NoNamespace, IndInv, TypeOK, NsTypes, Namespace
  <1>2. QuietObjs
    BY DEF AdminDeletesNamespace, EmptyNamespace, RemoveNamespace, SyncNamespace, SyncRBAC,
       UserDeletesRBAC, LoseClusterObject, Resync, ControllerFault, vars, QuietObjs
  <1>3. CASE ControllerFault
    <2>1. ReturnError \/ \E reason : FailWith(reason)
      BY <1>3 DEF ControllerFault
    <2> QED
      BY <1>1, <1>2, <2>1, EndsQuietly DEF Quiet
  <1>4. CASE ~ControllerFault
    <2>1. UNCHANGED <<nstt, mem, current>> /\ pc' = pc
      BY <1>4 DEF AdminDeletesNamespace, EmptyNamespace, RemoveNamespace, SyncNamespace, SyncRBAC,
         UserDeletesRBAC, LoseClusterObject, Resync, vars
    <2> QED
      BY <1>1, <1>2, <2>1, MovesQuietly DEF Quiet
  <1> QED
    BY <1>3, <1>4

\* Reconcile starts from what the cache holds.
LEMMA StartReconcileRecords ==
  ASSUME IndInv, FinalizerOK, RecordOK, StartReconcile
  PROVE  FinalizerOK' /\ RecordOK'
  <1>1. CASE UNCHANGED <<pc, mem, current>>
    <2>1. QuietWrite /\ QuietRun
      BY <1>1, MovesQuietly DEF StartReconcile
    <2> QED
      BY <1>1, <2>1, QuietKeeps DEF StartReconcile, Quiet, QuietObjs
  <1>2. CASE ~UNCHANGED <<pc, mem, current>>
    <2>1. /\ UNCHANGED <<nstt, objVars, ns, cached>> /\ mem' = cached
          /\ \/ pc' = "dTerm" /\ cached.life = "deleting"
             \/ pc' = "finalizer" /\ cached.life = "live"
             \/ pc' = "cr" /\ cached.life = "live" /\ cached.fin
      BY <1>2 DEF StartReconcile, IndInv, TypeOK, CacheTypes, NSTemplateSet
    <2>2. FinalizerOK'
      BY <2>1 DEF FinalizerOK, Ensuring, Deleting, CRDone, NSDone, Present
    <2>3. RecordOK'
      BY <2>1 DEF RecordOK, Ensuring, Deleting, CRDone, NSDone
    <2> QED
      BY <2>2, <2>3
  <1> QED
    BY <1>1, <1>2

\* addFinalizer
LEMMA AddFinalizerRecords ==
  ASSUME IndInv, FinalizerOK, RecordOK, AddFinalizer
  PROVE  FinalizerOK' /\ RecordOK'
  <1>1. CASE ReturnError
    BY <1>1, EndsQuietly, QuietKeeps DEF AddFinalizer, Quiet, QuietObjs
  <1>2. CASE ~ReturnError
    <2>1. /\ mem = nstt /\ current' = current /\ pc = "finalizer" /\ pc' = "cr"
          /\ nstt' = [nstt EXCEPT !.fin = TRUE] /\ mem' = [mem EXCEPT !.fin = TRUE]
          /\ nstt \in NSTemplateSet /\ UNCHANGED <<objVars, cached>>
      BY <1>2 DEF AddFinalizer, IndInv, CopiesOK, TypeOK, StoreTypes
    <2>2. /\ nstt'.life = nstt.life /\ nstt'.fin /\ nstt'.status = nstt.status
          /\ mem'.life = mem.life /\ mem'.spec = mem.spec /\ mem'.status = mem.status
      BY <2>1 DEF NSTemplateSet
    <2>3. FinalizerOK'
      BY <2>1, <2>2 DEF FinalizerOK, Ensuring, Deleting, CRDone, NSDone
    <2>4. RecordOK'
      BY <2>1, <2>2 DEF RecordOK, Ensuring, Deleting, CRDone, NSDone
    <2> QED
      BY <2>3, <2>4
  <1> QED
    BY <1>1, <1>2

\* updateStatusClusterResourcesRevisions: what is recorded was applied for the spec
\* that the cache shows as well.
LEMMA RecordClusterResourcesRecords ==
  ASSUME IndInv, FinalizerOK, RecordOK, RecordClusterResources
  PROVE  FinalizerOK' /\ RecordOK'
  <1>1. CASE ReturnError /\ UNCHANGED tried
    BY <1>1, EndsQuietly, QuietKeeps DEF RecordClusterResources, Quiet, QuietObjs
  <1>2. CASE UpdateStatus(CRRecorded, "ns")
    <2>1. /\ mem.status \in Status /\ CRRecorded \in Status
          /\ CRPart(CRRecorded) = CRPart(mem.spec) /\ Enabled(CRRecorded) = Enabled(mem.spec)
      BY StatusTypes DEF IndInv, CRRecorded, CRPart, Enabled, Status
    <2>2. CRRecorded # mem.status /\ pc = "crRev"
      BY <2>1 DEF IndInv, ClusterStepOK, CRChanged, RecordClusterResources
    <2>3. current /\ mem = nstt
      BY <1>2, <2>2 DEF UpdateStatus, IndInv, CopiesOK
    <2>4. /\ nstt' = [nstt EXCEPT !.status = CRRecorded]
          /\ mem' = [mem EXCEPT !.status = CRRecorded]
          /\ current' = current /\ pc' = "ns" /\ UNCHANGED <<cached, ns, clusterObjs, lost>>
      BY <1>2, <2>2 DEF UpdateStatus, Persist, RecordClusterResources
    <2>5. /\ nstt'.life = nstt.life /\ nstt'.fin = nstt.fin /\ nstt'.status = CRRecorded
          /\ mem'.life = mem.life /\ mem'.spec = mem.spec /\ mem'.status = CRRecorded
      BY <2>3, <2>4 DEF IndInv, TypeOK, StoreTypes, NSTemplateSet
    <2>6. cached.life = "live" /\ cached.spec = mem.spec
      BY <2>2, <2>3 DEF IndInv, LifeOK, FinalizerOK, RecordOK, Ensuring
    <2>7. FinalizerOK'
      BY <2>2, <2>4, <2>5 DEF FinalizerOK, Ensuring, Deleting, CRDone, NSDone
    <2>8. Enabled(mem.spec) \ lost \subseteq clusterObjs
      BY <2>2 DEF IndInv, ClusterStepOK
    <2>9. RecordOK'
      BY <2>1, <2>3, <2>4, <2>5, <2>6, <2>8 DEF RecordOK, Deleting
    <2> QED
      BY <2>7, <2>9
  <1> QED
    BY <1>1, <1>2 DEF RecordClusterResources

\* clearStatusClusterResources, whether or not it succeeds
LEMMA ClearRecords ==
  ASSUME IndInv, FinalizerOK, RecordOK,
         ClearClusterResources \/ (DeleteClusterResourcesFault /\ pc = "dClear")
  PROVE  FinalizerOK' /\ RecordOK'
  <1>1. /\ pc = "dClear" /\ UNCHANGED <<cached, ns>>
        /\ nstt \in NSTemplateSet /\ mem \in NSTemplateSet
        /\ CRCleared \in Status /\ CRCleared.cr = NoRef
    BY StatusTypes DEF ClearClusterResources, DeleteClusterResourcesFault, IndInv, TypeOK,
       StoreTypes, RunTypes, CRCleared, Status
  <1>2. cached.life # "live"
    BY <1>1 DEF FinalizerOK, Deleting
  <1>3. nstt'.life = nstt.life /\ nstt'.fin = nstt.fin
        /\ nstt'.status.cr \in {NoRef, nstt.status.cr}
    <2>1. \/ nstt' = nstt
          \/ \E st : nstt' = [nstt EXCEPT !.status = st] /\ st.cr = NoRef
      <3>1. CASE \E reason : FailFrom(CRCleared, reason)
        <4>1. PICK reason : FailFrom(CRCleared, reason)
          BY <3>1
        <4>2. CASE nstt' = [nstt EXCEPT !.status = [CRCleared EXCEPT !.reason = reason]]
          <5>1. [CRCleared EXCEPT !.reason = reason].cr = NoRef
            BY <1>1 DEF Status
          <5> QED
            BY <4>1, <4>2, <5>1 DEF FailFrom
        <4> QED
          BY <4>1, <4>2 DEF FailFrom
      <3>2. CASE UpdateStatus(CRCleared, "dNs")
        BY <1>1, <3>2 DEF UpdateStatus, Persist
      <3> QED
        BY <1>1, <3>1, <3>2 DEF ClearClusterResources, DeleteClusterResourcesFault
    <2> QED
      BY <1>1, <2>1 DEF NSTemplateSet
  <1>4. CASE pc' = "idle" /\ current' = FALSE
    <2>1. FinalizerOK'
      BY <1>1, <1>2, <1>3, <1>4 DEF FinalizerOK, Ensuring, Deleting, CRDone, NSDone, Present
    <2>2. RecordOK'
      BY <1>1, <1>2, <1>3, <1>4 DEF RecordOK, Ensuring, Deleting, CRDone, NSDone
    <2> QED
      BY <2>1, <2>2
  <1>5. CASE UpdateStatus(CRCleared, "dNs")
    <2>1. /\ pc' = "dNs" /\ current' = current /\ mem'.spec = mem.spec /\ mem'.status.cr = NoRef
      BY <1>1, <1>5 DEF UpdateStatus, NSTemplateSet
    <2>2. nstt'.status.cr = NoRef
      <3>1. CASE CRCleared = mem.status
        BY <1>1, <1>5, <3>1 DEF UpdateStatus, RecordOK, Deleting
      <3>2. CASE CRCleared # mem.status
        BY <1>1, <1>5, <3>2 DEF UpdateStatus, Persist, NSTemplateSet
      <3> QED
        BY <3>1, <3>2
    <2>3. FinalizerOK'
      BY <1>1, <1>2, <1>3, <2>1 DEF FinalizerOK, Ensuring, Deleting, CRDone, NSDone, Present
    <2>4. RecordOK'
      BY <1>1, <1>2, <1>3, <2>1, <2>2 DEF RecordOK, Ensuring, Deleting, CRDone, NSDone
    <2> QED
      BY <2>3, <2>4
  <1>6. \/ pc' = "idle" /\ current' = FALSE
        \/ UpdateStatus(CRCleared, "dNs")
    BY <1>1 DEF ClearClusterResources, DeleteClusterResourcesFault, FailWith, FailFrom, Finish
  <1> QED
    BY <1>4, <1>5, <1>6

\* The finalizer is removed after the last namespace.
LEMMA DeletionRecords ==
  ASSUME IndInv, ListsOK, FinalizerOK, RecordOK,
         RemoveFinalizer \/ (EnsureNamespacesDeleted /\ pc' = "dFin")
  PROVE  FinalizerOK' /\ RecordOK'
  <1>1. CASE RemoveFinalizer
    <2>1. CASE \E reason : FailWith(reason)
      BY <1>1, <2>1, EndsQuietly, QuietKeeps DEF RemoveFinalizer, Quiet, QuietObjs, Deleting
    <2>2. CASE ~\E reason : FailWith(reason)
      <3>1. /\ pc = "dFin" /\ pc' = "idle" /\ current' = FALSE /\ UNCHANGED <<cached, ns>>
            /\ nstt' = [nstt EXCEPT !.life = "gone", !.fin = FALSE] /\ nstt \in NSTemplateSet
        BY <1>1, <2>2 DEF RemoveFinalizer, Finish, IndInv, TypeOK, StoreTypes
      <3>2. nstt'.life = "gone" /\ nstt'.fin = FALSE /\ nstt'.status = nstt.status
        BY <3>1 DEF NSTemplateSet
      <3>3. cached.life # "live" /\ ("ns" \notin Lagging => Present(ns) = {})
        BY <3>1 DEF FinalizerOK, Deleting
      <3>4. FinalizerOK'
        BY <3>1, <3>2, <3>3 DEF FinalizerOK, Ensuring, Deleting, CRDone, NSDone, Present
      <3>5. RecordOK'
        BY <3>1, <3>2, <3>3 DEF RecordOK, Ensuring, Deleting, CRDone, NSDone
      <3> QED
        BY <3>4, <3>5
    <2> QED
      BY <2>1, <2>2
  <1>2. CASE EnsureNamespacesDeleted /\ pc' = "dFin"
    <2>1. /\ pc = "dNs" /\ UNCHANGED <<nstt, ns, objVars, mem, current, cached>>
          /\ Present(nsCached) = {} /\ NamespacesReadable
      BY <1>2 DEF EnsureNamespacesDeleted, Finish, FailWith, FailFrom, ReturnError
    <2>2. "ns" \notin Lagging => Present(ns) = {}
      BY <2>1 DEF NamespacesReadable, ListsOK, Present
    <2>3. FinalizerOK'
      BY <1>2, <2>1, <2>2 DEF FinalizerOK, Ensuring, Deleting, CRDone, NSDone, Present
    <2>4. RecordOK'
      BY <1>2, <2>1 DEF RecordOK, Ensuring, Deleting, CRDone, NSDone
    <2> QED
      BY <2>3, <2>4
  <1> QED
    BY <1>1, <1>2

\* The cache catches up, or is filled anew after a crash.
LEMMA CacheRecords ==
  ASSUME IndInv, FinalizerOK, RecordOK, SyncNSTemplateSet \/ Crash
  PROVE  FinalizerOK' /\ RecordOK'
  <1>1. /\ cached' = nstt /\ UNCHANGED <<nstt, ns, objVars>>
        /\ \/ UNCHANGED <<pc, mem, current>>
           \/ pc' = "idle" /\ current' = FALSE
    BY DEF SyncNSTemplateSet, Crash, Finish
  <1>2. FinalizerOK'
    BY <1>1 DEF FinalizerOK, IndInv, LifeOK, Ensuring, Deleting, CRDone, NSDone, Present
  <1>3. nstt.life = "live" /\ tried = {} => Enabled(nstt.status) \ lost \subseteq clusterObjs
    BY DEF IndInv, ClusterAccounting
  <1>4. current => mem = nstt
    BY DEF IndInv, CopiesOK
  <1>5. CASE UNCHANGED <<pc, mem, current>>
    BY <1>1, <1>2, <1>3, <1>4, <1>5 DEF RecordOK
  <1>6. CASE pc' = "idle" /\ current' = FALSE
    BY <1>1, <1>2, <1>3, <1>6 DEF RecordOK, Ensuring, Deleting, CRDone, NSDone
  <1> QED
    BY <1>1, <1>5, <1>6

\* A write of the host leaves the status and the finalizer alone.
LEMMA HostRecords ==
  ASSUME IndInv, FinalizerOK, RecordOK, HostUpdates \/ HostDeletes
  PROVE  FinalizerOK' /\ RecordOK'
  <1>1. /\ nstt'.status = nstt.status /\ nstt'.fin = nstt.fin /\ (nstt'.life = "gone" => ~nstt.fin)
        /\ UNCHANGED <<ns, objVars, cached, pc, mem>> /\ current' = FALSE
    BY DEF HostUpdates, HostDeletes, IndInv, TypeOK, StoreTypes, NSTemplateSet
  <1>2. FinalizerOK'
    BY <1>1 DEF FinalizerOK, Present
  <1>3. RecordOK'
    BY <1>1 DEF RecordOK
  <1> QED
    BY <1>2, <1>3

\* The finalizer and the records, at every step.
LEMMA NextRecords ==
  IndInv /\ ListsOK /\ FinalizerOK /\ RecordOK /\ [Next]_vars => FinalizerOK' /\ RecordOK'
  <1> SUFFICES ASSUME IndInv, ListsOK, FinalizerOK, RecordOK, [Next]_vars
               PROVE  FinalizerOK' /\ RecordOK'
    OBVIOUS
  <1>1. CASE Reconcile
    BY <1>1, StartReconcileRecords, AddFinalizerRecords, RecordClusterResourcesRecords,
       ClusterResourcesQuiet, EnsureQuiet, QuietKeeps DEF Reconcile
  <1>2. CASE Delete
    BY <1>2, DeleteQuiet, QuietKeeps, ClearRecords, DeletionRecords DEF Delete
  <1>3. CASE Fault
    BY <1>3, OthersQuiet, ClusterResourcesQuiet, EnsureQuiet, DeleteQuiet, QuietKeeps,
       ClearRecords, CacheRecords DEF Fault
  <1>4. CASE Others
    BY <1>4, HostRecords, OthersQuiet, QuietKeeps DEF Others
  <1>5. CASE Cluster
    BY <1>5, CacheRecords, OthersQuiet, QuietKeeps DEF Cluster
  <1>6. CASE UNCHANGED vars
    BY <1>6, OthersQuiet, QuietKeeps
  <1> QED
    BY <1>1, <1>2, <1>3, <1>4, <1>5, <1>6 DEF Next

---------------------------------------------------------------------------
(* The namespaces that Reconcile has dealt with, when the caches are fresh *)
(* and users leave the namespaces alone.                                   *)

Undisturbed == ~Intruders /\ Lagging \intersect {"ns", "rbac"} = {}

\* Reconcile is not in the part where it relies on the namespaces.
LEMMA ElsewhereNamespaces ==
  ASSUME pc' \notin NSDone \union {"nsRev"}
  PROVE  NamespacesOK'
  BY DEF NamespacesOK, NSDone, SRLoop

\* A step that leaves the namespaces, the list of them and the spec alone.
LEMMA SameNamespaces ==
  ASSUME NamespacesOK, UNCHANGED <<ns, nsObjs, snap, todo, pickT>>, mem'.spec = mem.spec,
         \/ pc' = pc
         \/ pc = "nsRev" /\ pc' = "prov"
         \/ pc = "srRev" /\ pc' = "ready"
         \/ pc = "srStatus" /\ pc' = "srRev" /\ todo = {}
  PROVE  NamespacesOK'
  BY DEF NamespacesOK, NSDone, SRLoop

\* Every namespace of the spec is labelled and has its Roles and RoleBindings when
\* nextNamespaceToProvisionOrUpdate finds none to work on.
LEMMA EnsureNamespacesNamespaces ==
  ASSUME IndInv, ListsOK, Undisturbed, EnsureNamespaces
  PROVE  NamespacesOK'
  <1>1. CASE pc' = "nsStatus"
    BY <1>1, ElsewhereNamespaces DEF NSDone
  <1>2. CASE pc' # "nsStatus"
    <2>1. pc' = "nsRev" /\ Pending(nsCached) = {} /\ UNCHANGED <<ns, nsObjs, mem>>
      BY <1>2 DEF EnsureNamespaces
    <2>2. \A t \in Types : nsCached[t] = ns[t] /\ rbCached[t] = RBACIn(t)
      BY DEF EnsureNamespaces, ListNamespaces, NamespacesReadable, Undisturbed, ListsOK
    <2>3. ASSUME NEW r \in mem.spec.ns, ns[NSType[r]].phase = "Active"
          PROVE  ns[NSType[r]].tref = r /\ NSObjs[r] \intersect RBAC \subseteq nsObjs[NSType[r]]
      <3>1. NSType[r] \in Types
        BY StatusTypes, ConstantsAssumption DEF IndInv, Spec4
      <3>2. isUpToDateAndProvisioned(r, nsCached)
        BY <2>1, <2>2, <2>3, <3>1 DEF Pending
      <3> QED
        BY <2>2, <3>1, <3>2 DEF isUpToDateAndProvisioned, RBACIn
    <2> QED
      BY <2>1, <2>3 DEF NamespacesOK, SRLoop
  <1> QED
    BY <1>1, <1>2

\* A status update in ensure() keeps the spec Reconcile works on.
LEMMA UpdateSpec ==
  ASSUME IndInv, NEW st, NEW next, UpdateStatus(st, next)
  PROVE  mem'.spec = mem.spec /\ pc' = next
  BY DEF UpdateStatus, IndInv, TypeOK, RunTypes, NSTemplateSet

\* Recording the revisions and starting the loop over the namespaces.
LEMMA RecordNamespacesNamespaces ==
  ASSUME IndInv, ListsOK, NamespacesOK, Undisturbed,
         RecordNamespaces \/ SetProvisionedNamespaces \/ EnsureSpaceRoles \/ RecordSpaceRoles
  PROVE  NamespacesOK'
  <1>1. CASE pc' = "idle"
    BY <1>1, ElsewhereNamespaces DEF NSDone
  <1>2. CASE (RecordNamespaces \/ RecordSpaceRoles) /\ pc' # "idle"
    <2>1. /\ UNCHANGED <<ns, nsObjs, snap, todo, pickT>> /\ mem'.spec = mem.spec
          /\ \/ pc = "nsRev" /\ pc' = "prov"
             \/ pc = "srRev" /\ pc' = "ready"
      BY <1>2, UpdateSpec DEF RecordNamespaces, RecordSpaceRoles, ReturnError, Finish
    <2> QED
      BY <2>1, SameNamespaces
  <1>3. CASE SetProvisionedNamespaces /\ pc' # "idle"
    <2>1. /\ UNCHANGED <<ns, nsObjs>> /\ mem'.spec = mem.spec /\ pc = "prov" /\ pc' = "sr"
      BY <1>3, UpdateSpec DEF SetProvisionedNamespaces, ReturnError, Finish
    <2> QED
      BY <2>1 DEF NamespacesOK, NSDone, SRLoop
  <1>4. CASE EnsureSpaceRoles
    <2>1. \A t \in Types : nsCached[t] = ns[t]
      BY <1>4 DEF EnsureSpaceRoles, ListNamespaces, NamespacesReadable, Undisturbed, ListsOK
    <2>2. /\ UNCHANGED <<ns, nsObjs, mem>> /\ pc = "sr" /\ pc' = "srStatus"
          /\ snap' = nsCached /\ todo' = Present(nsCached)
      BY <1>4 DEF EnsureSpaceRoles, ListNamespaces
    <2>3. \A t \in Types : ns[t].phase = "Active" => t \in todo'
      BY <2>1, <2>2 DEF Present
    <2> QED
      BY <2>1, <2>2, <2>3 DEF NamespacesOK, NSDone, SRLoop
  <1> QED
    BY <1>1, <1>2, <1>3, <1>4

\* The loop over the namespaces: each one that is left behind has its space roles.
LEMMA LoopNamespaces ==
  ASSUME IndInv, NamespacesOK,
         NextNamespace \/ ApplySpaceRoles \/ DeleteObsoleteGrants \/ AnnotateNamespace
  PROVE  NamespacesOK'
  <1>1. CASE pc' = "idle"
    BY <1>1, ElsewhereNamespaces DEF NSDone
  <1>2. CASE NextNamespace /\ pc' # "idle"
    <2>1. /\ UNCHANGED <<ns, nsObjs, snap, todo>> /\ mem'.spec = mem.spec /\ pc = "srStatus"
          /\ \/ pc' = "srRev" /\ todo = {} /\ pickT' = pickT
             \/ pc' = "srApply"
      BY <1>2, UpdateSpec DEF NextNamespace, ReturnError, Finish
    <2> QED
      BY <2>1 DEF NamespacesOK, NSDone, SRLoop
  <1>3. CASE ApplySpaceRoles /\ pc' # "idle"
    <2>1. /\ UNCHANGED <<ns, snap, todo, pickT, mem>> /\ pc = "srApply" /\ pc' = "srObsolete"
          /\ nsObjs' = [nsObjs EXCEPT ![pickT] = nsObjs[pickT] \union GrantsOf(mem.spec.roles)]
      BY <1>3 DEF ApplySpaceRoles, FailWith, FailFrom, Finish, PutObjects, SetObjects
    <2>2. nsObjs \in [Types -> SUBSET (InnerObjs \union Grants)] /\ pickT \in Types
      BY <2>1 DEF IndInv, PickOK, TypeOK, InnerTypes
    <2>3. /\ GrantsOf(mem.spec.roles) \subseteq nsObjs'[pickT]
          /\ \A t \in Types : nsObjs[t] \subseteq nsObjs'[t]
      BY <2>1, <2>2
    <2>4. \A r \in mem.spec.ns : NSType[r] \in Types
      BY StatusTypes, ConstantsAssumption DEF IndInv, Spec4
    <2> QED
      BY <2>1, <2>3, <2>4 DEF NamespacesOK, NSDone, SRLoop
  <1>4. CASE DeleteObsoleteGrants
    <2>1. /\ UNCHANGED <<ns, snap, todo, pickT, mem>> /\ pc = "srObsolete" /\ pc' = "srAnno"
          /\ nsObjs' = [nsObjs EXCEPT ![pickT] = nsObjs[pickT] \ ObsoleteGrants]
      BY <1>4 DEF DeleteObsoleteGrants, DropObjects, SetObjects
    <2>2. nsObjs \in [Types -> SUBSET (InnerObjs \union Grants)] /\ pickT \in Types
      BY <2>1 DEF IndInv, PickOK, TypeOK, InnerTypes
    <2>3. \A t \in Types : nsObjs[t] \ ObsoleteGrants \subseteq nsObjs'[t]
      BY <2>1, <2>2
    <2>4. ObsoleteGrants \subseteq Grants /\ ObsoleteGrants \intersect GrantsOf(mem.spec.roles) = {}
      BY <2>2, ConstantsAssumption
      DEF ObsoleteGrants, GrantsOf, IndInv, TypeOK, ListTypes, Namespace
    <2>5. \A r \in mem.spec.ns : NSType[r] \in Types /\ NSObjs[r] \intersect Grants = {}
      BY StatusTypes, ConstantsAssumption, ObjectsAssumption DEF IndInv, Spec4
    <2>6. \A t \in Types : GrantsOf(mem.spec.roles) \subseteq nsObjs[t]
                              => GrantsOf(mem.spec.roles) \subseteq nsObjs'[t]
      BY <2>3, <2>4
    <2>7. \A r \in mem.spec.ns : NSObjs[r] \intersect RBAC \subseteq nsObjs[NSType[r]]
                              => NSObjs[r] \intersect RBAC \subseteq nsObjs'[NSType[r]]
      BY <2>3, <2>4, <2>5
    <2> QED
      BY <2>1, <2>6, <2>7 DEF NamespacesOK, NSDone, SRLoop
  <1>5. CASE AnnotateNamespace /\ pc' # "idle"
    <2>1. /\ UNCHANGED <<ns, nsObjs, snap, mem>> /\ pc = "srAnno" /\ pc' = "srStatus"
          /\ snap[pickT].anno = mem.spec.roles /\ todo' = todo \ {pickT}
      BY <1>5 DEF AnnotateNamespace, RolesChanged, Finish, FailWith, FailFrom
    <2> QED
      BY <2>1 DEF NamespacesOK, NSDone, SRLoop
  <1> QED
    BY <1>1, <1>2, <1>3, <1>4, <1>5

\* The namespaces that Reconcile has dealt with, at every step.
LEMMA NextNamespaces ==
  IndInv /\ ListsOK /\ NamespacesOK /\ Undisturbed /\ [Next]_vars => NamespacesOK'
  <1> SUFFICES ASSUME IndInv, ListsOK, NamespacesOK, Undisturbed, [Next]_vars
               PROVE  NamespacesOK'
    OBVIOUS
  <1>1. CASE Reconcile
    <2>1. CASE \/ StartReconcile \/ AddFinalizer \/ EnsureClusterResources \/ ApplyClusterObjects
               \/ CleanupClusterObjects \/ RecordClusterResources \/ AnnounceNamespace
               \/ DeprovisionNamespace \/ EnsureNamespaceResource \/ DeleteObsoleteInner
               \/ ApplyInner \/ LabelNamespace \/ SetStatusReady
      <3>1. pc' \notin NSDone \union {"nsRev"}
        BY <2>1 DEF StartReconcile, AddFinalizer, EnsureClusterResources, ApplyClusterObjects,
           CleanupClusterObjects, RecordClusterResources, AnnounceNamespace,
           DeprovisionNamespace, EnsureNamespaceResource, DeleteObsoleteInner, ApplyInner,
           LabelNamespace, SetStatusReady, UpdateStatus, ReturnError, FailWith, FailFrom, Finish,
           NSDone
      <3> QED
        BY <3>1, ElsewhereNamespaces
    <2>2. CASE EnsureNamespaces
      BY <2>2, EnsureNamespacesNamespaces
    <2>3. CASE RecordNamespaces \/ SetProvisionedNamespaces \/ EnsureSpaceRoles \/ RecordSpaceRoles
      BY <2>3, RecordNamespacesNamespaces
    <2>4. CASE NextNamespace \/ ApplySpaceRoles \/ DeleteObsoleteGrants \/ AnnotateNamespace
      BY <2>4, LoopNamespaces
    <2> QED
      BY <1>1, <2>1, <2>2, <2>3, <2>4 DEF Reconcile
  <1>2. CASE Delete
    <2>1. pc' \notin NSDone \union {"nsRev"}
      BY <1>2 DEF Delete, SetStatusTerminating, DeleteClusterObjects, ClearClusterResources,
         EnsureNamespacesDeleted, RemoveFinalizer, UpdateStatus, ReturnError, FailWith, FailFrom,
         Finish, NSDone
    <2> QED
      BY <2>1, ElsewhereNamespaces
  <1>3. CASE Fault
    <2>1. pc' = "idle"
      BY <1>3 DEF Fault, ControllerFault, ClusterResourcesFault, NamespacesFault, SpaceRolesFault,
         DeleteClusterResourcesFault, DeleteNamespacesFault, Crash, ReturnError, FailWith,
         FailFrom, Finish
    <2> QED
      BY <2>1, ElsewhereNamespaces DEF NSDone
  <1>4. CASE Others \/ SyncNSTemplateSet \/ Resync \/ UNCHANGED vars
             \/ \E t \in Types : SyncNamespace(t) \/ SyncRBAC(t)
    <2>1. UNCHANGED <<ns, nsObjs, snap, todo, pickT, mem, pc>>
      BY <1>4 DEF Others, HostUpdates, HostDeletes, AdminDeletesNamespace, UserDeletesRBAC,
         LoseClusterObject, SyncNSTemplateSet, Resync, SyncNamespace, SyncRBAC, vars, Undisturbed
    <2> QED
      BY <2>1, SameNamespaces
  <1>5. ASSUME NEW t \in Types, EmptyNamespace(t) \/ RemoveNamespace(t)
        PROVE  NamespacesOK'
    <2>1. /\ UNCHANGED <<snap, todo, pickT, mem, pc>>
          /\ \A u \in Types : ns'[u].phase = "Active"
                => ns'[u] = ns[u] /\ nsObjs'[u] = nsObjs[u] /\ ns[u].phase = "Active"
      BY <1>5 DEF EmptyNamespace, RemoveNamespace, DropObjects, SetObjects, NoNamespace,
         IndInv, TypeOK, NsTypes, InnerTypes
    <2>2. \A r \in mem.spec.ns : NSType[r] \in Types
      BY StatusTypes, ConstantsAssumption DEF IndInv, Spec4
    <2> QED
      BY <2>1, <2>2 DEF NamespacesOK
  <1> QED
    BY <1>1, <1>2, <1>3, <1>4, <1>5 DEF Next, Cluster

---------------------------------------------------------------------------
(* The theorems.                                                           *)

LEMMA InitOrderInv == Init => OrderInv
  <1> SUFFICES ASSUME Init PROVE OrderInv
    OBVIOUS
  <1>1. IndInv
    BY InitIndInv
  <1>2. ListsOK
    BY DEF Init, ListsOK, NoSnap, RBACIn
  <1>3. /\ nstt.life = "live" /\ ~nstt.fin /\ nstt.status = NoStatus /\ cached = nstt
        /\ pc = "idle" /\ current = FALSE /\ Present(ns) = {}
    BY DEF Init, NoSnap, NoNamespace, Present
  <1>4. FinalizerOK
    BY <1>3 DEF FinalizerOK, Ensuring, Deleting, CRDone, NSDone
  <1>5. Enabled(nstt.status) = {}
    BY <1>3 DEF Enabled, NoStatus, CRObjsOf
  <1>6. RecordOK
    BY <1>3, <1>5 DEF RecordOK, Ensuring, Deleting, CRDone, NSDone
  <1>7. NamespacesOK
    BY <1>3 DEF NamespacesOK, NSDone, SRLoop
  <1> QED
    BY <1>1, <1>2, <1>4, <1>6, <1>7 DEF OrderInv

LEMMA NextOrderInv == OrderInv /\ [Next]_vars => OrderInv'
  <1> SUFFICES ASSUME OrderInv, [Next]_vars PROVE OrderInv'
    OBVIOUS
  <1>1. IndInv /\ ListsOK /\ FinalizerOK /\ RecordOK
    BY DEF OrderInv
  <1>2. IndInv'
    BY <1>1, NextIndInv
  <1>3. ListsOK'
    BY <1>1, NextLists
  <1>4. FinalizerOK' /\ RecordOK'
    BY <1>1, NextRecords
  <1>5. Undisturbed => NamespacesOK'
    BY <1>1, NextNamespaces DEF OrderInv, Undisturbed
  <1> QED
    BY <1>2, <1>3, <1>4, <1>5 DEF OrderInv, Undisturbed

\* Whatever the host, users and the informers do between two steps of Reconcile, the
\* finalizer is there while namespaces may be made, what copies of the status record is
\* out of date only where that shows, and the namespaces Reconcile has dealt with are
\* complete: the invariant from which the theorems below follow.
THEOREM OrderInvariance == Spec => []OrderInv
  BY InitOrderInv, NextOrderInv, PTL DEF Spec

\* The finalizer holds the NSTemplateSet until its last namespace is gone: whatever
\* fails or crashes, none of them is orphaned while the namespace cache is fresh.
THEOREM NoOrphans == Spec => []NoOrphanedNamespaces
  <1>1. OrderInv => NoOrphanedNamespaces
    BY DEF OrderInv, FinalizerOK, NoOrphanedNamespaces
  <1> QED
    BY <1>1, OrderInvariance, PTL

\* Only a Reconcile that is done with the cluster-scoped resources makes a namespace.
LEMMA NewNamespaces ==
  ASSUME IndInv, [Next]_vars
  PROVE  pc \in CRDone \/ Present(ns') \subseteq Present(ns)
  <1>1. CASE Reconcile
    BY <1>1 DEF Reconcile, StartReconcile, AddFinalizer, EnsureClusterResources,
       ApplyClusterObjects, CleanupClusterObjects, RecordClusterResources, EnsureNamespaces,
       AnnounceNamespace, DeprovisionNamespace, EnsureNamespaceResource, DeleteObsoleteInner,
       ApplyInner, LabelNamespace, RecordNamespaces, SetProvisionedNamespaces, EnsureSpaceRoles,
       NextNamespace, ApplySpaceRoles, DeleteObsoleteGrants, AnnotateNamespace, RecordSpaceRoles,
       SetStatusReady, CRDone, NSDone
  <1>2. CASE Delete
    BY <1>2 DEF Delete, SetStatusTerminating, DeleteClusterObjects, ClearClusterResources,
       EnsureNamespacesDeleted, RemoveFinalizer, DeleteNamespace, Present, IndInv, TypeOK,
       NsTypes, Namespace
  <1>3. CASE Fault
    BY <1>3 DEF Fault, ControllerFault, ClusterResourcesFault, NamespacesFault, SpaceRolesFault,
       DeleteClusterResourcesFault, DeleteNamespacesFault, Crash
  <1>4. CASE Others
    BY <1>4, OthersQuiet DEF Others, HostUpdates, HostDeletes, AdminDeletesNamespace,
       UserDeletesRBAC, LoseClusterObject, DeleteNamespace, Present, IndInv, TypeOK, NsTypes,
       Namespace
  <1>5. CASE Cluster
    BY <1>5 DEF Cluster, EmptyNamespace, RemoveNamespace, SyncNSTemplateSet, SyncNamespace,
       SyncRBAC, Resync, NoNamespace, Present, IndInv, TypeOK, NsTypes
  <1>6. CASE UNCHANGED vars
    BY <1>6 DEF vars
  <1> QED
    BY <1>1, <1>2, <1>3, <1>4, <1>5, <1>6 DEF Next

\* Quotas come before namespaces: although the operator decides from a cached status
\* that the cluster-scoped resources are up to date, the objects of the spec it works
\* on are in place whenever it makes a namespace, unless somebody removed them.
THEOREM QuotaFirst == Spec => QuotaBeforeNamespace
  <1> DEFINE Quota == \A t \in Types :
               ns[t].phase = "None" /\ ns'[t].phase = "Active" /\ tried = {}
                  => Enabled(mem.spec) \ lost \subseteq clusterObjs
  <1>1. ASSUME OrderInv, [Next]_vars PROVE Quota
    <2> SUFFICES ASSUME NEW t \in Types, ns[t].phase = "None", ns'[t].phase = "Active", tried = {}
                 PROVE  Enabled(mem.spec) \ lost \subseteq clusterObjs
      OBVIOUS
    <2>1. pc \in CRDone
      BY <1>1, NewNamespaces DEF OrderInv, Present
    <2>2. CRPart(nstt.status) = CRPart(mem.spec) /\ Enabled(nstt.status) \ lost \subseteq clusterObjs
      BY <1>1, <2>1 DEF OrderInv, IndInv, ProgressOK, RecordOK, Ensuring
    <2> QED
      BY <2>2 DEF CRPart, Enabled
  <1> QED
    BY <1>1, OrderInvariance, PTL DEF Spec, QuotaBeforeNamespace

\* A deletion takes the cluster-scoped objects first: although the operator goes by a
\* cached status, none that is recorded is left when it removes a namespace, and none at
\* all unless an application was begun and never recorded.
THEOREM DeletedInOrder == Spec => ClusterResourcesDeletedFirst
  <1> DEFINE Done == pc = "dNs" /\ Present(ns) # {} /\ ns' # ns /\ pc' = "idle"
                        => clusterObjs \intersect CRObjsOf(nstt.status.cr) = {}
                           /\ (tried = {} => clusterObjs = {})
  <1>1. ASSUME OrderInv PROVE Done
    <2> SUFFICES ASSUME pc = "dNs"
                 PROVE  clusterObjs \intersect CRObjsOf(nstt.status.cr) = {}
                        /\ (tried = {} => clusterObjs = {})
      OBVIOUS
    <2>1. nstt.status.cr = NoRef
      BY <1>1 DEF OrderInv, IndInv, ClusterStepOK, RecordOK, Deleting
    <2> QED
      BY <1>1, <2>1 DEF OrderInv, IndInv, ClusterAccounting, CRObjsOf
  <1> QED
    BY <1>1, OrderInvariance, PTL DEF Spec, ClusterResourcesDeletedFirst

\* Ready is said of complete namespaces: those of the spec that are not terminating are
\* labelled, have their Roles and RoleBindings, are annotated with the space roles and
\* have all of their objects, although each was dealt with in an earlier step or in an
\* earlier Reconcile. (Fresh caches, and users who leave the namespaces alone.)
THEOREM ReadyComplete == Spec => ReadyNamespacesComplete
  <1> DEFINE Complete ==
               BecomesReady /\ ~Intruders /\ Lagging \intersect {"ns", "rbac"} = {} =>
                 \A r \in nstt'.spec.ns : ns[NSType[r]].phase = "Active" =>
                    /\ ns[NSType[r]].tref = r
                    /\ ns[NSType[r]].anno = nstt'.spec.roles
                    /\ (NSObjs[r] \intersect RBAC) \union GrantsOf(nstt'.spec.roles)
                          \subseteq nsObjs[NSType[r]]
  <1>1. ASSUME OrderInv, [Next]_vars PROVE Complete
    <2> SUFFICES ASSUME BecomesReady, ~Intruders, Lagging \intersect {"ns", "rbac"} = {},
                        NEW r \in nstt'.spec.ns, ns[NSType[r]].phase = "Active"
                 PROVE  /\ ns[NSType[r]].tref = r
                        /\ ns[NSType[r]].anno = nstt'.spec.roles
                        /\ (NSObjs[r] \intersect RBAC) \union GrantsOf(nstt'.spec.roles)
                              \subseteq nsObjs[NSType[r]]
      OBVIOUS
    <2>1. SetStatusReady
      BY <1>1, NoOtherReady DEF OrderInv
    <2>2. pc = "ready" /\ mem = nstt /\ nstt' = [nstt EXCEPT !.status = Readied]
      BY <1>1, <2>1 DEF SetStatusReady, BecomesReady, ReturnError, Persist, OrderInv, IndInv,
         CopiesOK
    <2>3. nstt'.spec = mem.spec
      BY <1>1, <2>2 DEF OrderInv, IndInv, TypeOK, StoreTypes, NSTemplateSet
    <2>4. r \in mem.spec.ns /\ NSType[r] \in Types
      BY <1>1, <2>3, StatusTypes, ConstantsAssumption DEF OrderInv, IndInv, Spec4
    <2> QED
      BY <1>1, <2>2, <2>3, <2>4 DEF OrderInv, NamespacesOK, NSDone, SRLoop
  <1> QED
    BY <1>1, OrderInvariance, PTL DEF Spec, ReadyNamespacesComplete

===========================================================================
