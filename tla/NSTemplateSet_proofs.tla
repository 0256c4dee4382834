----------------------- MODULE NSTemplateSet_proofs -----------------------
(***************************************************************************)
(* Proofs about NSTemplateSetController: IndInv is an inductive invariant, *)
(* from which TypeOK, ClusterAccounting and ReadyIsCurrent follow for all  *)
(* templates, tiers, types of namespaces and bounds.                       *)
(***************************************************************************)
EXTENDS NSTemplateSetController, TLAPS

USE DEF objVars, innerVars, nsVars, cacheVars, listVars

---------------------------------------------------------------------------
(* Types of the building blocks.                                           *)

\* The empty copy and the empty listing that an idle Reconcile holds are typed.
LEMMA BlankTypes == Blank \in NSTemplateSet /\ NoSnap \in [Types -> Namespace]
  <1>1. (CHOOSE s \in Specs : TRUE) \in Specs
    BY ConstantsAssumption
  <1> QED
    BY <1>1, ConstantsAssumption
    DEF Blank, NSTemplateSet, NoStatus, Status, Reasons, NoSnap, NoNamespace,
        Namespace

\* Returning from Reconcile resets its local state to typed values.
LEMMA FinishTypes ==
  ASSUME TypeOK, NEW b \in BOOLEAN, Finish(b)
  PROVE  RunTypes' /\ ListTypes'
  BY BlankTypes DEF TypeOK, RunTypes, ListTypes, Finish, PCs

\* Status().Update with a typed status keeps the stored and the local copy typed.
LEMMA UpdateTypes ==
  ASSUME TypeOK, NEW st \in Status, NEW next \in PCs, UpdateStatus(st, next)
  PROVE  StoreTypes' /\ RunTypes'
  BY DEF TypeOK, RunTypes, StoreTypes, UpdateStatus, Persist, NSTemplateSet

\* wrapErrorWithStatusUpdate keeps the types, whether or not it gets to record the failure.
LEMMA FailTypes ==
  ASSUME TypeOK, NEW st \in Status, NEW reason \in Reasons, FailFrom(st, reason)
  PROVE  StoreTypes' /\ RunTypes' /\ ListTypes'
  <1>1. [st EXCEPT !.reason = reason] \in Status
    BY DEF Status
  <1>2. StoreTypes'
    BY <1>1 DEF FailFrom, TypeOK, StoreTypes, NSTemplateSet
  <1> QED
    BY <1>2, FinishTypes DEF FailFrom

\* Every status that the status manager writes is typed.
LEMMA StatusTypes ==
  ASSUME TypeOK
  PROVE  /\ mem.status \in Status /\ mem.spec \in Spec4
         /\ setStatusProvisioningIfNotUpdating(mem.status) \in Status
         /\ setStatusUpdatingIfNotProvisioning(mem.status) \in Status
         /\ CRRecorded \in Status /\ CRCleared \in Status
         /\ NSRecorded \in Status /\ SRRecorded \in Status
         /\ Readied \in Status /\ Terminated \in Status
  <1>1. mem.status \in Status /\ mem.spec \in Spec4
    BY ConstantsAssumption DEF TypeOK, RunTypes, NSTemplateSet
  <1> QED
    BY <1>1 DEF Status, Spec4, Reasons, setStatusProvisioningIfNotUpdating,
       setStatusUpdatingIfNotProvisioning, CRRecorded, CRCleared, NSRecorded,
       SRRecorded, Readied, Terminated

---------------------------------------------------------------------------
(* What the ends of Reconcile and a status update do to the invariant.     *)

SafeInv ==
    /\ PickOK /\ CopiesOK /\ LifeOK /\ ClusterStepOK /\ ProgressOK
    /\ ClusterAccounting

DeletePCs == {"dTerm", "dCR", "dClear", "dNs", "dFin"}

\* Returning from Reconcile without a write keeps the invariant.
LEMMA StopKeeps ==
  ASSUME IndInv, NEW b \in BOOLEAN, Finish(b),
         UNCHANGED <<nstt, synced, cached, objVars>>
  PROVE  SafeInv'
  BY DEF IndInv, SafeInv, PickOK, CopiesOK, LifeOK, ClusterStepOK, ProgressOK,
     ClusterAccounting, Finish, NSDone, CRDone, Enabled

\* A failure is recorded with the cluster resources the status had before.
LEMMA FailEffects ==
  ASSUME IndInv, NEW st \in Status, NEW reason \in Reasons,
         CRPart(st) = CRPart(mem.status), FailFrom(st, reason), UNCHANGED cached
  PROVE  /\ PickOK' /\ CopiesOK' /\ LifeOK' /\ ClusterStepOK' /\ ProgressOK'
         /\ nstt'.life = nstt.life
         /\ nstt'.status.cr = nstt.status.cr /\ nstt'.status.feat = nstt.status.feat
  <1>1. /\ pc' = "idle" /\ current' = FALSE
        /\ nstt'.life = nstt.life /\ nstt'.fin = nstt.fin
        /\ nstt'.status.cr = nstt.status.cr /\ nstt'.status.feat = nstt.status.feat
        /\ (nstt' = nstt /\ synced' = synced) \/ synced' = FALSE
    BY DEF FailFrom, Finish, IndInv, CopiesOK, TypeOK, StoreTypes, RunTypes,
       NSTemplateSet, Status, CRPart
  <1>2. PickOK' /\ ClusterStepOK' /\ ProgressOK'
    BY <1>1 DEF PickOK, ClusterStepOK, ProgressOK, NSDone, CRDone
  <1>3. CopiesOK' /\ LifeOK'
    BY <1>1 DEF IndInv, CopiesOK, LifeOK
  <1> QED
    BY <1>1, <1>2, <1>3

\* Returning an error keeps the invariant, recorded in the status or not.
LEMMA FailKeeps ==
  ASSUME IndInv, NEW st \in Status, NEW reason \in Reasons,
         CRPart(st) = CRPart(mem.status), FailFrom(st, reason),
         UNCHANGED <<cached, objVars>>
  PROVE  SafeInv'
  BY FailEffects DEF IndInv, SafeInv, ClusterAccounting, Enabled

\* ... in particular with the status Reconcile has in memory.
LEMMA FailWithKeeps ==
  ASSUME IndInv, NEW reason \in Reasons, FailWith(reason),
         UNCHANGED <<cached, objVars>>
  PROVE  SafeInv' /\ StoreTypes' /\ RunTypes' /\ ListTypes'
  <1>1. mem.status \in Status /\ TypeOK
    BY StatusTypes DEF IndInv
  <1> QED
    BY <1>1, FailKeeps, FailTypes DEF FailWith

\* So does an error that is returned as it is.
LEMMA ReturnErrorKeeps ==
  ASSUME IndInv, ReturnError, UNCHANGED <<cached, objVars>>
  PROVE  SafeInv' /\ StoreTypes' /\ RunTypes' /\ ListTypes'
  BY StopKeeps, FinishTypes DEF ReturnError, IndInv, TypeOK, StoreTypes

\* The bound on failures is kept.
LEMMA CallFailsTypes ==
  ASSUME TypeOK, CallFails, UNCHANGED changes
  PROVE  CountTypes'
  BY ConstantsAssumption DEF TypeOK, CountTypes, CallFails

\* A status update that keeps the recorded cluster resources.
LEMMA UpdateKeeps ==
  ASSUME IndInv, NEW st \in Status, NEW next \in PCs, UpdateStatus(st, next),
         CRPart(st) = CRPart(mem.status), UNCHANGED <<cached, objVars>>,
         pc \notin {"idle", "finalizer"}, next # "idle",
         next \in DeletePCs => pc \in DeletePCs
  PROVE  /\ CopiesOK' /\ LifeOK' /\ ClusterAccounting'
         /\ mem'.spec = mem.spec /\ mem'.status = st /\ pc' = next
         /\ CRPart(nstt'.status) = CRPart(nstt.status)
  <1>1. /\ pc' = next /\ current' = current
        /\ nstt'.life = nstt.life /\ nstt'.fin = nstt.fin
        /\ nstt'.status.cr = nstt.status.cr /\ nstt'.status.feat = nstt.status.feat
        /\ mem'.life = mem.life /\ mem'.fin = mem.fin
        /\ mem'.spec = mem.spec /\ mem'.status = st
    BY DEF UpdateStatus, Persist, IndInv, CopiesOK, TypeOK, StoreTypes, RunTypes,
       NSTemplateSet, Status, CRPart
  <1>2. CopiesOK'
    <2>1. CASE st = mem.status
      <3>1. mem' = mem
        BY <2>1 DEF UpdateStatus, IndInv, TypeOK, RunTypes, NSTemplateSet
      <3> QED
        BY <1>1, <2>1, <3>1 DEF UpdateStatus, IndInv, CopiesOK
    <2>2. CASE st # mem.status
      <3>1. mem = nstt /\ mem' = nstt'
        BY <2>2 DEF UpdateStatus, Persist, IndInv, CopiesOK
      <3>2. synced' => nstt' = nstt
        BY <2>2 DEF UpdateStatus, Persist, IndInv, TypeOK, StoreTypes, NSTemplateSet
      <3> QED
        BY <1>1, <2>2, <3>1, <3>2 DEF UpdateStatus, Persist, IndInv, CopiesOK
    <2> QED
      BY <2>1, <2>2
  <1>3. LifeOK'
    BY <1>1 DEF IndInv, LifeOK, DeletePCs
  <1>4. ClusterAccounting'
    BY <1>1 DEF IndInv, ClusterAccounting, Enabled
  <1> QED
    BY <1>1, <1>2, <1>3, <1>4 DEF CRPart

---------------------------------------------------------------------------
(* clusterResourcesManager.                                                *)

\* objectApplier.changeStatusIfNeeded changes the condition only.
LEMMA CRInProgressStatus ==
  ASSUME TypeOK
  PROVE  CRInProgress \in Status /\ CRPart(CRInProgress) = CRPart(mem.status)
  BY StatusTypes DEF CRInProgress, CRPart, Status,
     setStatusProvisioningIfNotUpdating, setStatusUpdatingIfNotProvisioning

\* clusterResourcesManager.ensure goes on to apply only what differs from the status.
LEMMA EnsureClusterResourcesStep == IndInv /\ EnsureClusterResources => IndInv'
  <1> SUFFICES ASSUME IndInv, EnsureClusterResources PROVE IndInv'
    OBVIOUS
  <1>1. TypeOK
    BY DEF IndInv
  <1>2. TypeOK'
    BY <1>1, CRInProgressStatus, StatusTypes, UpdateTypes, FinishTypes
    DEF EnsureClusterResources, ReturnError, TypeOK, StoreTypes, RunTypes,
        ObjTypes, ListTypes, NsTypes, InnerTypes, CacheTypes, CountTypes, PCs
  <1>3. CASE ReturnError
    <2>1. SafeInv'
      BY <1>3, StopKeeps DEF ReturnError, EnsureClusterResources
    <2> QED
      BY <1>2, <2>1 DEF IndInv, SafeInv
  <1>4. CASE ~ReturnError
    <2>1. PICK st \in Status, next \in {"ns", "crApply"} :
             /\ UpdateStatus(st, next)
             /\ CRPart(st) = CRPart(mem.status)
             /\ next = "ns" => ~CRChanged
             /\ next = "crApply" => CRChanged
      BY <1>1, <1>4, CRInProgressStatus, StatusTypes DEF EnsureClusterResources
    <2>2. next \in PCs /\ next # "idle" /\ next \notin DeletePCs /\ pc = "cr"
      BY DEF PCs, DeletePCs, EnsureClusterResources
    <2>3. /\ CopiesOK' /\ LifeOK' /\ ClusterAccounting'
          /\ mem'.spec = mem.spec /\ mem'.status = st /\ pc' = next
      BY <2>1, <2>2, UpdateKeeps DEF EnsureClusterResources
    <2>4. PickOK' /\ ClusterStepOK' /\ ProgressOK'
      BY <2>1, <2>2, <2>3 DEF PickOK, ClusterStepOK, ProgressOK, CRChanged, CRPart,
         NSDone, CRDone
    <2> QED
      BY <1>2, <2>3, <2>4 DEF IndInv
  <1> QED
    BY <1>3, <1>4

\* Applying the new objects, all of them or those before a failure, announces
\* the template in the history: the accounts stay in order.
LEMMA ApplyAccounts ==
  ASSUME IndInv, pc = "crApply", NEW done \in SUBSET Enabled(mem.spec),
         clusterObjs' = clusterObjs \union done, lost' = lost \ done,
         tried' = tried \union ({CRPart(mem.spec)} \ {CRPart(nstt.status)}),
         nstt'.life = nstt.life, nstt'.status.cr = nstt.status.cr,
         nstt'.status.feat = nstt.status.feat
  PROVE  ClusterAccounting'
  <1>1. Enabled(mem.spec) = Enabled(CRPart(mem.spec))
    BY DEF Enabled, CRPart
  <1>2. CRPart(mem.spec) \in tried' \/ CRPart(mem.spec) = CRPart(nstt.status)
    OBVIOUS
  <1>3. CRPart(mem.spec) = CRPart(nstt.status)
           => Enabled(mem.spec) \subseteq CRObjsOf(nstt.status.cr)
    BY DEF Enabled, CRPart
  <1>4. clusterObjs' \subseteq CRObjsOf(nstt.status.cr)
                               \union UNION {Enabled(p) : p \in tried'}
    BY <1>1, <1>2, <1>3 DEF IndInv, ClusterAccounting
  <1>5. nstt.life = "live" /\ tried' = {}
           => Enabled(nstt.status) \ lost' \subseteq clusterObjs'
    BY DEF IndInv, ClusterAccounting
  <1>6. nstt.life = "gone" /\ tried' = {} => clusterObjs' = {}
    BY <1>4 DEF IndInv, LifeOK, CRObjsOf
  <1> QED
    BY <1>4, <1>5, <1>6 DEF ClusterAccounting, Enabled

\* objectApplier.Apply leaves the enabled objects of the spec in place.
LEMMA ApplyClusterObjectsStep == IndInv /\ ApplyClusterObjects => IndInv'
  <1> SUFFICES ASSUME IndInv, ApplyClusterObjects PROVE IndInv'
    OBVIOUS
  <1>1. CRPart(mem.spec) \in CRSpec /\ Enabled(mem.spec) \subseteq ClusterObjs
    BY StatusTypes, ConstantsAssumption
    DEF IndInv, CRPart, CRSpec, Spec4, Enabled, CRObjsOf
  <1>2. TypeOK'
    BY <1>1 DEF IndInv, ApplyClusterObjects, TypeOK, StoreTypes, RunTypes,
       ObjTypes, ListTypes, NsTypes, InnerTypes, CacheTypes, CountTypes, PCs
  <1>3. ClusterAccounting'
    BY ApplyAccounts DEF ApplyClusterObjects
  <1>4. ClusterStepOK'
    BY DEF IndInv, ApplyClusterObjects, ClusterStepOK, CRChanged, CRPart, Enabled
  <1>5. PickOK' /\ CopiesOK' /\ LifeOK' /\ ProgressOK'
    BY DEF IndInv, ApplyClusterObjects, PickOK, CopiesOK, LifeOK, ProgressOK,
       NSDone, CRDone
  <1> QED
    BY <1>2, <1>3, <1>4, <1>5 DEF IndInv

\* Removing obsolete objects never removes one that the status records, unless
\* an application is pending.
LEMMA CleanupAccounts ==
  ASSUME IndInv, pc = "crClean", NEW done \in SUBSET Obsolete,
         clusterObjs' = clusterObjs \ done, UNCHANGED <<tried, lost>>,
         nstt'.life = nstt.life, nstt'.status.cr = nstt.status.cr,
         nstt'.status.feat = nstt.status.feat
  PROVE  ClusterAccounting'
  <1>1. tried = {} => Enabled(nstt.status) = Enabled(mem.spec)
    BY DEF IndInv, ClusterStepOK, CRPart, Enabled
  <1>2. done \intersect Enabled(mem.spec) = {}
    BY DEF Obsolete
  <1> QED
    BY <1>1, <1>2 DEF IndInv, ClusterAccounting, Enabled

\* objectApplier.Cleanup removes obsolete objects and none of the spec's.
LEMMA CleanupClusterObjectsStep == IndInv /\ CleanupClusterObjects => IndInv'
  <1> SUFFICES ASSUME IndInv, CleanupClusterObjects PROVE IndInv'
    OBVIOUS
  <1>1. TypeOK'
    BY DEF IndInv, CleanupClusterObjects, TypeOK, StoreTypes, RunTypes,
       ObjTypes, ListTypes, NsTypes, InnerTypes, CacheTypes, CountTypes, PCs
  <1>2. ClusterAccounting'
    BY CleanupAccounts DEF CleanupClusterObjects
  <1>3. ClusterStepOK'
    BY DEF IndInv, CleanupClusterObjects, ClusterStepOK, CRChanged, CRPart,
       Enabled, Obsolete
  <1>4. PickOK' /\ CopiesOK' /\ LifeOK' /\ ProgressOK'
    BY DEF IndInv, CleanupClusterObjects, PickOK, CopiesOK, LifeOK, ProgressOK,
       NSDone, CRDone
  <1> QED
    BY <1>1, <1>2, <1>3, <1>4 DEF IndInv

\* The revision is recorded only when its objects are there and no obsolete one is left.
LEMMA RecordClusterResourcesStep == IndInv /\ RecordClusterResources => IndInv'
  <1> SUFFICES ASSUME IndInv, RecordClusterResources PROVE IndInv'
    OBVIOUS
  <1>1. TypeOK'
    BY StatusTypes, UpdateTypes, FinishTypes
    DEF IndInv, RecordClusterResources, ReturnError, TypeOK, StoreTypes, RunTypes,
        ObjTypes, ListTypes, NsTypes, InnerTypes, CacheTypes, CountTypes, PCs
  <1>2. CASE ReturnError /\ UNCHANGED tried
    <2>1. SafeInv'
      BY <1>2, StopKeeps DEF ReturnError, RecordClusterResources
    <2> QED
      BY <1>1, <2>1 DEF IndInv, SafeInv
  <1>3. CASE /\ UpdateStatus(CRRecorded, "ns")
             /\ tried' = IF tried \subseteq {CRPart(mem.spec)} THEN {} ELSE tried
    <2>1. CRRecorded # mem.status
      BY StatusTypes DEF IndInv, RecordClusterResources, ClusterStepOK, CRChanged,
         CRRecorded, CRPart, Status, Spec4
    <2>2. current /\ mem = nstt
      BY <1>3, <2>1 DEF UpdateStatus, IndInv, CopiesOK
    <2>3. /\ nstt' = [nstt EXCEPT !.status = CRRecorded]
          /\ mem' = [mem EXCEPT !.status = CRRecorded]
          /\ pc' = "ns" /\ current' = current /\ cached' = cached
          /\ clusterObjs' = clusterObjs /\ lost' = lost
          /\ synced' = (synced /\ CRRecorded = nstt.status)
      BY <1>3, <2>1 DEF UpdateStatus, Persist, RecordClusterResources
    <2>4. /\ CRRecorded.cr = mem.spec.cr /\ CRRecorded.feat = mem.spec.feat
          /\ mem.status \in Status /\ nstt \in NSTemplateSet
      BY StatusTypes DEF IndInv, TypeOK, StoreTypes, CRRecorded, Status
    <2>5. /\ nstt'.life = nstt.life /\ nstt'.fin = nstt.fin /\ nstt'.spec = nstt.spec
          /\ nstt'.status.cr = mem.spec.cr /\ nstt'.status.feat = mem.spec.feat
          /\ mem' = nstt'
      BY <2>2, <2>3, <2>4 DEF NSTemplateSet
    <2>6. CopiesOK' /\ PickOK' /\ ClusterStepOK'
      BY <2>1, <2>2, <2>3, <2>5
      DEF IndInv, CopiesOK, PickOK, ClusterStepOK
    <2>7. LifeOK'
      BY <2>2, <2>3, <2>5 DEF IndInv, LifeOK, RecordClusterResources
    <2>8. ProgressOK'
      BY <2>2, <2>3, <2>5 DEF ProgressOK, CRPart, NSDone, CRDone
    <2>9. ClusterAccounting'
      <3>1. Enabled(nstt'.status) = Enabled(mem.spec)
        BY <2>5 DEF Enabled
      <3>2. clusterObjs \subseteq
               CRObjsOf(mem.spec.cr) \union UNION {Enabled(p) : p \in tried}
        BY <2>2 DEF IndInv, ClusterAccounting, ClusterStepOK, Obsolete, Enabled,
           RecordClusterResources
      <3>3. UNION {Enabled(p) : p \in {CRPart(mem.spec)}} \subseteq CRObjsOf(mem.spec.cr)
        BY DEF Enabled, CRPart
      <3>4. clusterObjs' \subseteq CRObjsOf(nstt'.status.cr)
                                   \union UNION {Enabled(p) : p \in tried'}
        BY <1>3, <2>3, <2>5, <3>2, <3>3
      <3>5. Enabled(nstt'.status) \ lost' \subseteq clusterObjs'
        BY <2>3, <3>1 DEF IndInv, ClusterStepOK, RecordClusterResources
      <3>6. nstt'.life # "gone"
        BY <2>2, <2>5 DEF IndInv, LifeOK, RecordClusterResources
      <3> QED
        BY <3>4, <3>5, <3>6 DEF ClusterAccounting, Enabled
    <2> QED
      BY <1>1, <2>6, <2>7, <2>8, <2>9 DEF IndInv
  <1> QED
    BY <1>2, <1>3 DEF RecordClusterResources

\* The reasons given for failures are reasons of the condition.
LEMMA ReasonTypes ==
  /\ SyncFailure \in Reasons
  /\ FailureReason("UnableToProvisionClusterResources") \in Reasons
  /\ FailureReason("UnableToProvisionSpaceRoles") \in Reasons
  BY DEF SyncFailure, FailureReason, Reasons

\* A call of ensure() that fails half way leaves the accounts in order.
LEMMA ClusterResourcesFaultStep == IndInv /\ ClusterResourcesFault => IndInv'
  <1> SUFFICES ASSUME IndInv, ClusterResourcesFault PROVE IndInv'
    OBVIOUS
  <1>1. /\ CountTypes' /\ NsTypes' /\ InnerTypes' /\ CacheTypes'
        /\ cached' = cached /\ TypeOK
    BY CallFailsTypes DEF IndInv, ClusterResourcesFault, TypeOK, NsTypes,
       InnerTypes, CacheTypes
  <1>2. CASE \/ ReturnError /\ UNCHANGED objVars
             \/ /\ FailWith(FailureReason("UnableToProvisionClusterResources"))
                /\ UNCHANGED objVars
    <2>1. SafeInv' /\ StoreTypes' /\ RunTypes' /\ ListTypes'
      BY <1>1, <1>2, ReturnErrorKeeps, FailWithKeeps, ReasonTypes
    <2> QED
      BY <1>1, <1>2, <2>1 DEF IndInv, SafeInv, TypeOK, ObjTypes
  <1>3. CASE /\ pc = "crApply"
             /\ \E done \in SUBSET Enabled(mem.spec) :
                   /\ clusterObjs' = clusterObjs \union done
                   /\ lost' = lost \ done
             /\ tried' = tried \union ({CRPart(mem.spec)} \ {CRPart(nstt.status)})
             /\ FailWith(SyncFailure)
    <2>1. /\ PickOK' /\ CopiesOK' /\ LifeOK' /\ ClusterStepOK' /\ ProgressOK'
          /\ nstt'.life = nstt.life
          /\ nstt'.status.cr = nstt.status.cr /\ nstt'.status.feat = nstt.status.feat
      BY <1>1, <1>3, FailEffects, StatusTypes, ReasonTypes DEF FailWith
    <2>2. ClusterAccounting'
      BY <1>3, <2>1, ApplyAccounts
    <2>3. CRPart(mem.spec) \in CRSpec /\ Enabled(mem.spec) \subseteq ClusterObjs
      BY <1>1, StatusTypes, ConstantsAssumption
      DEF CRPart, CRSpec, Spec4, Enabled, CRObjsOf
    <2>4. ObjTypes'
      BY <1>1, <1>3, <2>3 DEF TypeOK, ObjTypes
    <2>5. StoreTypes' /\ RunTypes' /\ ListTypes'
      BY <1>1, <1>3, FailTypes, StatusTypes, ReasonTypes DEF FailWith
    <2> QED
      BY <1>1, <2>1, <2>2, <2>4, <2>5 DEF IndInv, TypeOK
  <1>4. CASE /\ pc = "crClean"
             /\ \E done \in SUBSET Obsolete : clusterObjs' = clusterObjs \ done
             /\ FailWith(SyncFailure)
             /\ UNCHANGED <<tried, lost>>
    <2>1. /\ PickOK' /\ CopiesOK' /\ LifeOK' /\ ClusterStepOK' /\ ProgressOK'
          /\ nstt'.life = nstt.life
          /\ nstt'.status.cr = nstt.status.cr /\ nstt'.status.feat = nstt.status.feat
      BY <1>1, <1>4, FailEffects, StatusTypes, ReasonTypes DEF FailWith
    <2>2. ClusterAccounting'
      BY <1>4, <2>1, CleanupAccounts
    <2>3. ObjTypes'
      BY <1>1, <1>4 DEF TypeOK, ObjTypes
    <2>4. StoreTypes' /\ RunTypes' /\ ListTypes'
      BY <1>1, <1>4, FailTypes, StatusTypes, ReasonTypes DEF FailWith
    <2> QED
      BY <1>1, <2>1, <2>2, <2>3, <2>4 DEF IndInv, TypeOK
  <1> QED
    BY <1>2, <1>3, <1>4 DEF ClusterResourcesFault

\* clusterResourcesManager.delete removes what the status records.
LEMMA DeleteClusterObjectsStep == IndInv /\ DeleteClusterObjects => IndInv'
  <1> SUFFICES ASSUME IndInv, DeleteClusterObjects PROVE IndInv'
    OBVIOUS
  <1>1. TypeOK'
    BY DEF IndInv, DeleteClusterObjects, TypeOK, StoreTypes, RunTypes,
       ObjTypes, ListTypes, NsTypes, InnerTypes, CacheTypes, CountTypes, PCs
  <1>2. ClusterAccounting'
    BY DEF IndInv, DeleteClusterObjects, ClusterAccounting, LifeOK, Enabled
  <1>3. PickOK' /\ CopiesOK' /\ LifeOK' /\ ClusterStepOK' /\ ProgressOK'
    BY DEF IndInv, DeleteClusterObjects, PickOK, CopiesOK, LifeOK, ClusterStepOK,
       ProgressOK, NSDone, CRDone
  <1> QED
    BY <1>1, <1>2, <1>3 DEF IndInv

\* The record of the cluster resources is cleared only when they are gone.
LEMMA ClearAccounts ==
  ASSUME IndInv, pc = "dClear", current, UNCHANGED objVars,
         nstt'.life = nstt.life, nstt'.status.cr = NoRef
  PROVE  ClusterAccounting'
  <1>1. mem = nstt /\ nstt.life # "live"
    BY DEF IndInv, CopiesOK, LifeOK
  <1>2. clusterObjs \intersect CRObjsOf(nstt.status.cr) = {}
    BY <1>1 DEF IndInv, ClusterStepOK
  <1> QED
    BY <1>1, <1>2 DEF IndInv, ClusterAccounting, CRObjsOf, Enabled

\* The record is cleared only after its objects were removed.
LEMMA ClearClusterResourcesStep == IndInv /\ ClearClusterResources => IndInv'
  <1> SUFFICES ASSUME IndInv, ClearClusterResources PROVE IndInv'
    OBVIOUS
  <1>1. /\ TypeOK /\ CRCleared \in Status /\ "TerminatingFailed" \in Reasons
        /\ "dNs" \in PCs /\ pc = "dClear"
    BY StatusTypes DEF IndInv, Reasons, PCs, ClearClusterResources
  <1>2. TypeOK'
    BY <1>1, UpdateTypes, FailTypes
    DEF ClearClusterResources, TypeOK, StoreTypes, RunTypes, ObjTypes, ListTypes,
        NsTypes, InnerTypes, CacheTypes, CountTypes
  <1>3. CASE Conflict(CRCleared) /\ FailFrom(CRCleared, "TerminatingFailed")
    <2>1. ReturnError
      BY <1>3 DEF Conflict, FailFrom, ReturnError
    <2>2. SafeInv'
      BY <2>1, ReturnErrorKeeps DEF ClearClusterResources
    <2> QED
      BY <1>2, <2>2 DEF IndInv, SafeInv
  <1>4. CASE UpdateStatus(CRCleared, "dNs") /\ CRCleared = mem.status
    <2>1. mem.status.cr = NoRef
      BY <1>1, <1>4, StatusTypes DEF CRCleared, Status
    <2>2. /\ CopiesOK' /\ LifeOK' /\ ClusterAccounting'
          /\ mem'.spec = mem.spec /\ mem'.status = mem.status /\ pc' = "dNs"
      BY <1>1, <1>4, UpdateKeeps DEF ClearClusterResources, DeletePCs
    <2>3. PickOK' /\ ClusterStepOK' /\ ProgressOK'
      BY <2>1, <2>2 DEF PickOK, ClusterStepOK, ProgressOK, NSDone, CRDone
    <2> QED
      BY <1>2, <2>2, <2>3 DEF IndInv
  <1>5. CASE UpdateStatus(CRCleared, "dNs") /\ CRCleared # mem.status
    <2>1. /\ current /\ mem = nstt /\ mem' = nstt' /\ pc' = "dNs"
          /\ current' = current
      BY <1>5 DEF UpdateStatus, Persist, IndInv, CopiesOK
    <2>2. /\ nstt'.life = nstt.life /\ nstt'.fin = nstt.fin
          /\ nstt'.status.cr = NoRef /\ synced' = FALSE
      <3>1. CRCleared.cr = NoRef
        BY <1>1, StatusTypes DEF CRCleared, Status
      <3>2. nstt' = [nstt EXCEPT !.status = CRCleared] /\ synced' = FALSE
        BY <1>5, <2>1 DEF UpdateStatus, Persist
      <3> QED
        BY <1>1, <3>1, <3>2 DEF TypeOK, StoreTypes, NSTemplateSet
    <2>3. CopiesOK' /\ LifeOK'
      BY <1>1, <2>1, <2>2 DEF IndInv, CopiesOK, LifeOK, ClearClusterResources
    <2>4. PickOK' /\ ClusterStepOK' /\ ProgressOK'
      BY <2>1, <2>2 DEF PickOK, ClusterStepOK, ProgressOK, NSDone, CRDone
    <2>5. ClusterAccounting'
      BY <1>1, <2>1, <2>2, ClearAccounts DEF ClearClusterResources
    <2> QED
      BY <1>2, <2>3, <2>4, <2>5 DEF IndInv
  <1> QED
    BY <1>3, <1>4, <1>5 DEF ClearClusterResources

\* A call of delete() that fails keeps the record of what is left.
LEMMA DeleteClusterResourcesFaultStep == IndInv /\ DeleteClusterResourcesFault => IndInv'
  <1> SUFFICES ASSUME IndInv, DeleteClusterResourcesFault PROVE IndInv'
    OBVIOUS
  <1>1. /\ CountTypes' /\ NsTypes' /\ InnerTypes' /\ CacheTypes'
        /\ cached' = cached /\ TypeOK /\ "TerminatingFailed" \in Reasons
        /\ CRCleared \in Status
    BY CallFailsTypes, StatusTypes DEF IndInv, DeleteClusterResourcesFault, TypeOK,
       NsTypes, InnerTypes, CacheTypes, Reasons
  <1>2. CASE /\ FailWith(FailureReason("UnableToProvisionClusterResources"))
             /\ UNCHANGED objVars
    <2>1. SafeInv' /\ StoreTypes' /\ RunTypes' /\ ListTypes'
      BY <1>1, <1>2, FailWithKeeps, ReasonTypes
    <2> QED
      BY <1>1, <1>2, <2>1 DEF IndInv, SafeInv, TypeOK, ObjTypes
  <1>3. CASE /\ pc = "dCR"
             /\ \E done \in SUBSET CRObjsOf(mem.status.cr) :
                   clusterObjs' = clusterObjs \ done
             /\ FailWith("TerminatingFailed") /\ UNCHANGED <<tried, lost>>
    <2>1. /\ PickOK' /\ CopiesOK' /\ LifeOK' /\ ClusterStepOK' /\ ProgressOK'
          /\ nstt'.life = nstt.life /\ nstt.life # "live"
          /\ nstt'.status.cr = nstt.status.cr /\ nstt'.status.feat = nstt.status.feat
      BY <1>1, <1>3, FailEffects, StatusTypes DEF FailWith, IndInv, LifeOK
    <2>2. ClusterAccounting'
      BY <1>3, <2>1 DEF IndInv, ClusterAccounting, Enabled
    <2>3. ObjTypes'
      BY <1>1, <1>3 DEF TypeOK, ObjTypes
    <2>4. StoreTypes' /\ RunTypes' /\ ListTypes'
      BY <1>1, <1>3, FailTypes, StatusTypes DEF FailWith
    <2> QED
      BY <1>1, <2>1, <2>2, <2>3, <2>4 DEF IndInv, TypeOK
  <1>4. CASE /\ pc = "dClear"
             /\ FailFrom(CRCleared, "TerminatingFailed") /\ UNCHANGED objVars
    <2>1. StoreTypes' /\ RunTypes' /\ ListTypes' /\ ObjTypes'
      BY <1>1, <1>4, FailTypes DEF TypeOK, ObjTypes
    <2>2. CASE UNCHANGED <<nstt, synced>>
      <3>1. ReturnError
        BY <1>4, <2>2 DEF FailFrom, ReturnError
      <3> QED
        BY <1>1, <1>4, <2>1, <3>1, ReturnErrorKeeps DEF IndInv, SafeInv, TypeOK
    <2>3. CASE /\ current /\ synced' = FALSE
               /\ nstt' = [nstt EXCEPT !.status =
                             [CRCleared EXCEPT !.reason = "TerminatingFailed"]]
      <3>1. /\ nstt'.life = nstt.life /\ nstt'.fin = nstt.fin
            /\ nstt'.status.cr = NoRef /\ pc' = "idle" /\ current' = FALSE
        BY <1>1, <1>4, <2>3, StatusTypes
        DEF FailFrom, Finish, TypeOK, StoreTypes, NSTemplateSet, CRCleared, Status
      <3>2. ClusterAccounting'
        BY <1>4, <2>3, <3>1, ClearAccounts
      <3>3. /\ PickOK' /\ CopiesOK' /\ LifeOK' /\ ClusterStepOK' /\ ProgressOK'
        BY <1>1, <2>3, <3>1 DEF IndInv, PickOK, CopiesOK, LifeOK, ClusterStepOK,
           ProgressOK, NSDone, CRDone
      <3> QED
        BY <1>1, <2>1, <3>2, <3>3 DEF IndInv, TypeOK
    <2> QED
      BY <1>4, <2>2, <2>3 DEF FailFrom
  <1> QED
    BY <1>2, <1>3, <1>4 DEF DeleteClusterResourcesFault

---------------------------------------------------------------------------
(* Calls on namespaces.                                                    *)

\* Deleting a namespace keeps the types.
LEMMA DeleteNamespaceTypes ==
  ASSUME TypeOK, NEW t \in Types, DeleteNamespace(t)
  PROVE  NsTypes' /\ InnerTypes'
  BY DEF TypeOK, NsTypes, InnerTypes, DeleteNamespace, Namespace

\* Updating a namespace from a typed copy keeps the types.
LEMMA UpdateNamespaceTypes ==
  ASSUME TypeOK, NEW t \in Types, NEW view \in Namespace, UpdateNamespace(t, view)
  PROVE  NsTypes' /\ InnerTypes'
  BY DEF TypeOK, NsTypes, InnerTypes, UpdateNamespace

\* Replacing what a namespace holds keeps the types.
LEMMA SetObjectsTypes ==
  ASSUME TypeOK, NEW t \in Types, NEW objs \in SUBSET (InnerObjs \union Grants),
         SetObjects(t, objs)
  PROVE  InnerTypes'
  BY DEF TypeOK, InnerTypes, SetObjects

\* So does applying objects to it and deleting objects from it.
LEMMA PutDropTypes ==
  ASSUME TypeOK, NEW t \in Types, NEW objs \in SUBSET (InnerObjs \union Grants),
         PutObjects(t, objs) \/ DropObjects(t, objs)
  PROVE  InnerTypes'
  <1>1. nsObjs[t] \subseteq InnerObjs \union Grants
    BY DEF TypeOK, InnerTypes
  <1> QED
    BY <1>1, SetObjectsTypes DEF PutObjects, DropObjects

\* A step of Reconcile to another place that leaves the NSTemplateSet and the
\* cluster-scoped objects alone.
LEMMA MoveKeeps ==
  ASSUME IndInv, UNCHANGED <<nstt, synced, cached, mem, current, objVars>>,
         pc \notin {"idle", "finalizer"}, pc' \notin {"idle", "finalizer"},
         pc' \in DeletePCs => pc \in DeletePCs
  PROVE  CopiesOK' /\ LifeOK' /\ ClusterAccounting'
  BY DEF IndInv, CopiesOK, LifeOK, ClusterAccounting, DeletePCs, Enabled

\* A step that Reconcile takes no part in.
LEMMA OthersKeep ==
  ASSUME IndInv, UNCHANGED <<nstt, synced, cached, mem, current, objVars, pc, pickT, pickR>>
  PROVE  SafeInv'
  BY DEF IndInv, SafeInv, PickOK, CopiesOK, LifeOK, ClusterStepOK, ProgressOK,
     ClusterAccounting, CRChanged, CRPart, Enabled, Obsolete, NSDone, CRDone

---------------------------------------------------------------------------
(* namespacesManager.                                                      *)

\* Announcing a change of a namespace changes the condition only.
LEMMA NSInProgressStatus ==
  ASSUME TypeOK
  PROVE  NSInProgress \in Status /\ CRPart(NSInProgress) = CRPart(mem.status)
  BY StatusTypes DEF NSInProgress, CRPart, Status,
     setStatusProvisioningIfNotUpdating, setStatusUpdatingIfNotProvisioning

\* namespacesManager.ensure picks a namespace of the space and touches nothing.
LEMMA EnsureNamespacesStep == IndInv /\ EnsureNamespaces => IndInv'
  <1> SUFFICES ASSUME IndInv, EnsureNamespaces PROVE IndInv'
    OBVIOUS
  <1>1. ListTypes' /\ pc' \in {"nsStatus", "nsRev"} /\ (pc' = "nsStatus" => pickT' \in Types)
    BY ConstantsAssumption, StatusTypes
    DEF IndInv, TypeOK, NsTypes, CacheTypes, ListTypes, EnsureNamespaces,
        ListNamespaces, Surplus, Present, Pending, Spec4
  <1>2. TypeOK'
    BY <1>1 DEF IndInv, EnsureNamespaces, TypeOK, StoreTypes, RunTypes,
       ObjTypes, NsTypes, InnerTypes, CacheTypes, CountTypes, PCs
  <1>3. CopiesOK' /\ LifeOK' /\ ClusterAccounting'
    BY <1>1, MoveKeeps DEF EnsureNamespaces, DeletePCs
  <1>4. PickOK' /\ ClusterStepOK' /\ ProgressOK'
    BY <1>1 DEF IndInv, EnsureNamespaces, PickOK, ClusterStepOK, ProgressOK, NSDone,
       CRDone
  <1> QED
    BY <1>2, <1>3, <1>4 DEF IndInv

\* ensureNamespace announces its work in a status that keeps the cluster resources.
LEMMA AnnounceNamespaceStep == IndInv /\ AnnounceNamespace => IndInv'
  <1> SUFFICES ASSUME IndInv, AnnounceNamespace PROVE IndInv'
    OBVIOUS
  <1>1. TypeOK /\ NSInProgress \in Status /\ CRPart(NSInProgress) = CRPart(mem.status)
    BY NSInProgressStatus DEF IndInv
  <1>2. CASE ReturnError
    <2>1. SafeInv' /\ StoreTypes' /\ RunTypes' /\ ListTypes'
      BY <1>2, ReturnErrorKeeps DEF AnnounceNamespace
    <2> QED
      BY <1>1, <2>1 DEF IndInv, SafeInv, AnnounceNamespace, TypeOK, ObjTypes,
         NsTypes, InnerTypes, CacheTypes, CountTypes
  <1>3. CASE ~ReturnError
    <2>1. PICK next \in {"nsDelete", "nsCreate", "nsObsolete"} :
             /\ UpdateStatus(NSInProgress, next) /\ UNCHANGED listVars
             /\ next # "nsDelete" => pickR # NoRef
      BY <1>3 DEF AnnounceNamespace
    <2>2. next \in PCs /\ next # "idle" /\ next \notin DeletePCs /\ pc = "nsStatus"
      BY DEF PCs, DeletePCs, AnnounceNamespace
    <2>3. /\ CopiesOK' /\ LifeOK' /\ ClusterAccounting'
          /\ mem'.spec = mem.spec /\ mem'.status = NSInProgress /\ pc' = next
      BY <1>1, <2>1, <2>2, UpdateKeeps DEF AnnounceNamespace
    <2>4. PickOK'
      BY <1>1, <2>1, <2>2, <2>3 DEF IndInv, PickOK, TypeOK, ListTypes
    <2>5. ClusterStepOK' /\ ProgressOK'
      BY <1>1, <2>1, <2>2, <2>3 DEF IndInv, ClusterStepOK, ProgressOK, CRPart,
         NSDone, CRDone
    <2>6. StoreTypes' /\ RunTypes'
      BY <1>1, <2>1, <2>2, UpdateTypes
    <2>7. TypeOK'
      BY <1>1, <2>1, <2>6 DEF AnnounceNamespace, TypeOK, ObjTypes,
         NsTypes, InnerTypes, CacheTypes, CountTypes, ListTypes
    <2> QED
      BY <2>3, <2>4, <2>5, <2>7 DEF IndInv
  <1> QED
    BY <1>2, <1>3

\* The steps that end with a change of a namespace, or with an error.
LEMMA DeprovisionNamespaceStep == IndInv /\ DeprovisionNamespace => IndInv'
  <1> SUFFICES ASSUME IndInv, DeprovisionNamespace PROVE IndInv'
    OBVIOUS
  <1>1. TypeOK /\ pickT \in Types /\ "UpdateFailed" \in Reasons
    BY DEF IndInv, PickOK, DeprovisionNamespace, Reasons
  <1>2. /\ ObjTypes' /\ CacheTypes' /\ CountTypes' /\ UNCHANGED <<cached, objVars>>
    BY <1>1 DEF DeprovisionNamespace, TypeOK, ObjTypes, CacheTypes, CountTypes
  <1>3. CASE DeleteNamespace(pickT) /\ Finish(FALSE) /\ UNCHANGED <<nstt, synced>>
    BY <1>1, <1>2, <1>3, StopKeeps, FinishTypes, DeleteNamespaceTypes
    DEF IndInv, SafeInv, TypeOK, StoreTypes
  <1>4. CASE FailWith("UpdateFailed") /\ UNCHANGED nsVars
    BY <1>1, <1>2, <1>4, FailWithKeeps
    DEF IndInv, SafeInv, TypeOK, NsTypes, InnerTypes
  <1> QED
    BY <1>3, <1>4 DEF DeprovisionNamespace

\* ensureNamespaceResource creates or relabels a namespace and returns.
LEMMA EnsureNamespaceResourceStep == IndInv /\ EnsureNamespaceResource => IndInv'
  <1> SUFFICES ASSUME IndInv, EnsureNamespaceResource PROVE IndInv'
    OBVIOUS
  <1>1. TypeOK /\ pickT \in Types /\ pickR \in NSRefs
    BY DEF IndInv, PickOK, EnsureNamespaceResource
  <1>2. ASSUME NEW old \in Namespace, NEW l \in Labels \union {NoRef}, NEW keep
        PROVE  AppliedNamespace(old, l, keep) \in Namespace
    BY DEF AppliedNamespace, Namespace, NoNamespace
  <1>3. NsTypes' /\ InnerTypes'
    BY <1>1, <1>2, ConstantsAssumption
    DEF EnsureNamespaceResource, TypeOK, NsTypes, InnerTypes
  <1>4. /\ ObjTypes' /\ CacheTypes' /\ CountTypes' /\ StoreTypes'
        /\ UNCHANGED <<nstt, synced, cached, objVars>> /\ Finish(FALSE)
    BY <1>1 DEF EnsureNamespaceResource, TypeOK, ObjTypes, CacheTypes, CountTypes,
       StoreTypes
  <1>5. SafeInv' /\ RunTypes' /\ ListTypes'
    BY <1>1, <1>4, StopKeeps, FinishTypes
  <1> QED
    BY <1>3, <1>4, <1>5 DEF IndInv, SafeInv, TypeOK

\* What a change of template makes obsolete are objects of a template.
LEMMA ObsoleteInnerTypes ==
  ASSUME IndInv, pc = "nsObsolete"
  PROVE  ObsoleteInner \subseteq InnerObjs \union Grants
  BY ConstantsAssumption DEF IndInv, PickOK, ObsoleteInner, TypeOK, ListTypes, Namespace

\* Deleting obsolete objects of a namespace touches nothing else.
LEMMA DeleteObsoleteInnerStep == IndInv /\ DeleteObsoleteInner => IndInv'
  <1> SUFFICES ASSUME IndInv, DeleteObsoleteInner PROVE IndInv'
    OBVIOUS
  <1>1. TypeOK /\ pickT \in Types /\ pickR \in NSRefs
    BY DEF IndInv, PickOK, DeleteObsoleteInner
  <1>2. InnerTypes'
    BY <1>1, ObsoleteInnerTypes, PutDropTypes DEF DeleteObsoleteInner
  <1>3. TypeOK'
    BY <1>1, <1>2 DEF DeleteObsoleteInner, TypeOK, StoreTypes, RunTypes, ObjTypes,
       ListTypes, NsTypes, CacheTypes, CountTypes, PCs
  <1>4. CopiesOK' /\ LifeOK' /\ ClusterAccounting'
    BY MoveKeeps DEF DeleteObsoleteInner, DeletePCs
  <1>5. PickOK' /\ ClusterStepOK' /\ ProgressOK'
    BY <1>1 DEF IndInv, DeleteObsoleteInner, PickOK, ClusterStepOK, ProgressOK, NSDone, CRDone
  <1> QED
    BY <1>3, <1>4, <1>5 DEF IndInv

\* Applying the objects of a namespace template, or being refused, keeps the invariant.
LEMMA ApplyInnerStep == IndInv /\ ApplyInner => IndInv'
  <1> SUFFICES ASSUME IndInv, ApplyInner PROVE IndInv'
    OBVIOUS
  <1>1. /\ TypeOK /\ pickT \in Types /\ pickR \in NSRefs
        /\ "UnableToProvisionNamespace" \in Reasons
        /\ NSObjs[pickR] \subseteq InnerObjs \union Grants
    BY ConstantsAssumption DEF IndInv, PickOK, ApplyInner, Reasons
  <1>2. /\ ObjTypes' /\ CacheTypes' /\ CountTypes' /\ UNCHANGED <<cached, objVars>>
    BY <1>1 DEF ApplyInner, TypeOK, ObjTypes, CacheTypes, CountTypes
  <1>3. CASE FailWith("UnableToProvisionNamespace") /\ UNCHANGED nsVars
    BY <1>1, <1>2, <1>3, FailWithKeeps
    DEF IndInv, SafeInv, TypeOK, NsTypes, InnerTypes
  <1>4. CASE /\ PutObjects(pickT, NSObjs[pickR]) /\ pc' = "nsLabel"
             /\ UNCHANGED <<nstt, ns, nsSynced, synced, queued, mem, current, listVars>>
    <2>1. InnerTypes'
      BY <1>1, <1>4, PutDropTypes
    <2>2. TypeOK'
      BY <1>1, <1>2, <1>4, <2>1 DEF TypeOK, StoreTypes, RunTypes, ListTypes, NsTypes, PCs
    <2>3. CopiesOK' /\ LifeOK' /\ ClusterAccounting'
      BY <1>2, <1>4, MoveKeeps DEF ApplyInner, DeletePCs
    <2>4. PickOK' /\ ClusterStepOK' /\ ProgressOK'
      BY <1>1, <1>4 DEF IndInv, ApplyInner, PickOK, ClusterStepOK, ProgressOK, NSDone, CRDone
    <2> QED
      BY <2>2, <2>3, <2>4 DEF IndInv
  <1> QED
    BY <1>3, <1>4 DEF ApplyInner

\* So does labelling the namespace, or a conflict on it.
LEMMA LabelNamespaceStep == IndInv /\ LabelNamespace => IndInv'
  <1> SUFFICES ASSUME IndInv, LabelNamespace PROVE IndInv'
    OBVIOUS
  <1>1. /\ TypeOK /\ pickT \in Types /\ "UnableToProvisionNamespace" \in Reasons
        /\ [snap[pickT] EXCEPT !.tref = pickR] \in Namespace
    BY DEF IndInv, PickOK, LabelNamespace, Reasons, TypeOK, ListTypes, Namespace
  <1>2. /\ ObjTypes' /\ CacheTypes' /\ CountTypes' /\ UNCHANGED <<cached, objVars>>
    BY <1>1 DEF LabelNamespace, TypeOK, ObjTypes, CacheTypes, CountTypes
  <1>3. CASE FailWith("UnableToProvisionNamespace") /\ UNCHANGED nsVars
    BY <1>1, <1>2, <1>3, FailWithKeeps
    DEF IndInv, SafeInv, TypeOK, NsTypes, InnerTypes
  <1>4. CASE /\ UpdateNamespace(pickT, [snap[pickT] EXCEPT !.tref = pickR])
             /\ Finish(FALSE) /\ UNCHANGED <<nstt, synced>>
    BY <1>1, <1>2, <1>4, StopKeeps, FinishTypes, UpdateNamespaceTypes
    DEF IndInv, SafeInv, TypeOK, StoreTypes
  <1> QED
    BY <1>3, <1>4 DEF LabelNamespace

\* updateStatusNamespacesRevisions records the templates of the spec at hand.
LEMMA RecordNamespacesStep == IndInv /\ RecordNamespaces => IndInv'
  <1> SUFFICES ASSUME IndInv, RecordNamespaces PROVE IndInv'
    OBVIOUS
  <1>1. /\ TypeOK /\ NSRecorded \in Status /\ CRPart(NSRecorded) = CRPart(mem.status)
        /\ NSRecorded.ns = mem.spec.ns
        /\ pc = "nsRev" /\ "prov" \in PCs /\ "prov" \notin DeletePCs
    BY StatusTypes DEF IndInv, NSRecorded, CRPart, Status, RecordNamespaces, PCs, DeletePCs
  <1>2. /\ ObjTypes' /\ NsTypes' /\ InnerTypes' /\ CacheTypes' /\ CountTypes'
        /\ UNCHANGED <<cached, objVars>>
    BY <1>1 DEF RecordNamespaces, TypeOK, ObjTypes, NsTypes, InnerTypes, CacheTypes,
       CountTypes
  <1>3. CASE ReturnError
    BY <1>2, <1>3, ReturnErrorKeeps DEF IndInv, SafeInv, TypeOK
  <1>4. CASE UpdateStatus(NSRecorded, "prov") /\ UNCHANGED listVars
    <2>1. /\ CopiesOK' /\ LifeOK' /\ ClusterAccounting'
          /\ mem'.spec = mem.spec /\ mem'.status = NSRecorded /\ pc' = "prov"
      BY <1>1, <1>2, <1>4, UpdateKeeps
    <2>2. PickOK' /\ ClusterStepOK' /\ ProgressOK'
      BY <1>1, <2>1 DEF IndInv, PickOK, ClusterStepOK, ProgressOK, CRPart, NSDone, CRDone
    <2>3. StoreTypes' /\ RunTypes' /\ ListTypes'
      BY <1>1, <1>4, UpdateTypes DEF TypeOK, ListTypes
    <2> QED
      BY <1>2, <2>1, <2>2, <2>3 DEF IndInv, TypeOK
  <1> QED
    BY <1>3, <1>4 DEF RecordNamespaces

\* The list of provisioned namespaces does not touch the recorded revisions.
LEMMA SetProvisionedNamespacesStep == IndInv /\ SetProvisionedNamespaces => IndInv'
  <1> SUFFICES ASSUME IndInv, SetProvisionedNamespaces PROVE IndInv'
    OBVIOUS
  <1> DEFINE st == IF Present(nsCached) = {} THEN mem.status
                   ELSE [mem.status EXCEPT !.prov = Present(nsCached)]
  <1>1. /\ TypeOK /\ st \in Status /\ CRPart(st) = CRPart(mem.status)
        /\ st.ns = mem.status.ns
        /\ pc = "prov" /\ "sr" \in PCs /\ "sr" \notin DeletePCs
    BY StatusTypes
    DEF IndInv, CRPart, Status, SetProvisionedNamespaces, PCs, DeletePCs, Present
  <1>2. /\ ObjTypes' /\ NsTypes' /\ InnerTypes' /\ CacheTypes' /\ CountTypes'
        /\ UNCHANGED <<cached, objVars>>
    BY <1>1 DEF SetProvisionedNamespaces, TypeOK, ObjTypes, NsTypes, InnerTypes,
       CacheTypes, CountTypes
  <1>3. CASE ReturnError
    BY <1>2, <1>3, ReturnErrorKeeps DEF IndInv, SafeInv, TypeOK
  <1>4. CASE UpdateStatus(st, "sr") /\ ListNamespaces /\ UNCHANGED <<pickT, pickR, todo>>
    <2>1. /\ CopiesOK' /\ LifeOK' /\ ClusterAccounting'
          /\ mem'.spec = mem.spec /\ mem'.status = st /\ pc' = "sr"
      BY <1>1, <1>2, <1>4, UpdateKeeps
    <2>2. PickOK' /\ ClusterStepOK' /\ ProgressOK'
      BY <1>1, <2>1 DEF IndInv, PickOK, ClusterStepOK, ProgressOK, CRPart, NSDone, CRDone
    <2>3. StoreTypes' /\ RunTypes'
      BY <1>1, <1>4, UpdateTypes
    <2>4. ListTypes'
      BY <1>1, <1>4 DEF TypeOK, ListTypes, ListNamespaces, CacheTypes, NsTypes
    <2> QED
      BY <1>2, <2>1, <2>2, <2>3, <2>4 DEF IndInv, TypeOK
  <1> QED
    BY <1>3, <1>4 DEF SetProvisionedNamespaces

\* A call of namespacesManager.ensure that fails half way keeps the invariant.
LEMMA NamespacesFaultStep == IndInv /\ NamespacesFault => IndInv'
  <1> SUFFICES ASSUME IndInv, NamespacesFault PROVE IndInv'
    OBVIOUS
  <1>1. /\ CountTypes' /\ NsTypes' /\ ObjTypes' /\ CacheTypes'
        /\ UNCHANGED <<cached, objVars>> /\ TypeOK
    BY CallFailsTypes DEF IndInv, NamespacesFault, TypeOK, NsTypes, ObjTypes, CacheTypes
  <1>2. InnerTypes'
    <2>1. ASSUME pc = "nsObsolete", NEW done \in SUBSET ObsoleteInner,
                 DropObjects(pickT, done)
          PROVE  InnerTypes'
      BY <1>1, <2>1, ObsoleteInnerTypes, PutDropTypes DEF IndInv, PickOK
    <2>2. ASSUME pc = "nsApply", NEW done \in SUBSET NSObjs[pickR],
                 PutObjects(pickT, done)
          PROVE  InnerTypes'
      BY <1>1, <2>2, ConstantsAssumption, PutDropTypes DEF IndInv, PickOK
    <2>3. CASE UNCHANGED innerVars
      BY <1>1, <2>3 DEF TypeOK, InnerTypes
    <2> QED
      BY <2>1, <2>2, <2>3 DEF NamespacesFault
  <1>3. \/ ReturnError
        \/ \E reason \in Reasons : FailWith(reason)
    BY DEF NamespacesFault, Reasons
  <1>4. SafeInv' /\ StoreTypes' /\ RunTypes' /\ ListTypes'
    BY <1>1, <1>3, ReturnErrorKeeps, FailWithKeeps
  <1> QED
    BY <1>1, <1>2, <1>4 DEF IndInv, SafeInv, TypeOK

\* namespacesManager.ensureDeleted leaves the cluster resources as they are.
LEMMA EnsureNamespacesDeletedStep == IndInv /\ EnsureNamespacesDeleted => IndInv'
  <1> SUFFICES ASSUME IndInv, EnsureNamespacesDeleted PROVE IndInv'
    OBVIOUS
  <1>1. TypeOK /\ "TerminatingFailed" \in Reasons
    BY DEF IndInv, Reasons
  <1>2. /\ ObjTypes' /\ CacheTypes' /\ CountTypes' /\ UNCHANGED <<cached, objVars>>
    BY <1>1 DEF EnsureNamespacesDeleted, TypeOK, ObjTypes, CacheTypes, CountTypes
  <1>3. CASE /\ pc' = "dFin"
             /\ UNCHANGED <<nstt, nsVars, synced, queued, mem, current, listVars>>
    <2>1. TypeOK'
      BY <1>1, <1>2, <1>3 DEF TypeOK, StoreTypes, RunTypes, ListTypes, NsTypes,
         InnerTypes, PCs
    <2>2. CopiesOK' /\ LifeOK' /\ ClusterAccounting'
      BY <1>2, <1>3, MoveKeeps DEF EnsureNamespacesDeleted, DeletePCs
    <2>3. PickOK' /\ ClusterStepOK' /\ ProgressOK'
      BY <1>3 DEF IndInv, EnsureNamespacesDeleted, PickOK, ClusterStepOK, ProgressOK, NSDone,
         CRDone
    <2> QED
      BY <2>1, <2>2, <2>3 DEF IndInv
  <1>4. CASE \E t \in Types : /\ DeleteNamespace(t) /\ Finish(TRUE)
                              /\ UNCHANGED <<nstt, synced>>
    BY <1>1, <1>2, <1>4, StopKeeps, FinishTypes, DeleteNamespaceTypes
    DEF IndInv, SafeInv, TypeOK, StoreTypes
  <1>5. CASE (FailWith("TerminatingFailed") \/ ReturnError) /\ UNCHANGED nsVars
    BY <1>1, <1>2, <1>5, FailWithKeeps, ReturnErrorKeeps
    DEF IndInv, SafeInv, TypeOK, NsTypes, InnerTypes
  <1> QED
    BY <1>3, <1>4, <1>5 DEF EnsureNamespacesDeleted, Present

\* So does its failure.
LEMMA DeleteNamespacesFaultStep == IndInv /\ DeleteNamespacesFault => IndInv'
  <1> SUFFICES ASSUME IndInv, DeleteNamespacesFault PROVE IndInv'
    OBVIOUS
  <1>1. /\ CountTypes' /\ NsTypes' /\ InnerTypes' /\ ObjTypes' /\ CacheTypes'
        /\ UNCHANGED <<cached, objVars>> /\ "TerminatingFailed" \in Reasons
    BY CallFailsTypes DEF IndInv, DeleteNamespacesFault, TypeOK, NsTypes, InnerTypes,
       ObjTypes, CacheTypes, Reasons
  <1>2. SafeInv' /\ StoreTypes' /\ RunTypes' /\ ListTypes'
    BY <1>1, FailWithKeeps DEF DeleteNamespacesFault
  <1> QED
    BY <1>1, <1>2 DEF IndInv, SafeInv, TypeOK

---------------------------------------------------------------------------
(* spaceRolesManager.                                                      *)

\* What space roles grant are objects of their templates.
LEMMA GrantsTypes ==
  ASSUME IndInv
  PROVE  /\ GrantsOf(mem.spec.roles) \subseteq InnerObjs \union Grants
         /\ pickT \in Types => ObsoleteGrants \subseteq InnerObjs \union Grants
  BY StatusTypes, ConstantsAssumption
  DEF IndInv, TypeOK, ListTypes, GrantsOf, ObsoleteGrants, Spec4, Namespace

\* spaceRolesManager.ensure starts from a typed list of namespaces.
LEMMA EnsureSpaceRolesStep == IndInv /\ EnsureSpaceRoles => IndInv'
  <1> SUFFICES ASSUME IndInv, EnsureSpaceRoles PROVE IndInv'
    OBVIOUS
  <1>1. TypeOK'
    BY DEF IndInv, EnsureSpaceRoles, ListNamespaces, Present, TypeOK, StoreTypes,
       RunTypes, ObjTypes, ListTypes, NsTypes, InnerTypes, CacheTypes, CountTypes, PCs
  <1>2. CopiesOK' /\ LifeOK' /\ ClusterAccounting'
    BY MoveKeeps DEF EnsureSpaceRoles, DeletePCs
  <1>3. PickOK' /\ ClusterStepOK' /\ ProgressOK'
    BY DEF IndInv, EnsureSpaceRoles, PickOK, ClusterStepOK, ProgressOK, NSDone, CRDone
  <1> QED
    BY <1>1, <1>2, <1>3 DEF IndInv

\* Announcing a change of space roles changes the condition only.
LEMMA SRInProgressStatus ==
  ASSUME TypeOK, NEW t
  PROVE  /\ SRInProgress(t) \in Status /\ CRPart(SRInProgress(t)) = CRPart(mem.status)
         /\ SRInProgress(t).ns = mem.status.ns
  BY StatusTypes DEF SRInProgress, CRPart, Status, setStatusUpdatingIfNotProvisioning

\* The loop over the namespaces keeps what was recorded before it.
LEMMA NextNamespaceStep == IndInv /\ NextNamespace => IndInv'
  <1> SUFFICES ASSUME IndInv, NextNamespace PROVE IndInv'
    OBVIOUS
  <1>1. TypeOK /\ pc = "srStatus" /\ mem.status \in Status /\ todo \subseteq Types
    BY StatusTypes DEF IndInv, NextNamespace, TypeOK, ListTypes
  <1>2. /\ ObjTypes' /\ NsTypes' /\ InnerTypes' /\ CacheTypes' /\ CountTypes'
        /\ UNCHANGED <<cached, objVars>>
    BY <1>1 DEF NextNamespace, TypeOK, ObjTypes, NsTypes, InnerTypes, CacheTypes,
       CountTypes
  <1>3. CASE ReturnError
    BY <1>2, <1>3, ReturnErrorKeeps DEF IndInv, SafeInv, TypeOK
  <1>4. CASE ~ReturnError
    <2>1. PICK st \in Status, next \in {"srApply", "srRev"} :
             /\ UpdateStatus(st, next)
             /\ CRPart(st) = CRPart(mem.status) /\ st.ns = mem.status.ns
             /\ next = "srApply" => pickT' \in Types
             /\ pickT' \in Types \union {NoRef} /\ UNCHANGED <<snap, snapCur, pickR, todo>>
      BY <1>1, <1>4, SRInProgressStatus DEF NextNamespace, TypeOK, ListTypes
    <2>2. next \in PCs /\ next # "idle" /\ next \notin DeletePCs
      BY DEF PCs, DeletePCs
    <2>3. /\ CopiesOK' /\ LifeOK' /\ ClusterAccounting'
          /\ mem'.spec = mem.spec /\ mem'.status = st /\ pc' = next
      BY <1>1, <1>2, <2>1, <2>2, UpdateKeeps
    <2>4. PickOK' /\ ClusterStepOK' /\ ProgressOK'
      BY <1>1, <2>1, <2>3 DEF IndInv, PickOK, ClusterStepOK, ProgressOK, CRPart, NSDone, CRDone
    <2>5. StoreTypes' /\ RunTypes' /\ ListTypes'
      BY <1>1, <2>1, <2>2, UpdateTypes DEF TypeOK, ListTypes
    <2> QED
      BY <1>2, <2>3, <2>4, <2>5 DEF IndInv, TypeOK
  <1> QED
    BY <1>3, <1>4

\* Applying the space roles, or being refused, keeps the invariant.
LEMMA ApplySpaceRolesStep == IndInv /\ ApplySpaceRoles => IndInv'
  <1> SUFFICES ASSUME IndInv, ApplySpaceRoles PROVE IndInv'
    OBVIOUS
  <1>1. TypeOK /\ pickT \in Types /\ "UnableToProvisionNamespace" \in Reasons
    BY DEF IndInv, PickOK, ApplySpaceRoles, Reasons
  <1>2. /\ ObjTypes' /\ CacheTypes' /\ CountTypes' /\ UNCHANGED <<cached, objVars>>
    BY <1>1 DEF ApplySpaceRoles, TypeOK, ObjTypes, CacheTypes, CountTypes
  <1>3. CASE FailWith("UnableToProvisionNamespace") /\ UNCHANGED nsVars
    BY <1>1, <1>2, <1>3, FailWithKeeps
    DEF IndInv, SafeInv, TypeOK, NsTypes, InnerTypes
  <1>4. CASE /\ PutObjects(pickT, GrantsOf(mem.spec.roles)) /\ pc' = "srObsolete"
             /\ UNCHANGED <<nstt, ns, nsSynced, synced, queued, mem, current, listVars>>
    <2>1. InnerTypes'
      BY <1>1, <1>4, GrantsTypes, PutDropTypes
    <2>2. TypeOK'
      BY <1>1, <1>2, <1>4, <2>1 DEF TypeOK, StoreTypes, RunTypes, ListTypes, NsTypes, PCs
    <2>3. CopiesOK' /\ LifeOK' /\ ClusterAccounting'
      BY <1>2, <1>4, MoveKeeps DEF ApplySpaceRoles, DeletePCs
    <2>4. PickOK' /\ ClusterStepOK' /\ ProgressOK'
      BY <1>1, <1>4 DEF IndInv, ApplySpaceRoles, PickOK, ClusterStepOK, ProgressOK, NSDone,
         CRDone
    <2> QED
      BY <2>2, <2>3, <2>4 DEF IndInv
  <1> QED
    BY <1>3, <1>4 DEF ApplySpaceRoles

\* Deleting obsolete space roles touches nothing else.
LEMMA DeleteObsoleteGrantsStep == IndInv /\ DeleteObsoleteGrants => IndInv'
  <1> SUFFICES ASSUME IndInv, DeleteObsoleteGrants PROVE IndInv'
    OBVIOUS
  <1>1. TypeOK /\ pickT \in Types
    BY DEF IndInv, PickOK, DeleteObsoleteGrants
  <1>2. InnerTypes'
    BY <1>1, GrantsTypes, PutDropTypes DEF DeleteObsoleteGrants
  <1>3. TypeOK'
    BY <1>1, <1>2 DEF DeleteObsoleteGrants, TypeOK, StoreTypes, RunTypes, ObjTypes,
       ListTypes, NsTypes, CacheTypes, CountTypes, PCs
  <1>4. CopiesOK' /\ LifeOK' /\ ClusterAccounting'
    BY MoveKeeps DEF DeleteObsoleteGrants, DeletePCs
  <1>5. PickOK' /\ ClusterStepOK' /\ ProgressOK'
    BY <1>1 DEF IndInv, DeleteObsoleteGrants, PickOK, ClusterStepOK, ProgressOK, NSDone,
       CRDone
  <1> QED
    BY <1>3, <1>4, <1>5 DEF IndInv

\* Annotating a namespace, or a conflict on it, keeps the invariant.
LEMMA AnnotateNamespaceStep == IndInv /\ AnnotateNamespace => IndInv'
  <1> SUFFICES ASSUME IndInv, AnnotateNamespace PROVE IndInv'
    OBVIOUS
  <1>1. /\ TypeOK /\ pickT \in Types /\ "UnableToProvision" \in Reasons
        /\ [snap[pickT] EXCEPT !.anno = mem.spec.roles] \in Namespace
    BY StatusTypes DEF IndInv, PickOK, AnnotateNamespace, Reasons, TypeOK, ListTypes,
       Namespace, Spec4
  <1>2. /\ ObjTypes' /\ CacheTypes' /\ CountTypes' /\ UNCHANGED <<cached, objVars>>
    BY <1>1 DEF AnnotateNamespace, TypeOK, ObjTypes, CacheTypes, CountTypes
  <1>3. CASE FailWith("UnableToProvision") /\ UNCHANGED nsVars
    BY <1>1, <1>2, <1>3, FailWithKeeps
    DEF IndInv, SafeInv, TypeOK, NsTypes, InnerTypes
  <1>4. CASE /\ UpdateNamespace(pickT, [snap[pickT] EXCEPT !.anno = mem.spec.roles])
             /\ Finish(FALSE) /\ UNCHANGED <<nstt, synced>>
    BY <1>1, <1>2, <1>4, StopKeeps, FinishTypes, UpdateNamespaceTypes
    DEF IndInv, SafeInv, TypeOK, StoreTypes
  <1>5. CASE /\ pc' = "srStatus" /\ todo' = todo \ {pickT} /\ pickT' = NoRef
             /\ UNCHANGED <<nstt, nsVars, synced, queued, mem, current, snap,
                            snapCur, pickR>>
    <2>1. TypeOK'
      BY <1>1, <1>2, <1>5 DEF TypeOK, StoreTypes, RunTypes, ListTypes, NsTypes,
         InnerTypes, PCs
    <2>2. CopiesOK' /\ LifeOK' /\ ClusterAccounting'
      BY <1>2, <1>5, MoveKeeps DEF AnnotateNamespace, DeletePCs
    <2>3. PickOK' /\ ClusterStepOK' /\ ProgressOK'
      BY <1>5 DEF IndInv, AnnotateNamespace, PickOK, ClusterStepOK, ProgressOK, NSDone, CRDone
    <2> QED
      BY <2>1, <2>2, <2>3 DEF IndInv
  <1> QED
    BY <1>3, <1>4, <1>5 DEF AnnotateNamespace

\* updateStatusSpaceRolesRevisions is reached with the namespaces recorded.
LEMMA RecordSpaceRolesStep == IndInv /\ RecordSpaceRoles => IndInv'
  <1> SUFFICES ASSUME IndInv, RecordSpaceRoles PROVE IndInv'
    OBVIOUS
  <1>1. /\ TypeOK /\ SRRecorded \in Status /\ CRPart(SRRecorded) = CRPart(mem.status)
        /\ SRRecorded.ns = mem.status.ns /\ SRRecorded.roles = mem.spec.roles
        /\ pc = "srRev" /\ "ready" \in PCs /\ "ready" \notin DeletePCs
    BY StatusTypes DEF IndInv, SRRecorded, CRPart, Status, RecordSpaceRoles, PCs, DeletePCs
  <1>2. /\ ObjTypes' /\ NsTypes' /\ InnerTypes' /\ CacheTypes' /\ CountTypes'
        /\ UNCHANGED <<cached, objVars>>
    BY <1>1 DEF RecordSpaceRoles, TypeOK, ObjTypes, NsTypes, InnerTypes, CacheTypes,
       CountTypes
  <1>3. CASE ReturnError
    BY <1>2, <1>3, ReturnErrorKeeps DEF IndInv, SafeInv, TypeOK
  <1>4. CASE UpdateStatus(SRRecorded, "ready") /\ UNCHANGED listVars
    <2>1. /\ CopiesOK' /\ LifeOK' /\ ClusterAccounting'
          /\ mem'.spec = mem.spec /\ mem'.status = SRRecorded /\ pc' = "ready"
      BY <1>1, <1>2, <1>4, UpdateKeeps
    <2>2. PickOK' /\ ClusterStepOK' /\ ProgressOK'
      BY <1>1, <2>1 DEF IndInv, PickOK, ClusterStepOK, ProgressOK, CRPart, NSDone, CRDone
    <2>3. StoreTypes' /\ RunTypes' /\ ListTypes'
      BY <1>1, <1>4, UpdateTypes DEF TypeOK, ListTypes
    <2> QED
      BY <1>2, <2>1, <2>2, <2>3 DEF IndInv, TypeOK
  <1> QED
    BY <1>3, <1>4 DEF RecordSpaceRoles

\* A call of spaceRolesManager.ensure that fails half way keeps the invariant.
LEMMA SpaceRolesFaultStep == IndInv /\ SpaceRolesFault => IndInv'
  <1> SUFFICES ASSUME IndInv, SpaceRolesFault PROVE IndInv'
    OBVIOUS
  <1>1. /\ CountTypes' /\ NsTypes' /\ ObjTypes' /\ CacheTypes'
        /\ UNCHANGED <<cached, objVars>> /\ TypeOK
    BY CallFailsTypes DEF IndInv, SpaceRolesFault, TypeOK, NsTypes, ObjTypes, CacheTypes
  <1>2. InnerTypes'
    <2>1. ASSUME pc \in {"srApply", "srObsolete"}, NEW done,
                 \/ done \in SUBSET ObsoleteGrants /\ DropObjects(pickT, done)
                 \/ done \in SUBSET GrantsOf(mem.spec.roles) /\ PutObjects(pickT, done)
          PROVE  InnerTypes'
      BY <1>1, <2>1, GrantsTypes, PutDropTypes DEF IndInv, PickOK
    <2>2. CASE UNCHANGED innerVars
      BY <1>1, <2>2 DEF TypeOK, InnerTypes
    <2> QED
      BY <2>1, <2>2 DEF SpaceRolesFault
  <1>3. \/ ReturnError
        \/ \E reason \in Reasons : FailWith(reason)
    BY ReasonTypes DEF SpaceRolesFault, Reasons
  <1>4. SafeInv' /\ StoreTypes' /\ RunTypes' /\ ListTypes'
    BY <1>1, <1>3, ReturnErrorKeeps, FailWithKeeps
  <1> QED
    BY <1>1, <1>2, <1>4 DEF IndInv, SafeInv, TypeOK

---------------------------------------------------------------------------
(* The controller itself.                                                  *)

\* Reconcile starts from a copy that may be old, but never from one it takes for current.
LEMMA StartReconcileStep == IndInv /\ StartReconcile => IndInv'
  <1> SUFFICES ASSUME IndInv, StartReconcile PROVE IndInv'
    OBVIOUS
  <1>1. TypeOK'
    BY DEF IndInv, StartReconcile, TypeOK, StoreTypes, RunTypes, ObjTypes, ListTypes,
       NsTypes, InnerTypes, CacheTypes, CountTypes, PCs
  <1>2. ClusterAccounting'
    BY DEF IndInv, StartReconcile, ClusterAccounting, Enabled
  <1>3. CopiesOK' /\ LifeOK'
    BY DEF IndInv, StartReconcile, CopiesOK, LifeOK, TypeOK, CacheTypes, NSTemplateSet
  <1>4. PickOK' /\ ClusterStepOK' /\ ProgressOK'
    BY DEF IndInv, StartReconcile, PickOK, ClusterStepOK, ProgressOK, NSDone, CRDone
  <1> QED
    BY <1>1, <1>2, <1>3, <1>4 DEF IndInv

\* addFinalizer succeeds only from the stored version.
LEMMA AddFinalizerStep == IndInv /\ AddFinalizer => IndInv'
  <1> SUFFICES ASSUME IndInv, AddFinalizer PROVE IndInv'
    OBVIOUS
  <1>1. /\ ObjTypes' /\ NsTypes' /\ InnerTypes' /\ CacheTypes' /\ CountTypes'
        /\ UNCHANGED <<cached, objVars>> /\ TypeOK /\ pc = "finalizer"
    BY DEF IndInv, AddFinalizer, TypeOK, ObjTypes, NsTypes, InnerTypes, CacheTypes,
       CountTypes
  <1>2. CASE ReturnError
    BY <1>1, <1>2, ReturnErrorKeeps DEF IndInv, SafeInv, TypeOK
  <1>3. CASE /\ current /\ nstt' = [nstt EXCEPT !.fin = TRUE] /\ synced' = FALSE
             /\ mem' = [mem EXCEPT !.fin = TRUE] /\ pc' = "cr"
             /\ UNCHANGED <<queued, current, listVars>>
    <2>1. StoreTypes' /\ RunTypes' /\ ListTypes'
      BY <1>1, <1>3 DEF TypeOK, StoreTypes, RunTypes, ListTypes, NSTemplateSet, PCs
    <2>2. /\ nstt'.life = nstt.life /\ nstt'.status = nstt.status /\ nstt'.fin
          /\ mem' = nstt' /\ mem.life = nstt.life
      BY <1>1, <1>3 DEF IndInv, CopiesOK, TypeOK, StoreTypes, NSTemplateSet
    <2>3. CopiesOK' /\ LifeOK'
      BY <1>1, <1>3, <2>2 DEF IndInv, CopiesOK, LifeOK
    <2>4. PickOK' /\ ClusterStepOK' /\ ProgressOK'
      BY <1>3 DEF PickOK, ClusterStepOK, ProgressOK, NSDone, CRDone
    <2>5. ClusterAccounting'
      BY <1>1, <2>2 DEF IndInv, ClusterAccounting, Enabled
    <2> QED
      BY <1>1, <2>1, <2>3, <2>4, <2>5 DEF IndInv, TypeOK
  <1> QED
    BY <1>2, <1>3 DEF AddFinalizer

\* setStatusReady writes the condition only.
LEMMA SetStatusReadyStep == IndInv /\ SetStatusReady => IndInv'
  <1> SUFFICES ASSUME IndInv, SetStatusReady PROVE IndInv'
    OBVIOUS
  <1>1. /\ ObjTypes' /\ NsTypes' /\ InnerTypes' /\ CacheTypes' /\ CountTypes'
        /\ UNCHANGED <<cached, objVars>> /\ TypeOK
    BY DEF IndInv, SetStatusReady, TypeOK, ObjTypes, NsTypes, InnerTypes, CacheTypes,
       CountTypes
  <1>2. CASE ReturnError
    BY <1>1, <1>2, ReturnErrorKeeps DEF IndInv, SafeInv, TypeOK
  <1>3. CASE Finish(FALSE) /\ UNCHANGED <<nstt, synced>>
    BY <1>1, <1>3, StopKeeps, FinishTypes DEF IndInv, SafeInv, TypeOK, StoreTypes
  <1>4. CASE current /\ Finish(FALSE) /\ Persist(Readied) /\ Readied # mem.status
    <2>1. /\ Readied \in Status
          /\ Readied.cr = mem.status.cr /\ Readied.feat = mem.status.feat
      BY <1>1, StatusTypes DEF Readied, Status
    <2>2. StoreTypes' /\ RunTypes' /\ ListTypes'
      BY <1>1, <1>4, <2>1, FinishTypes
      DEF Persist, TypeOK, StoreTypes, NSTemplateSet
    <2>3. /\ nstt'.life = nstt.life /\ nstt'.fin = nstt.fin
          /\ nstt'.status.cr = nstt.status.cr /\ nstt'.status.feat = nstt.status.feat
          /\ synced' = FALSE /\ pc' = "idle" /\ current' = FALSE
      BY <1>1, <1>4, <2>1
      DEF Persist, Finish, IndInv, CopiesOK, TypeOK, StoreTypes, NSTemplateSet
    <2>4. PickOK' /\ CopiesOK' /\ LifeOK' /\ ClusterStepOK' /\ ProgressOK'
      BY <1>1, <2>3 DEF IndInv, PickOK, CopiesOK, LifeOK, ClusterStepOK, ProgressOK,
         NSDone, CRDone
    <2>5. ClusterAccounting'
      BY <1>1, <2>3 DEF IndInv, ClusterAccounting, Enabled
    <2> QED
      BY <1>1, <2>2, <2>4, <2>5 DEF IndInv, TypeOK
  <1> QED
    BY <1>2, <1>3, <1>4 DEF SetStatusReady

\* deleteNSTemplateSet skips the cluster resources only when none are recorded.
LEMMA SetStatusTerminatingStep == IndInv /\ SetStatusTerminating => IndInv'
  <1> SUFFICES ASSUME IndInv, SetStatusTerminating PROVE IndInv'
    OBVIOUS
  <1>1. /\ TypeOK /\ Terminated \in Status /\ CRPart(Terminated) = CRPart(mem.status)
        /\ pc = "dTerm" /\ "TerminatingFailed" \in Reasons
    BY StatusTypes DEF IndInv, Terminated, CRPart, Status, SetStatusTerminating, Reasons
  <1>2. /\ ObjTypes' /\ NsTypes' /\ InnerTypes' /\ CacheTypes' /\ CountTypes'
        /\ UNCHANGED <<cached, objVars>>
    BY <1>1 DEF SetStatusTerminating, TypeOK, ObjTypes, NsTypes, InnerTypes, CacheTypes,
       CountTypes
  <1>3. CASE FailWith("TerminatingFailed")
    BY <1>1, <1>2, <1>3, FailWithKeeps DEF IndInv, SafeInv, TypeOK
  <1>4. CASE /\ UpdateStatus(Terminated, IF mem.status.cr = NoRef THEN "dNs" ELSE "dCR")
             /\ UNCHANGED listVars
    <2>1. PICK next \in {"dNs", "dCR"} :
             /\ UpdateStatus(Terminated, next)
             /\ next = "dNs" => mem.status.cr = NoRef
      BY <1>4
    <2>2. next \in PCs /\ next # "idle" /\ pc \in DeletePCs
      BY <1>1 DEF PCs, DeletePCs
    <2>3. /\ CopiesOK' /\ LifeOK' /\ ClusterAccounting'
          /\ mem'.status = Terminated /\ pc' = next
      BY <1>1, <1>2, <2>1, <2>2, UpdateKeeps
    <2>4. PickOK' /\ ClusterStepOK' /\ ProgressOK'
      BY <1>1, <2>1, <2>3 DEF PickOK, ClusterStepOK, ProgressOK, CRPart, NSDone, CRDone
    <2>5. StoreTypes' /\ RunTypes' /\ ListTypes'
      BY <1>1, <1>4, <2>1, <2>2, UpdateTypes DEF TypeOK, ListTypes
    <2> QED
      BY <1>2, <2>3, <2>4, <2>5 DEF IndInv, TypeOK
  <1> QED
    BY <1>3, <1>4 DEF SetStatusTerminating

\* The finalizer goes only when the stored status records no cluster resources.
LEMMA RemoveFinalizerStep == IndInv /\ RemoveFinalizer => IndInv'
  <1> SUFFICES ASSUME IndInv, RemoveFinalizer PROVE IndInv'
    OBVIOUS
  <1>1. /\ ObjTypes' /\ NsTypes' /\ InnerTypes' /\ CacheTypes' /\ CountTypes'
        /\ UNCHANGED <<cached, objVars>> /\ TypeOK /\ pc = "dFin"
        /\ "TerminatingFailed" \in Reasons
    BY DEF IndInv, RemoveFinalizer, TypeOK, ObjTypes, NsTypes, InnerTypes, CacheTypes,
       CountTypes, Reasons
  <1>2. CASE FailWith("TerminatingFailed")
    BY <1>1, <1>2, FailWithKeeps DEF IndInv, SafeInv, TypeOK
  <1>3. CASE /\ current /\ nstt' = [nstt EXCEPT !.life = "gone", !.fin = FALSE]
             /\ synced' = FALSE /\ Finish(FALSE)
    <2>1. StoreTypes' /\ RunTypes' /\ ListTypes'
      BY <1>1, <1>3, FinishTypes DEF TypeOK, StoreTypes, NSTemplateSet
    <2>2. /\ nstt'.life = "gone" /\ nstt'.status = nstt.status
          /\ nstt.status.cr = NoRef /\ pc' = "idle" /\ current' = FALSE
      BY <1>1, <1>3
      DEF IndInv, CopiesOK, ClusterStepOK, TypeOK, StoreTypes, NSTemplateSet, Finish
    <2>3. PickOK' /\ CopiesOK' /\ LifeOK' /\ ClusterStepOK' /\ ProgressOK'
      BY <1>1, <1>3, <2>2 DEF IndInv, PickOK, CopiesOK, LifeOK, ClusterStepOK,
         ProgressOK, NSDone, CRDone
    <2>4. ClusterAccounting'
      BY <1>1, <2>2 DEF IndInv, ClusterAccounting, CRObjsOf
    <2> QED
      BY <1>1, <2>1, <2>3, <2>4 DEF IndInv, TypeOK
  <1> QED
    BY <1>2, <1>3 DEF RemoveFinalizer

\* A failed call of the controller itself keeps the invariant.
LEMMA ControllerFaultStep == IndInv /\ ControllerFault => IndInv'
  <1> SUFFICES ASSUME IndInv, ControllerFault PROVE IndInv'
    OBVIOUS
  <1>1. /\ CountTypes' /\ NsTypes' /\ InnerTypes' /\ ObjTypes' /\ CacheTypes'
        /\ UNCHANGED <<cached, objVars>>
    BY CallFailsTypes DEF IndInv, ControllerFault, TypeOK, NsTypes, InnerTypes,
       ObjTypes, CacheTypes
  <1>2. ReturnError \/ \E reason \in Reasons : FailWith(reason)
    BY DEF ControllerFault, Reasons
  <1>3. SafeInv' /\ StoreTypes' /\ RunTypes' /\ ListTypes'
    BY <1>1, <1>2, ReturnErrorKeeps, FailWithKeeps
  <1> QED
    BY <1>1, <1>3 DEF IndInv, SafeInv, TypeOK

\* A crash forgets Reconcile's local state and nothing that is stored.
LEMMA CrashStep == IndInv /\ Crash => IndInv'
  <1> SUFFICES ASSUME IndInv, Crash PROVE IndInv'
    OBVIOUS
  <1>1. /\ CountTypes' /\ RunTypes' /\ ListTypes' /\ TypeOK
    BY CallFailsTypes, FinishTypes DEF IndInv, Crash
  <1>2. ObjTypes' /\ StoreTypes' /\ NsTypes' /\ InnerTypes' /\ CacheTypes'
    BY <1>1 DEF Crash, TypeOK, ObjTypes, StoreTypes, NsTypes, InnerTypes, CacheTypes,
       RBACIn
  <1>3. PickOK' /\ CopiesOK' /\ LifeOK' /\ ClusterStepOK' /\ ProgressOK'
    BY DEF IndInv, Crash, Finish, PickOK, CopiesOK, LifeOK, ClusterStepOK, ProgressOK,
       NSDone, CRDone
  <1>4. ClusterAccounting'
    BY DEF IndInv, Crash, ClusterAccounting, Enabled
  <1> QED
    BY <1>1, <1>2, <1>3, <1>4 DEF IndInv, TypeOK
---------------------------------------------------------------------------
(* The rest of the cluster.                                                *)

\* The bound on the changes made by others is kept.
LEMMA AnotherChangeTypes ==
  ASSUME TypeOK, AnotherChange, UNCHANGED faults
  PROVE  CountTypes'
  BY ConstantsAssumption DEF TypeOK, CountTypes, AnotherChange

\* A write of the NSTemplateSet by the host makes every copy of it old.
LEMMA HostKeeps ==
  ASSUME IndInv, AnotherChange, nstt' \in NSTemplateSet,
         nstt'.status = nstt.status, nstt'.fin = nstt.fin, nstt.life = "live",
         nstt'.life = "gone" => ~nstt.fin,
         synced' = FALSE, wake' = TRUE, current' = FALSE,
         UNCHANGED <<objVars, nsVars, cached, nsCached, rbCached, queued, pc, mem,
                     listVars, faults>>
  PROVE  IndInv'
  <1>1. TypeOK'
    BY AnotherChangeTypes DEF IndInv, TypeOK, StoreTypes, RunTypes, ObjTypes, ListTypes,
       NsTypes, InnerTypes, CacheTypes
  <1>2. CopiesOK' /\ PickOK' /\ ProgressOK'
    BY DEF IndInv, CopiesOK, PickOK, ProgressOK
  <1>3. LifeOK'
    BY DEF IndInv, LifeOK
  <1>4. ClusterStepOK'
    BY DEF IndInv, ClusterStepOK, CRChanged, Enabled, Obsolete
  <1>5. ClusterAccounting'
    <2>1. CASE nstt'.life = "gone"
      <3>1. nstt.status.cr = NoRef
        BY <2>1 DEF IndInv, LifeOK
      <3> QED
        BY <2>1, <3>1 DEF IndInv, ClusterAccounting, CRObjsOf, Enabled
    <2>2. CASE nstt'.life # "gone"
      BY <2>2 DEF IndInv, ClusterAccounting, Enabled
    <2> QED
      BY <2>1, <2>2
  <1> QED
    BY <1>1, <1>2, <1>3, <1>4, <1>5 DEF IndInv

\* A new tier, and a deletion, which is immediate when there is no finalizer.
LEMMA HostStep == IndInv /\ (HostUpdates \/ HostDeletes) => IndInv'
  <1> SUFFICES ASSUME IndInv PROVE HostUpdates \/ HostDeletes => IndInv'
    OBVIOUS
  <1>1. nstt \in NSTemplateSet
    BY DEF IndInv, TypeOK, StoreTypes
  <1>2. ASSUME HostUpdates PROVE IndInv'
    <2>1. /\ nstt' \in NSTemplateSet /\ nstt'.status = nstt.status
          /\ nstt'.fin = nstt.fin /\ nstt'.life = nstt.life
      BY <1>1, <1>2 DEF HostUpdates, NSTemplateSet
    <2> QED
      BY <1>2, <2>1, HostKeeps DEF HostUpdates
  <1>3. ASSUME HostDeletes PROVE IndInv'
    <2>1. /\ nstt' \in NSTemplateSet /\ nstt'.status = nstt.status
          /\ nstt'.fin = nstt.fin /\ nstt'.life = "gone" => ~nstt.fin
      BY <1>1, <1>3 DEF HostDeletes, NSTemplateSet
    <2> QED
      BY <1>1, <1>3, <2>1, HostKeeps DEF HostDeletes, NSTemplateSet
  <1> QED
    BY <1>2, <1>3

\* Users, administrators and the namespace controller change namespaces only.
LEMMA NamespaceChangesStep ==
  ASSUME IndInv, NEW t \in Types,
         \/ AdminDeletesNamespace(t)
         \/ \E o \in RBAC \union Grants : UserDeletesRBAC(t, o)
         \/ EmptyNamespace(t)
         \/ RemoveNamespace(t)
  PROVE  IndInv'
  <1>1. TypeOK
    BY DEF IndInv
  <1>2. CASE AdminDeletesNamespace(t)
    <2>1. NsTypes' /\ InnerTypes' /\ CountTypes'
      BY <1>1, <1>2, DeleteNamespaceTypes, AnotherChangeTypes DEF AdminDeletesNamespace
    <2>2. TypeOK'
      BY <1>1, <1>2, <2>1 DEF AdminDeletesNamespace, TypeOK, StoreTypes, RunTypes,
         ObjTypes, ListTypes, CacheTypes
    <2> QED
      BY <1>2, <2>2, OthersKeep DEF AdminDeletesNamespace, IndInv, SafeInv
  <1>3. CASE \E o \in RBAC \union Grants : UserDeletesRBAC(t, o)
    <2>1. PICK o \in RBAC \union Grants : UserDeletesRBAC(t, o)
      BY <1>3
    <2>2. {o} \in SUBSET (InnerObjs \union Grants)
      BY ConstantsAssumption
    <2>3. InnerTypes' /\ CountTypes'
      BY <1>1, <2>1, <2>2, PutDropTypes, AnotherChangeTypes DEF UserDeletesRBAC
    <2>4. TypeOK'
      BY <1>1, <2>1, <2>3 DEF UserDeletesRBAC, TypeOK, StoreTypes, RunTypes, ObjTypes,
         ListTypes, NsTypes, CacheTypes
    <2> QED
      BY <2>1, <2>4, OthersKeep DEF UserDeletesRBAC, IndInv, SafeInv
  <1>4. CASE EmptyNamespace(t)
    <2>1. nsObjs[t] \in SUBSET (InnerObjs \union Grants)
      BY <1>1 DEF TypeOK, InnerTypes
    <2>2. InnerTypes'
      BY <1>1, <1>4, <2>1, PutDropTypes DEF EmptyNamespace
    <2>3. TypeOK'
      BY <1>1, <1>4, <2>2 DEF EmptyNamespace, TypeOK, StoreTypes, RunTypes, ObjTypes,
         ListTypes, NsTypes, CacheTypes, CountTypes
    <2> QED
      BY <1>4, <2>3, OthersKeep DEF EmptyNamespace, IndInv, SafeInv
  <1>5. CASE RemoveNamespace(t)
    <2>1. NoNamespace \in Namespace
      BY DEF NoNamespace, Namespace
    <2>2. TypeOK'
      BY <1>1, <1>5, <2>1 DEF RemoveNamespace, TypeOK, StoreTypes, RunTypes, ObjTypes,
         ListTypes, NsTypes, InnerTypes, CacheTypes, CountTypes
    <2> QED
      BY <1>5, <2>2, OthersKeep DEF RemoveNamespace, IndInv, SafeInv
  <1> QED
    BY <1>2, <1>3, <1>4, <1>5

\* An object that others remove is remembered as such.
LEMMA LoseClusterObjectStep ==
  ASSUME IndInv, NEW o \in Losable, LoseClusterObject(o)
  PROVE  IndInv'
  <1>1. TypeOK'
    BY AnotherChangeTypes, ConstantsAssumption
    DEF IndInv, LoseClusterObject, TypeOK, StoreTypes, RunTypes, ObjTypes, ListTypes,
        NsTypes, InnerTypes, CacheTypes
  <1>2. PickOK' /\ CopiesOK' /\ LifeOK' /\ ProgressOK'
    BY DEF IndInv, LoseClusterObject, PickOK, CopiesOK, LifeOK, ProgressOK
  <1>3. ClusterStepOK'
    BY DEF IndInv, LoseClusterObject, ClusterStepOK, CRChanged, Enabled, Obsolete
  <1>4. ClusterAccounting'
    BY DEF IndInv, LoseClusterObject, ClusterAccounting, Enabled
  <1> QED
    BY <1>1, <1>2, <1>3, <1>4 DEF IndInv

\* An informer that catches up.
LEMMA SyncStep ==
  ASSUME IndInv,
         \/ SyncNSTemplateSet
         \/ \E t \in Types : SyncNamespace(t) \/ SyncRBAC(t)
         \/ Resync
  PROVE  IndInv'
  <1>1. CASE SyncNSTemplateSet
    <2>1. TypeOK'
      BY <1>1 DEF SyncNSTemplateSet, IndInv, TypeOK, StoreTypes, RunTypes, ObjTypes,
         ListTypes, NsTypes, InnerTypes, CacheTypes, CountTypes
    <2>2. PickOK' /\ CopiesOK' /\ LifeOK' /\ ClusterStepOK' /\ ProgressOK'
      BY <1>1 DEF SyncNSTemplateSet, IndInv, PickOK, CopiesOK, LifeOK, ClusterStepOK,
         ProgressOK, CRChanged, Enabled, Obsolete
    <2>3. ClusterAccounting'
      BY <1>1 DEF SyncNSTemplateSet, IndInv, ClusterAccounting, Enabled
    <2> QED
      BY <2>1, <2>2, <2>3 DEF IndInv
  <1>2. ASSUME NEW t \in Types, SyncNamespace(t)
        PROVE  IndInv'
    <2>1. TypeOK'
      BY <1>2 DEF SyncNamespace, IndInv, TypeOK, StoreTypes, RunTypes, ObjTypes,
         ListTypes, NsTypes, InnerTypes, CacheTypes, CountTypes
    <2> QED
      BY <1>2, <2>1, OthersKeep DEF SyncNamespace, IndInv, SafeInv
  <1>3. ASSUME NEW t \in Types, SyncRBAC(t)
        PROVE  IndInv'
    <2>1. TypeOK'
      BY <1>3 DEF SyncRBAC, IndInv, TypeOK, StoreTypes, RunTypes, ObjTypes,
         ListTypes, NsTypes, InnerTypes, CacheTypes, CountTypes, RBACIn
    <2> QED
      BY <1>3, <2>1, OthersKeep DEF SyncRBAC, IndInv, SafeInv
  <1>4. CASE Resync
    <2>1. TypeOK'
      BY <1>4 DEF Resync, IndInv, TypeOK, StoreTypes, RunTypes, ObjTypes,
         ListTypes, NsTypes, InnerTypes, CacheTypes, CountTypes
    <2> QED
      BY <1>4, <2>1, OthersKeep DEF Resync, IndInv, SafeInv
  <1> QED
    BY <1>1, <1>2, <1>3, <1>4

---------------------------------------------------------------------------
(* The theorems.                                                           *)

\* The state in which the host has just created the NSTemplateSet.
LEMMA InitIndInv == Init => IndInv
  <1> SUFFICES ASSUME Init PROVE IndInv
    OBVIOUS
  <1>1. NoStatus \in Status /\ NoStatus.cr = NoRef /\ NoStatus.feat = {}
    BY DEF NoStatus, Status, Reasons
  <1>2. nstt \in NSTemplateSet /\ nstt.life = "live" /\ nstt.status = NoStatus
    BY <1>1 DEF Init, NSTemplateSet
  <1>3. TypeOK
    <2>1. ObjTypes /\ StoreTypes /\ CountTypes
      BY <1>2, ConstantsAssumption DEF Init, ObjTypes, StoreTypes, CountTypes
    <2>2. RunTypes /\ ListTypes
      BY BlankTypes DEF Init, RunTypes, ListTypes, PCs
    <2>3. NsTypes /\ InnerTypes /\ CacheTypes
      BY <1>2, BlankTypes DEF Init, NsTypes, InnerTypes, CacheTypes
    <2> QED
      BY <2>1, <2>2, <2>3 DEF TypeOK
  <1>4. PickOK /\ CopiesOK /\ LifeOK /\ ClusterStepOK /\ ProgressOK
    BY <1>1, <1>2 DEF Init, PickOK, CopiesOK, LifeOK, ClusterStepOK, ProgressOK, NSDone,
       CRDone
  <1>5. Enabled(nstt.status) = {}
    BY <1>1, <1>2 DEF Enabled, CRObjsOf
  <1>6. ClusterAccounting
    BY <1>2, <1>5 DEF Init, ClusterAccounting
  <1> QED
    BY <1>3, <1>4, <1>6 DEF IndInv

\* Every step of Reconcile and of its environment preserves the invariant.
LEMMA NextIndInv == IndInv /\ [Next]_vars => IndInv'
  <1> SUFFICES ASSUME IndInv, [Next]_vars PROVE IndInv'
    OBVIOUS
  <1>1. CASE Reconcile
    BY <1>1, StartReconcileStep, AddFinalizerStep, EnsureClusterResourcesStep,
       ApplyClusterObjectsStep, CleanupClusterObjectsStep, RecordClusterResourcesStep,
       EnsureNamespacesStep, AnnounceNamespaceStep, DeprovisionNamespaceStep,
       EnsureNamespaceResourceStep, DeleteObsoleteInnerStep, ApplyInnerStep,
       LabelNamespaceStep, RecordNamespacesStep, SetProvisionedNamespacesStep,
       EnsureSpaceRolesStep, NextNamespaceStep, ApplySpaceRolesStep,
       DeleteObsoleteGrantsStep, AnnotateNamespaceStep, RecordSpaceRolesStep,
       SetStatusReadyStep
    DEF Reconcile
  <1>2. CASE Delete
    BY <1>2, SetStatusTerminatingStep, DeleteClusterObjectsStep,
       ClearClusterResourcesStep, EnsureNamespacesDeletedStep, RemoveFinalizerStep
    DEF Delete
  <1>3. CASE Fault
    BY <1>3, ControllerFaultStep, ClusterResourcesFaultStep, NamespacesFaultStep,
       SpaceRolesFaultStep, DeleteClusterResourcesFaultStep, DeleteNamespacesFaultStep,
       CrashStep
    DEF Fault
  <1>4. CASE Others
    BY <1>4, HostStep, NamespaceChangesStep, LoseClusterObjectStep DEF Others
  <1>5. CASE Cluster
    BY <1>5, NamespaceChangesStep, SyncStep DEF Cluster
  <1>6. CASE UNCHANGED vars
    <2>1. TypeOK'
      BY <1>6 DEF vars, IndInv, TypeOK, StoreTypes, RunTypes, ObjTypes, ListTypes,
         NsTypes, InnerTypes, CacheTypes, CountTypes
    <2> QED
      BY <1>6, <2>1, OthersKeep DEF vars, IndInv, SafeInv
  <1> QED
    BY <1>1, <1>2, <1>3, <1>4, <1>5, <1>6 DEF Next

\* IndInv holds in every state that Reconcile, beside the host, the users, the
\* informers, failing calls and crashes, can reach.
THEOREM Invariance == Spec => []IndInv
  BY InitIndInv, NextIndInv, PTL DEF Spec

\* Every variable of the controller always has its type.
THEOREM TypeCorrect == Spec => []TypeOK
  <1>1. IndInv => TypeOK
    BY DEF IndInv
  <1> QED
    BY <1>1, Invariance, PTL

\* No cluster-scoped object of a space is ever unaccounted for: Status.ClusterResources
\* and the applications begun and never recorded cover them all; a live space has what
\* its status records; a space that is gone has left none, unless such an
\* application was pending. For all templates and tiers.
THEOREM Accounting == Spec => []ClusterAccounting
  <1>1. IndInv => ClusterAccounting
    BY DEF IndInv
  <1> QED
    BY <1>1, Invariance, PTL

\* Only setStatusReady sets the Ready condition to true: every other status update
\* keeps the condition it read or replaces it by one that is not true.
LEMMA NoOtherReady ==
  ASSUME IndInv, [Next]_vars, ~SetStatusReady
  PROVE  ~BecomesReady
  <1>1. ASSUME nstt' = nstt \/ nstt'.status = nstt.status
        PROVE  ~BecomesReady
    BY <1>1 DEF BecomesReady
  <1>2. ASSUME NEW st, NEW next, UpdateStatus(st, next),
               st.reason \in {mem.status.reason, "Provisioning", "Updating", "Terminating"}
        PROVE  ~BecomesReady
    <2>1. CASE st = mem.status
      BY <1>2, <2>1 DEF UpdateStatus, BecomesReady
    <2>2. CASE st # mem.status
      <3>1. mem = nstt /\ nstt'.status = st
        BY <1>2, <2>2 DEF UpdateStatus, Persist, IndInv, CopiesOK, TypeOK, StoreTypes,
           NSTemplateSet
      <3> QED
        BY <1>2, <3>1 DEF BecomesReady
    <2> QED
      BY <2>1, <2>2
  <1>3. ASSUME NEW st \in Status, NEW reason, reason # "Provisioned", FailFrom(st, reason)
        PROVE  ~BecomesReady
    <2>1. nstt' = nstt \/ nstt'.status.reason = reason
      BY <1>3 DEF FailFrom, IndInv, TypeOK, StoreTypes, NSTemplateSet, Status
    <2> QED
      BY <1>3, <2>1 DEF BecomesReady
  <1>4. ASSUME NEW reason, reason # "Provisioned", FailWith(reason)
        PROVE  ~BecomesReady
    BY <1>3, <1>4, StatusTypes DEF FailWith, IndInv
  <1>5. ASSUME ReturnError PROVE ~BecomesReady
    BY <1>1, <1>5 DEF ReturnError
  <1>6. /\ setStatusProvisioningIfNotUpdating(mem.status).reason
              \in {mem.status.reason, "Provisioning"}
        /\ setStatusUpdatingIfNotProvisioning(mem.status).reason
              \in {mem.status.reason, "Updating"}
        /\ CRRecorded.reason = mem.status.reason /\ CRCleared.reason = mem.status.reason
        /\ NSRecorded.reason = mem.status.reason /\ SRRecorded.reason = mem.status.reason
        /\ Terminated.reason = "Terminating" /\ CRCleared \in Status
    BY StatusTypes DEF IndInv, Status, setStatusProvisioningIfNotUpdating,
       setStatusUpdatingIfNotProvisioning, CRRecorded, CRCleared, NSRecorded, SRRecorded,
       Terminated
  <1>7. ASSUME NEW reason, reason # "Provisioned"
        PROVE  FailureReason(reason) # "Provisioned" /\ SyncFailure # "Provisioned"
    BY <1>7 DEF FailureReason, SyncFailure
  <1>8. CASE Reconcile
    <2>1. CASE StartReconcile \/ ApplyClusterObjects \/ CleanupClusterObjects
               \/ EnsureNamespaces \/ EnsureNamespaceResource \/ DeleteObsoleteInner
               \/ EnsureSpaceRoles \/ DeleteObsoleteGrants
      BY <1>1, <2>1 DEF StartReconcile, ApplyClusterObjects, CleanupClusterObjects,
         EnsureNamespaces, EnsureNamespaceResource, DeleteObsoleteInner,
         EnsureSpaceRoles, DeleteObsoleteGrants
    <2>2. CASE AddFinalizer
      <3>1. nstt' = nstt \/ nstt'.status = nstt.status
        BY <2>2 DEF AddFinalizer, ReturnError, IndInv, TypeOK, StoreTypes, NSTemplateSet
      <3> QED
        BY <1>1, <3>1
    <2>3. CASE EnsureClusterResources
      BY <1>2, <1>5, <1>6, <2>3 DEF EnsureClusterResources, CRInProgress
    <2>4. CASE RecordClusterResources \/ RecordNamespaces \/ RecordSpaceRoles
      BY <1>2, <1>5, <1>6, <2>4
      DEF RecordClusterResources, RecordNamespaces, RecordSpaceRoles
    <2>5. CASE AnnounceNamespace \/ NextNamespace
      BY <1>2, <1>5, <1>6, <2>5
      DEF AnnounceNamespace, NSInProgress, NextNamespace, SRInProgress
    <2>6. CASE DeprovisionNamespace \/ ApplyInner \/ LabelNamespace
      BY <1>1, <1>4, <2>6 DEF DeprovisionNamespace, ApplyInner, LabelNamespace
    <2>7. CASE SetProvisionedNamespaces
      <3>1. [mem.status EXCEPT !.prov = Present(nsCached)].reason = mem.status.reason
        BY StatusTypes DEF IndInv, Status
      <3> QED
        BY <1>2, <1>5, <2>7, <3>1 DEF SetProvisionedNamespaces
    <2>8. CASE ApplySpaceRoles \/ AnnotateNamespace
      BY <1>1, <1>4, <2>8 DEF ApplySpaceRoles, AnnotateNamespace
    <2> QED
      BY <1>8, <2>1, <2>2, <2>3, <2>4, <2>5, <2>6, <2>7, <2>8 DEF Reconcile
  <1>9. CASE Delete
    <2>1. CASE SetStatusTerminating
      BY <1>2, <1>4, <1>6, <2>1 DEF SetStatusTerminating
    <2>2. CASE ClearClusterResources
      BY <1>2, <1>3, <1>6, <2>2 DEF ClearClusterResources
    <2>3. CASE DeleteClusterObjects
      BY <1>1, <2>3 DEF DeleteClusterObjects
    <2>4. CASE EnsureNamespacesDeleted
      BY <1>1, <1>4, <1>5, <2>4 DEF EnsureNamespacesDeleted
    <2>5. CASE RemoveFinalizer
      <3>1. nstt'.status = nstt.status \/ FailWith("TerminatingFailed")
        BY <2>5 DEF RemoveFinalizer, IndInv, TypeOK, StoreTypes, NSTemplateSet
      <3> QED
        BY <1>1, <1>4, <3>1
    <2> QED
      BY <1>9, <2>1, <2>2, <2>3, <2>4, <2>5 DEF Delete
  <1>10. CASE Fault
    <2>1. CASE ClusterResourcesFault \/ DeleteClusterResourcesFault
      BY <1>3, <1>4, <1>5, <1>6, <1>7, <2>1
      DEF ClusterResourcesFault, DeleteClusterResourcesFault
    <2>2. CASE NamespacesFault \/ DeleteNamespacesFault
      BY <1>4, <1>5, <2>2 DEF NamespacesFault, DeleteNamespacesFault
    <2>3. CASE SpaceRolesFault \/ ControllerFault
      BY <1>4, <1>5, <1>7, <2>3 DEF SpaceRolesFault, ControllerFault
    <2>4. CASE Crash
      BY <1>1, <2>4 DEF Crash
    <2> QED
      BY <1>10, <2>1, <2>2, <2>3, <2>4 DEF Fault
  <1>11. CASE Others \/ Cluster
    <2>1. nstt' = nstt \/ nstt'.status = nstt.status
      BY <1>11 DEF Others, Cluster, HostUpdates, HostDeletes, AdminDeletesNamespace,
         UserDeletesRBAC, LoseClusterObject, EmptyNamespace, RemoveNamespace,
         SyncNSTemplateSet, SyncNamespace, SyncRBAC, Resync, IndInv, TypeOK, StoreTypes,
         NSTemplateSet
    <2> QED
      BY <1>1, <2>1
  <1>12. CASE UNCHANGED vars
    BY <1>1, <1>12 DEF vars
  <1> QED
    BY <1>8, <1>9, <1>10, <1>11, <1>12 DEF Next, Reconcile

\* When setStatusReady makes a space Ready, the status records the spec that the API
\* server holds at that moment, however old the cache was when Reconcile started.
THEOREM ReadyCurrent == Spec => ReadyIsCurrent
  <1> DEFINE Recorded == /\ CRPart(nstt'.status) = CRPart(nstt'.spec)
                         /\ nstt'.status.ns = nstt'.spec.ns
                         /\ nstt'.status.roles = nstt'.spec.roles
  <1>1. ASSUME IndInv, [Next]_vars PROVE BecomesReady => Recorded
    <2>1. SUFFICES ASSUME SetStatusReady, BecomesReady PROVE Recorded
      BY <1>1, NoOtherReady
    <2>2. mem = nstt /\ nstt' = [nstt EXCEPT !.status = Readied]
      BY <1>1, <2>1 DEF SetStatusReady, BecomesReady, ReturnError, Persist, IndInv, CopiesOK
    <2>3. /\ Readied.cr = mem.status.cr /\ Readied.feat = mem.status.feat
          /\ Readied.ns = mem.status.ns /\ Readied.roles = mem.status.roles
      BY <1>1, StatusTypes DEF IndInv, Readied, Status
    <2>4. nstt'.status = Readied /\ nstt'.spec = nstt.spec
      BY <1>1, <2>2 DEF IndInv, TypeOK, StoreTypes, NSTemplateSet
    <2> QED
      BY <1>1, <2>1, <2>2, <2>3, <2>4
      DEF IndInv, ProgressOK, CRPart, NSDone, CRDone, SetStatusReady
  <1>2. IndInv /\ [Next]_vars => [BecomesReady => Recorded]_vars
    BY <1>1
  <1> QED
    BY <1>2, Invariance, PTL DEF Spec, ReadyIsCurrent
===========================================================================
