------------------------- MODULE ClusterResources -------------------------
(***************************************************************************)
(* clusterResourcesManager: ensure() brings the cluster-scoped objects of  *)
(* the space to the template in the spec, one Reconcile step after the     *)
(* other; Status.ClusterResources and Status.FeatureToggles record what    *)
(* was applied, and are all that delete() and the next ensure() go by.     *)
(***************************************************************************)
EXTENDS NSTemplateSetState

\* Mutant: a change of the feature toggles alone is not seen.
FeaturesIgnored == mem.spec.cr # mem.status.cr

\* getOldAndNewTemplateRefsIfChanged
CRChanged == CRPart(mem.spec) # CRPart(mem.status)

FirstDeployment == mem.status.cr = NoRef

\* Objects of the recorded template that the new one does not create.
Obsolete == CRObjsOf(mem.status.cr) \ Enabled(mem.spec)

\* objectApplier.failureStatusReason
SyncFailure ==
    IF FirstDeployment THEN "UnableToProvisionClusterResources" ELSE "UpdateFailed"

\* objectApplier.changeStatusIfNeeded
CRInProgress ==
    IF Enabled(mem.spec) \union Obsolete = {} THEN mem.status
    ELSE IF FirstDeployment THEN setStatusProvisioningIfNotUpdating(mem.status)
    ELSE setStatusUpdatingIfNotProvisioning(mem.status)

\* ensure: nothing to do, or read both templates and announce the change.
EnsureClusterResources ==
    /\ pc = "cr"
    /\ \/ ~CRChanged /\ UpdateStatus(mem.status, "ns") /\ UNCHANGED listVars
       \/ CRChanged /\ UpdateStatus(CRInProgress, "crApply") /\ UNCHANGED listVars
       \/ CRChanged /\ Conflict(CRInProgress) /\ ReturnError
    /\ UNCHANGED <<objVars, nsVars, cacheVars, changes, faults>>

\* objectApplier.Apply for each object of the new template
ApplyClusterObjects ==
    /\ pc = "crApply"
    /\ clusterObjs' = clusterObjs \union Enabled(mem.spec)
    /\ tried' = tried \union ({CRPart(mem.spec)} \ {CRPart(nstt.status)})
    /\ lost' = lost \ Enabled(mem.spec)
    /\ pc' = "crClean"
    /\ UNCHANGED <<nstt, nsVars, synced, cacheVars, queued, mem, current,
                   listVars, changes, faults>>

\* objectApplier.Cleanup
CleanupClusterObjects ==
    /\ pc = "crClean"
    /\ clusterObjs' = clusterObjs \ Obsolete
    /\ pc' = "crRev"
    /\ UNCHANGED <<nstt, tried, lost, nsVars, synced, cacheVars, queued, mem,
                   current, listVars, changes, faults>>

\* updateStatusClusterResourcesRevisions
CRRecorded ==
    [mem.status EXCEPT !.cr = mem.spec.cr, !.feat = mem.spec.feat]

RecordClusterResources ==
    /\ pc = "crRev"
    /\ \/ /\ UpdateStatus(CRRecorded, "ns")
          /\ tried' = IF tried \subseteq {CRPart(mem.spec)} THEN {} ELSE tried
          /\ UNCHANGED listVars
       \/ /\ Conflict(CRRecorded)
          /\ ReturnError
          /\ UNCHANGED tried
    /\ UNCHANGED <<clusterObjs, lost, nsVars, cacheVars, changes, faults>>

\* A call of ensure() fails: reading a template, a status update, applying
\* one of the objects or deleting one of them (or its answer is lost).
ClusterResourcesFault ==
    /\ CallFails
    /\ \/ /\ pc = "cr" /\ CRChanged
          /\ \/ FailWith(FailureReason("UnableToProvisionClusterResources"))
             \/ CRInProgress # mem.status /\ ReturnError
          /\ UNCHANGED objVars
       \/ /\ pc = "crApply"
          /\ \E done \in SUBSET Enabled(mem.spec) :
                /\ clusterObjs' = clusterObjs \union done
                /\ lost' = lost \ done
          /\ tried' = tried \union ({CRPart(mem.spec)} \ {CRPart(nstt.status)})
          /\ FailWith(SyncFailure)
       \/ /\ pc = "crClean"
          /\ \E done \in SUBSET Obsolete : clusterObjs' = clusterObjs \ done
          /\ FailWith(SyncFailure)
          /\ UNCHANGED <<tried, lost>>
       \/ /\ pc = "crRev" /\ CRRecorded # mem.status
          /\ ReturnError
          /\ UNCHANGED objVars
    /\ UNCHANGED <<nsVars, cacheVars, changes>>

---------------------------------------------------------------------------
(* Deletion of the NSTemplateSet.                                          *)

\* Mutant: the objects of the template in the spec are deleted.
DeleteObjectsOfSpec ==
    /\ pc = "dCR"
    /\ clusterObjs' = clusterObjs \ CRObjsOf(mem.spec.cr)
    /\ pc' = "dClear"
    /\ UNCHANGED <<nstt, tried, lost, nsVars, synced, cacheVars, queued, mem,
                   current, listVars, changes, faults>>

\* delete: every object of the recorded template, when one is recorded
DeleteClusterObjects ==
    /\ pc = "dCR"
    /\ clusterObjs' = clusterObjs \ CRObjsOf(mem.status.cr)
    /\ pc' = "dClear"
    /\ UNCHANGED <<nstt, tried, lost, nsVars, synced, cacheVars, queued, mem,
                   current, listVars, changes, faults>>

\* clearStatusClusterResources
CRCleared == [mem.status EXCEPT !.cr = NoRef]

ClearClusterResources ==
    /\ pc = "dClear"
    /\ \/ UpdateStatus(CRCleared, "dNs") /\ UNCHANGED listVars
       \/ Conflict(CRCleared) /\ FailFrom(CRCleared, "TerminatingFailed")
    /\ UNCHANGED <<objVars, nsVars, cacheVars, changes, faults>>

\* A call of delete() fails; a failed clear leaves the copy in memory cleared.
DeleteClusterResourcesFault ==
    /\ CallFails
    /\ \/ /\ pc = "dCR" /\ mem.status.cr # NoRef
          /\ FailWith(FailureReason("UnableToProvisionClusterResources"))
          /\ UNCHANGED clusterObjs
       \/ /\ pc = "dCR"
          /\ \E done \in SUBSET CRObjsOf(mem.status.cr) :
                clusterObjs' = clusterObjs \ done
          /\ FailWith("TerminatingFailed")
       \/ /\ pc = "dClear" /\ CRCleared # mem.status
          /\ FailFrom(CRCleared, "TerminatingFailed")
          /\ UNCHANGED clusterObjs
    /\ UNCHANGED <<tried, lost, nsVars, cacheVars, changes>>
===========================================================================
