---------------------------- MODULE SpaceRoles ----------------------------
(***************************************************************************)
(* spaceRolesManager: ensure() visits every namespace of the space and     *)
(* applies the objects of Spec.SpaceRoles; the annotation of the namespace *)
(* says what was applied last, and so what has become obsolete.            *)
(***************************************************************************)
EXTENDS NSTemplateSetState

\* ensure: list the namespaces
EnsureSpaceRoles ==
    /\ pc = "sr"
    /\ ListNamespaces
    /\ todo' = Present(nsCached)
    /\ pc' = "srStatus"
    /\ UNCHANGED <<nstt, objVars, nsVars, synced, cacheVars, queued, mem,
                   current, pickT, pickR, changes, faults>>

RolesChanged(t) == snap[t].anno # mem.spec.roles

SRInProgress(t) ==
    IF RolesChanged(t) THEN setStatusUpdatingIfNotProvisioning(mem.status)
    ELSE mem.status

\* The next namespace of the loop; announce the change if there is one.
NextNamespace ==
    /\ pc = "srStatus"
    /\ \/ /\ todo = {}
          /\ UpdateStatus(mem.status, "srRev")
          /\ UNCHANGED listVars
       \/ \E t \in todo :
             \/ /\ UpdateStatus(SRInProgress(t), "srApply")
                /\ pickT' = t
                /\ UNCHANGED <<snap, snapCur, pickR, todo>>
             \/ Conflict(SRInProgress(t)) /\ ReturnError
    /\ UNCHANGED <<objVars, nsVars, cacheVars, changes, faults>>

\* ApplyToolchainObjects of the space roles, changed or not
ApplySpaceRoles ==
    /\ pc = "srApply"
    /\ \/ /\ Appliable(pickT, GrantsOf(mem.spec.roles))
          /\ PutObjects(pickT, GrantsOf(mem.spec.roles))
          /\ pc' = "srObsolete"
          /\ UNCHANGED <<nstt, ns, nsSynced, synced, queued, mem, current, listVars>>
       \/ /\ ~Appliable(pickT, GrantsOf(mem.spec.roles))
          /\ FailWith("UnableToProvisionNamespace")
          /\ UNCHANGED nsVars
    /\ UNCHANGED <<objVars, cacheVars, changes, faults>>

\* deleteObsoleteObjects of the space roles applied last
ObsoleteGrants == GrantsOf(snap[pickT].anno) \ GrantsOf(mem.spec.roles)

DeleteObsoleteGrants ==
    /\ pc = "srObsolete"
    /\ DropObjects(pickT, ObsoleteGrants)
    /\ pc' = "srAnno"
    /\ UNCHANGED <<nstt, objVars, synced, cacheVars, queued, mem, current,
                   listVars, ns, nsSynced, changes, faults>>

\* Store the applied space roles in the annotation, and stop there.
AnnotateNamespace ==
    /\ pc = "srAnno"
    /\ \/ /\ ~RolesChanged(pickT)
          /\ pc' = "srStatus" /\ todo' = todo \ {pickT} /\ pickT' = NoRef
          /\ UNCHANGED <<nstt, nsVars, synced, queued, mem, current, snap,
                         snapCur, pickR>>
       \/ /\ RolesChanged(pickT)
          /\ UpdateNamespace(pickT, [snap[pickT] EXCEPT !.anno = mem.spec.roles])
          /\ Finish(FALSE)
          /\ UNCHANGED <<nstt, synced>>
       \/ /\ RolesChanged(pickT) /\ ~snapCur[pickT]
          /\ FailWith("UnableToProvision")
          /\ UNCHANGED nsVars
    /\ UNCHANGED <<objVars, cacheVars, changes, faults>>

\* updateStatusSpaceRolesRevisions
SRRecorded == [mem.status EXCEPT !.roles = mem.spec.roles]

RecordSpaceRoles ==
    /\ pc = "srRev"
    /\ \/ UpdateStatus(SRRecorded, "ready") /\ UNCHANGED listVars
       \/ Conflict(SRRecorded) /\ ReturnError
    /\ UNCHANGED <<objVars, nsVars, cacheVars, changes, faults>>

\* A call of the manager fails for another reason than the ones above.
SpaceRolesFault ==
    /\ CallFails
    /\ \/ /\ pc = "sr"
          /\ FailWith("UnableToProvision")
          /\ UNCHANGED innerVars
       \/ /\ \/ pc = "srStatus" /\ \E t \in todo : SRInProgress(t) # mem.status
             \/ pc = "srRev" /\ SRRecorded # mem.status
          /\ ReturnError
          /\ UNCHANGED innerVars
       \/ /\ pc = "srApply"
          /\ \/ /\ FailWith(FailureReason("UnableToProvisionSpaceRoles"))
                /\ UNCHANGED innerVars
             \/ /\ Appliable(pickT, GrantsOf(mem.spec.roles))
                /\ \E done \in SUBSET GrantsOf(mem.spec.roles) :
                      PutObjects(pickT, done)
                /\ FailWith("UnableToProvisionNamespace")
       \/ /\ pc = "srObsolete"
          /\ \E done \in SUBSET ObsoleteGrants :
                DropObjects(pickT, done)
          /\ FailWith("UpdateFailed")
       \/ /\ pc = "srAnno" /\ RolesChanged(pickT)
          /\ FailWith("UnableToProvision")
          /\ UNCHANGED innerVars
    /\ UNCHANGED <<objVars, ns, nsSynced, cacheVars, changes>>
===========================================================================
