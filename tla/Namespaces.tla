---------------------------- MODULE Namespaces ----------------------------
(***************************************************************************)
(* namespacesManager: each call of ensure() works on at most one namespace *)
(* (removes it, creates it, or fills it and labels it with the template)   *)
(* and relies on the event of that change for the next Reconcile.          *)
(***************************************************************************)
EXTENDS NSTemplateSetState

\* nextNamespaceToDeprovision: namespaces whose type the spec does not name
Surplus(view) == Present(view) \ {NSType[r] : r \in mem.spec.ns}

\* isUpToDateAndProvisioned: the label, and the names of Roles and RoleBindings
isUpToDateAndProvisioned(r, view) ==
    /\ view[NSType[r]].tref = r
    /\ NSObjs[r] \intersect RBAC \subseteq rbCached[NSType[r]]

\* Mutant: a namespace that exists is taken for provisioned.
OnlyMissing(view) == {r \in mem.spec.ns : view[NSType[r]].phase = "None"}

\* nextNamespaceToProvisionOrUpdate: a terminating namespace is passed over
Pending(view) ==
    {r \in mem.spec.ns :
        \/ view[NSType[r]].phase = "None"
        \/ view[NSType[r]].phase = "Active" /\ ~isUpToDateAndProvisioned(r, view)}

\* ensure: list the namespaces and choose the one to work on
EnsureNamespaces ==
    /\ pc = "ns"
    /\ ListNamespaces
    /\ "rbac" \in Lagging \/ \A t \in Types : rbSynced[t]
    /\ \/ \E t \in Surplus(nsCached) :
             pc' = "nsStatus" /\ pickT' = t /\ UNCHANGED pickR
       \/ /\ Surplus(nsCached) = {}
          /\ \E r \in Pending(nsCached) :
                pc' = "nsStatus" /\ pickT' = NSType[r] /\ pickR' = r
       \/ /\ Surplus(nsCached) = {} /\ Pending(nsCached) = {}
          /\ pc' = "nsRev" /\ UNCHANGED <<pickT, pickR>>
    /\ UNCHANGED <<nstt, objVars, nsVars, synced, cacheVars, queued, mem,
                   current, todo, changes, faults>>

NSInProgress ==
    IF pickR = NoRef \/ Present(snap) # {}
      THEN setStatusUpdatingIfNotProvisioning(mem.status)
      ELSE setStatusProvisioningIfNotUpdating(mem.status)

\* namespaceHasExpectedLabelsFromTemplate
HasExpectedLabels == NSLabel[pickR] \in {NoRef, snap[pickT].lbl}

\* The announcement of the change, and what ensureNamespace does next.
AnnounceNamespace ==
    /\ pc = "nsStatus"
    /\ \/ /\ UpdateStatus(NSInProgress,
                IF pickR = NoRef THEN "nsDelete"
                ELSE IF snap[pickT].phase = "None" \/ ~HasExpectedLabels
                  THEN "nsCreate" ELSE "nsObsolete")
          /\ UNCHANGED listVars
       \/ Conflict(NSInProgress) /\ ReturnError
    /\ UNCHANGED <<objVars, nsVars, cacheVars, changes, faults>>

\* Client.Delete of a namespace the spec has no template for; NotFound is an error
DeprovisionNamespace ==
    /\ pc = "nsDelete"
    /\ \/ DeleteNamespace(pickT) /\ Finish(FALSE) /\ UNCHANGED <<nstt, synced>>
       \/ /\ ns[pickT].phase = "None"
          /\ FailWith("UpdateFailed")
          /\ UNCHANGED nsVars
    /\ UNCHANGED <<objVars, cacheVars, changes, faults>>

\* Apply of the template's Namespace object with the label l (external: whether
\* an update keeps the labels and annotations that it does not set)
AppliedNamespace(old, l, keep) ==
    IF old.phase = "None" THEN [NoNamespace EXCEPT !.phase = "Active", !.lbl = l]
    ELSE IF ~keep THEN [NoNamespace EXCEPT !.phase = old.phase, !.lbl = l]
    ELSE [old EXCEPT !.lbl = IF l = NoRef THEN old.lbl ELSE l]

\* ensureNamespaceResource: create the namespace or replace its labels
EnsureNamespaceResource ==
    /\ pc = "nsCreate"
    /\ \E keep \in ApplyKeeps :
          ns' = [ns EXCEPT ![pickT] = AppliedNamespace(ns[pickT], NSLabel[pickR], keep)]
    /\ nsSynced' = [nsSynced EXCEPT ![pickT] = @ /\ ns'[pickT] = ns[pickT]]
    /\ Finish(FALSE)
    /\ UNCHANGED <<nstt, objVars, innerVars, synced, cacheVars, changes, faults>>

\* ensureInnerNamespaceResources: the objects of the labelled template that the
\* new one does not have. The status says Updating or Provisioning already.
ObsoleteInner ==
    IF snap[pickT].tref \in {NoRef, pickR} THEN {}
    ELSE NSObjs[snap[pickT].tref] \ NSObjs[pickR]

DeleteObsoleteInner ==
    /\ pc = "nsObsolete"
    /\ DropObjects(pickT, ObsoleteInner)
    /\ pc' = "nsApply"
    /\ UNCHANGED <<nstt, objVars, ns, nsSynced, synced, cacheVars, queued, mem, current,
                   listVars, changes, faults>>

\* ensureInnerNamespaceResources: ApplyToolchainObjects of the new objects
ApplyInner ==
    /\ pc = "nsApply"
    /\ \/ /\ Appliable(pickT, NSObjs[pickR])
          /\ PutObjects(pickT, NSObjs[pickR])
          /\ pc' = "nsLabel"
          /\ UNCHANGED <<nstt, ns, nsSynced, synced, queued, mem, current, listVars>>
       \/ /\ ~Appliable(pickT, NSObjs[pickR])
          /\ FailWith("UnableToProvisionNamespace")
          /\ UNCHANGED nsVars
    /\ UNCHANGED <<objVars, cacheVars, changes, faults>>

\* ensureInnerNamespaceResources: label the namespace with the template
LabelNamespace ==
    /\ pc = "nsLabel"
    /\ \/ /\ UpdateNamespace(pickT, [snap[pickT] EXCEPT !.tref = pickR])
          /\ Finish(FALSE)
          /\ UNCHANGED <<nstt, synced>>
       \/ /\ ~snapCur[pickT]
          /\ FailWith("UnableToProvisionNamespace")
          /\ UNCHANGED nsVars
    /\ UNCHANGED <<objVars, cacheVars, changes, faults>>

\* updateStatusNamespacesRevisions
NSRecorded == [mem.status EXCEPT !.ns = mem.spec.ns]

RecordNamespaces ==
    /\ pc = "nsRev"
    /\ \/ UpdateStatus(NSRecorded, "prov") /\ UNCHANGED listVars
       \/ Conflict(NSRecorded) /\ ReturnError
    /\ UNCHANGED <<objVars, nsVars, cacheVars, changes, faults>>

\* setProvisionedNamespaceList: always a Status().Update when there is a namespace
SetProvisionedNamespaces ==
    /\ pc = "prov"
    /\ NamespacesReadable
    /\ \/ /\ Present(nsCached) = {} \/ current
          /\ ListNamespaces
          /\ LET st == IF Present(nsCached) = {} THEN mem.status
                       ELSE [mem.status EXCEPT !.prov = Present(nsCached)]
             IN UpdateStatus(st, "sr")
          /\ UNCHANGED <<pickT, pickR, todo>>
       \/ Present(nsCached) # {} /\ ~current /\ ReturnError
    /\ UNCHANGED <<objVars, nsVars, cacheVars, changes, faults>>

\* A call of the manager fails for another reason than the ones above.
NamespacesFault ==
    /\ CallFails
    /\ \/ /\ pc = "ns"
          /\ \/ FailWith("UnableToProvision")
             \/ FailWith("UnableToProvisionNamespace")
             \/ ReturnError
          /\ UNCHANGED innerVars
       \/ /\ \/ pc = "nsStatus" /\ NSInProgress # mem.status
             \/ pc = "nsRev" /\ NSRecorded # mem.status
             \/ pc = "prov"
          /\ ReturnError
          /\ UNCHANGED innerVars
       \/ /\ pc = "nsDelete"
          /\ FailWith("UpdateFailed")
          /\ UNCHANGED innerVars
       \/ /\ pc \in {"nsCreate", "nsLabel"}
          /\ FailWith("UnableToProvisionNamespace")
          /\ UNCHANGED innerVars
       \/ /\ pc = "nsObsolete"
          /\ \/ \E done \in SUBSET ObsoleteInner :
                   /\ DropObjects(pickT, done)
                   /\ FailWith("UpdateFailed")
             \/ FailWith("UnableToProvisionNamespace") /\ UNCHANGED innerVars
       \/ /\ pc = "nsApply" /\ Appliable(pickT, NSObjs[pickR])
          /\ \E done \in SUBSET NSObjs[pickR] :
                PutObjects(pickT, done)
          /\ FailWith("UnableToProvisionNamespace")
    /\ UNCHANGED <<objVars, ns, nsSynced, cacheVars, changes>>

---------------------------------------------------------------------------
(* Deletion of the NSTemplateSet.                                          *)

\* Mutant: a namespace that is terminating counts as gone.
TerminatingIgnored ==
    /\ pc = "dNs"
    /\ NamespacesReadable
    /\ \/ /\ \A t \in Types : nsCached[t].phase # "Active"
          /\ pc' = "dFin"
          /\ UNCHANGED <<nstt, nsVars, synced, queued, mem, current, listVars>>
       \/ \E t \in Present(nsCached) :
             /\ nsCached[t].phase = "Active"
             /\ DeleteNamespace(t)
             /\ Finish(TRUE) /\ UNCHANGED <<nstt, synced>>
    /\ UNCHANGED <<objVars, cacheVars, changes, faults>>

\* ensureDeleted: remove one namespace, or wait for a terminating one; the
\* request is put back (RequeueAfter, or an error after a minute).
EnsureNamespacesDeleted ==
    /\ pc = "dNs"
    /\ NamespacesReadable
    /\ \/ /\ Present(nsCached) = {}
          /\ pc' = "dFin"
          /\ UNCHANGED <<nstt, nsVars, synced, queued, mem, current, listVars>>
       \/ \E t \in Present(nsCached) :
             \/ /\ nsCached[t].phase = "Active"
                /\ DeleteNamespace(t)
                /\ Finish(TRUE) /\ UNCHANGED <<nstt, synced>>
             \/ /\ nsCached[t].phase = "Active" /\ ns[t].phase = "None"
                /\ FailWith("TerminatingFailed") /\ UNCHANGED nsVars
             \/ /\ nsCached[t].phase = "Terminating"
                /\ ReturnError /\ UNCHANGED nsVars
    /\ UNCHANGED <<objVars, cacheVars, changes, faults>>

DeleteNamespacesFault ==
    /\ CallFails
    /\ pc = "dNs"
    /\ FailWith("TerminatingFailed")
    /\ UNCHANGED <<objVars, nsVars, cacheVars, changes>>
===========================================================================
