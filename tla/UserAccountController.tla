----------------------- MODULE UserAccountController -----------------------
(***************************************************************************)
(* Reconcile of the UserAccount controller (controllers/useraccount) for   *)
(* one UserAccount: it creates the OpenShift User and one Identity per     *)
(* propagated claim and maps them to each other by name and UID; it        *)
(* removes them, one per Reconcile, when the account is disabled or        *)
(* deleted. Beside it run the host operator, administrators, the web       *)
(* console, the informers, and crashes of the operator.                    *)
(***************************************************************************)
EXTENDS Naturals, Sequences, SequencesExt

CONSTANTS
    NoClaim,     \* an empty claim
    Claims,      \* values of the claims; each one names an Identity
    Specs,       \* the specs the host may give the account
    Skips,       \* possible values of SkipUserCreation in the configuration
    Legacies,    \* possible values of legacy
    Lagging,     \* informers whose cache may be stale: {"acc","user","ident"}
    Intruders,   \* may administrators delete Users and Identities?
    MaxUIDs,     \* bound on the UIDs of Users
    MaxChanges,  \* bound on the changes made by others
    MaxFaults    \* bound on failed calls and operator crashes

PropagatedClaims ==
    [Sub: Claims, OriginalSub: Claims \union {NoClaim}, UserID: Claims \union {NoClaim}]

ASSUME UserAccountAssumption ==
    /\ NoClaim \notin Claims /\ Claims \intersect {"acc", "user"} = {}
    /\ Specs # {} /\ Specs \subseteq [disabled: BOOLEAN, claims: PropagatedClaims]
    /\ Skips # {} /\ Skips \subseteq BOOLEAN
    /\ Legacies # {} /\ Legacies \subseteq BOOLEAN /\ Intruders \in BOOLEAN
    /\ Lagging \subseteq {"acc", "user", "ident"}
    /\ MaxUIDs \in Nat \ {0} /\ MaxChanges \in Nat /\ MaxFaults \in Nat

VARIABLES
    acc,         \* the UserAccount in the API server
    user,        \* the User of the same name; uid 0 when there is none
    idents,      \* idents[c]: the Identity named after the claim c
    settings,    \* user settings of the console: pairs of a UID and a kind
    cAcc,        \* the UserAccount in the informer cache ...
    accSynced,   \* ... which is the version in the API server
    cUser,       \* the User in the informer cache
    userSynced,
    cIdents,     \* the Identities in the informer cache
    idSynced,    \* idSynced[c]: cIdents[c] is the version in the API server
    wake,        \* the objects of which an undelivered event enqueues the account
    queued,      \* the work queue holds a request for the UserAccount
    pc,          \* where the running Reconcile is; "idle" when none is running
    mem,         \* Reconcile's copy of the UserAccount ...
    current,     \* ... which is the version in the API server
    mUser,       \* Reconcile's copy of the User ...
    mUserCur,    \* ... which is the version in the API server
    mIdent,      \* Reconcile's copy of the Identity it works on
    mIdentCur,
    todo,        \* the claims ensureIdentity has left
    skip,        \* SkipUserCreation; its change alone enqueues no account
    legacy,      \* an earlier version left a User and an Identity unlabelled
    recent,      \* the Ready condition changed less than a second ago
    uids,        \* the UIDs given so far, up to MaxUIDs
    changes,     \* changes made so far by others, up to MaxChanges
    faults       \* failures so far, up to MaxFaults

objVars   == <<user, idents, settings, uids, userSynced, idSynced>>
caches    == <<cAcc, cUser, cIdents>>
cacheVars == <<caches, wake>>
copyVars  == <<mUser, mUserCur, mIdent, mIdentCur, todo>>
envVars   == <<skip, legacy, recent, changes, faults>>
vars == <<acc, accSynced, objVars, cacheVars, queued, pc, mem, current, copyVars, envVars>>

\* A failure message makes a different condition out of the same reason.
Reasons ==
    {"None", "Provisioning", "Provisioned", "Updating", "Disabling", "Disabled",
     "Terminating", "DisablingFailed", "TerminatingFailed", "UnableToCreateUser",
     "UnableToCreateIdentity", "UnableToCreateMapping"}

UserAccount ==
    [life: {"live", "deleting", "gone"}, fin: BOOLEAN, spec: Specs, reason: Reasons]

User == [uid: 0..MaxUIDs, ids: Seq(Claims), lbl: BOOLEAN]

Identity == [on: BOOLEAN, uid: 0..MaxUIDs, lbl: BOOLEAN]

NoUser == [uid |-> 0, ids |-> <<>>, lbl |-> FALSE]
NoIdentity == [on |-> FALSE, uid |-> 0, lbl |-> FALSE]
Blank == [life |-> "gone", fin |-> FALSE, spec |-> CHOOSE s \in Specs : TRUE,
          reason |-> "None"]

\* deleteUserResources: the user settings of the web console, in the order of
\* their deletion
Kinds == <<"ConfigMap", "Role", "RoleBinding">>

PCs == {"idle", "finalizer", "user", "createUser", "userMap", "updateUser",
        "ident", "createIdent", "identMap", "mapIdent", "ready", "disabling",
        "dIdent", "dUser", "dUser2", "dDeleted", "dNone"}

---------------------------------------------------------------------------
(* Ends of Reconcile and status updates.                                   *)

Finish(requeue) ==
    /\ pc' = "idle"
    /\ mem' = Blank /\ current' = FALSE
    /\ mUser' = NoUser /\ mUserCur' = FALSE
    /\ mIdent' = NoIdentity /\ mIdentCur' = FALSE /\ todo' = <<>>
    /\ queued' = (queued \/ requeue)

ReturnError == Finish(TRUE) /\ UNCHANGED <<acc, accSynced>>

\* updateStatusConditions, when it succeeds: no call if nothing changes
SetReason(reason) ==
    IF reason = mem.reason
      THEN UNCHANGED <<acc, accSynced>>
      ELSE /\ current
           /\ acc' = [acc EXCEPT !.reason = reason] /\ accSynced' = FALSE

\* ... and Reconcile goes on ...
UpdateStatus(reason, next) ==
    /\ SetReason(reason)
    /\ mem' = [mem EXCEPT !.reason = reason]
    /\ pc' = next
    /\ UNCHANGED <<current, queued, copyVars>>

\* ... or the resourceVersion is outdated.
Conflict(reason) == reason # mem.reason /\ ~current

\* Mutant: the error is reported in the status and swallowed.
SwallowedError(reason) ==
    /\ \/ current /\ acc' = [acc EXCEPT !.reason = reason] /\ accSynced' = FALSE
       \/ UNCHANGED <<acc, accSynced>>
    /\ Finish(FALSE)

\* wrapErrorWithStatusUpdate
FailWith(reason) ==
    /\ \/ current /\ acc' = [acc EXCEPT !.reason = reason] /\ accSynced' = FALSE
       \/ UNCHANGED <<acc, accSynced>>
    /\ Finish(TRUE)

\* The API server stores another version of the User or of an Identity. Watches of
\* both map an event to the account that the label of the old or the new one names.
SetUser(u) ==
    /\ user' = u /\ userSynced' = FALSE
    /\ wake' = IF user.lbl \/ u.lbl THEN wake \union {"user"} ELSE wake

SetIdentity(c, i) ==
    /\ idents' = [idents EXCEPT ![c] = i]
    /\ idSynced' = [idSynced EXCEPT ![c] = FALSE]
    /\ wake' = IF idents[c].lbl \/ i.lbl THEN wake \union {c} ELSE wake

CallFails == faults < MaxFaults /\ faults' = faults + 1 /\ UNCHANGED <<skip, legacy, recent, changes>>

---------------------------------------------------------------------------
(* Reconcile: the User and its Identities.                                 *)

\* The Identities of the claims: Sub, OriginalSub if set, UserID if different
expectedIdentities(c) ==
    <<c.Sub>>
    \o (IF c.OriginalSub # NoClaim THEN <<c.OriginalSub>> ELSE <<>>)
    \o (IF c.UserID \notin {NoClaim, c.Sub} THEN <<c.UserID>> ELSE <<>>)

Ensure(spec) ==
    IF spec.disabled THEN "disabling" ELSE IF skip THEN "dIdent" ELSE "user"

\* Mutant: no finalizer is added.
NoFinalizer ==
    /\ pc = "idle" /\ queued
    /\ "acc" \in Lagging \/ accSynced
    /\ queued' = FALSE
    /\ IF cAcc.life # "live"
         THEN UNCHANGED <<pc, mem, current>>
         ELSE /\ mem' = cAcc /\ current' = accSynced
              /\ pc' = Ensure(cAcc.spec)
    /\ UNCHANGED <<acc, accSynced, objVars, cacheVars, copyVars, envVars>>

\* Reconcile: get the UserAccount from the cache, see what is to be done.
StartReconcile ==
    /\ pc = "idle" /\ queued
    /\ "acc" \in Lagging \/ accSynced
    /\ queued' = FALSE
    /\ IF cAcc.life = "gone" \/ (cAcc.life = "deleting" /\ ~cAcc.fin)
         THEN UNCHANGED <<pc, mem, current>>
         ELSE /\ mem' = cAcc /\ current' = accSynced
              /\ pc' = IF cAcc.life = "deleting" THEN "dIdent"
                       ELSE IF ~cAcc.fin THEN "finalizer" ELSE Ensure(cAcc.spec)
    /\ UNCHANGED <<acc, accSynced, objVars, cacheVars, copyVars, envVars>>

\* addFinalizer
AddFinalizer ==
    /\ pc = "finalizer"
    /\ \/ /\ current
          /\ acc' = [acc EXCEPT !.fin = TRUE] /\ accSynced' = FALSE
          /\ mem' = [mem EXCEPT !.fin = TRUE]
          /\ pc' = Ensure(mem.spec)
          /\ UNCHANGED <<current, queued, copyVars>>
       \/ ~current /\ ReturnError
    /\ UNCHANGED <<objVars, cacheVars, envVars>>

UserReadable == "user" \in Lagging \/ userSynced

\* ensureUser: there is no User yet ...
AnnounceUser ==
    /\ pc = "user" /\ UserReadable
    /\ cUser.uid = 0
    /\ UpdateStatus("Provisioning", "createUser") \/ (Conflict("Provisioning") /\ ReturnError)
    /\ UNCHANGED <<objVars, cacheVars, envVars>>

CreateUser ==
    /\ pc = "createUser"
    /\ \/ /\ user.uid = 0 /\ uids < MaxUIDs
          /\ SetUser([uid |-> uids + 1, ids |-> expectedIdentities(mem.spec.claims),
                      lbl |-> TRUE])
          /\ uids' = uids + 1
          /\ Finish(FALSE) /\ UNCHANGED <<acc, accSynced>>
       \/ /\ user.uid # 0
          /\ FailWith("UnableToCreateUser")
          /\ UNCHANGED <<user, uids, userSynced, wake>>
    /\ UNCHANGED <<idents, settings, idSynced, caches, envVars>>

\* ... or there is one: addLabelsAndAnnotations, whose failure is only logged
LabelUser ==
    /\ pc = "user" /\ UserReadable
    /\ cUser.uid # 0
    /\ mUser' = [cUser EXCEPT !.lbl = TRUE] /\ mUserCur' = userSynced
    /\ IF userSynced /\ ~cUser.lbl
         THEN SetUser([user EXCEPT !.lbl = TRUE])
         ELSE UNCHANGED <<user, userSynced, wake>>
    /\ pc' = "userMap"
    /\ UNCHANGED <<acc, accSynced, idents, settings, uids, idSynced, caches, queued,
                   mem, current, mIdent, mIdentCur, todo, envVars>>

\* Mutant: the references are compared by their number.
OrderIgnored ==
    /\ pc = "userMap"
    /\ \/ /\ Len(mUser.ids) = Len(expectedIdentities(mem.spec.claims))
          /\ pc' = "ident" /\ todo' = expectedIdentities(mem.spec.claims)
          /\ UNCHANGED <<acc, accSynced, queued, mem, current, mUser, mUserCur, mIdent,
                         mIdentCur>>
       \/ /\ Len(mUser.ids) # Len(expectedIdentities(mem.spec.claims))
          /\ \/ UpdateStatus("Provisioning", "updateUser")
             \/ Conflict("Provisioning") /\ ReturnError
    /\ UNCHANGED <<objVars, cacheVars, envVars>>

\* ... which has to refer to the expected Identities, in their order
MapUser ==
    /\ pc = "userMap"
    /\ \/ /\ mUser.ids = expectedIdentities(mem.spec.claims)
          /\ pc' = "ident" /\ todo' = expectedIdentities(mem.spec.claims)
          /\ UNCHANGED <<acc, accSynced, queued, mem, current, mUser, mUserCur, mIdent,
                         mIdentCur>>
       \/ /\ mUser.ids # expectedIdentities(mem.spec.claims)
          /\ \/ UpdateStatus("Provisioning", "updateUser")
             \/ Conflict("Provisioning") /\ ReturnError
    /\ UNCHANGED <<objVars, cacheVars, envVars>>

UpdateUser ==
    /\ pc = "updateUser"
    /\ \/ /\ mUserCur
          /\ SetUser([mUser EXCEPT !.ids = expectedIdentities(mem.spec.claims)])
          /\ Finish(FALSE) /\ UNCHANGED <<acc, accSynced>>
       \/ /\ ~mUserCur
          /\ FailWith("UnableToCreateMapping")
          /\ UNCHANGED <<user, userSynced, wake>>
    /\ UNCHANGED <<idents, settings, uids, idSynced, caches, envVars>>

IdentitiesReadable == "ident" \in Lagging \/ \A c \in Claims : idSynced[c]

\* ensureIdentity: one claim after the other, until one of them changes something
AllIdentitiesDone ==
    /\ pc = "ident" /\ todo = <<>>
    /\ pc' = "ready"
    /\ UNCHANGED <<acc, accSynced, objVars, cacheVars, queued, mem, current, copyVars, envVars>>

\* loadIdentityAndEnsureMapping: there is no such Identity ...
AnnounceIdentity ==
    /\ pc = "ident" /\ todo # <<>> /\ IdentitiesReadable
    /\ ~cIdents[Head(todo)].on
    /\ \/ UpdateStatus("Provisioning", "createIdent")
       \/ Conflict("Provisioning") /\ ReturnError
    /\ UNCHANGED <<objVars, cacheVars, envVars>>

CreateIdentity ==
    /\ pc = "createIdent"
    /\ \/ /\ ~idents[Head(todo)].on
          /\ SetIdentity(Head(todo), [on |-> TRUE, uid |-> mUser.uid, lbl |-> TRUE])
          /\ Finish(FALSE) /\ UNCHANGED <<acc, accSynced>>
       \/ /\ idents[Head(todo)].on
          /\ FailWith("UnableToCreateIdentity")
          /\ UNCHANGED <<idents, idSynced, wake>>
    /\ UNCHANGED <<user, settings, uids, userSynced, caches, envVars>>

\* ... or there is one: label it (a failure is only logged) ...
LabelIdentity ==
    /\ pc = "ident" /\ todo # <<>> /\ IdentitiesReadable
    /\ LET c == Head(todo) IN
          /\ cIdents[c].on
          /\ mIdent' = [cIdents[c] EXCEPT !.lbl = TRUE] /\ mIdentCur' = idSynced[c]
          /\ IF idSynced[c] /\ ~cIdents[c].lbl
               THEN SetIdentity(c, [idents[c] EXCEPT !.lbl = TRUE])
               ELSE UNCHANGED <<idents, idSynced, wake>>
    /\ pc' = "identMap"
    /\ UNCHANGED <<acc, accSynced, user, settings, uids, userSynced, caches, queued,
                   mem, current, mUser, mUserCur, todo, envVars>>

\* ... and it has to refer to the User
MapIdentity ==
    /\ pc = "identMap"
    /\ \/ /\ mIdent.uid = mUser.uid
          /\ pc' = "ident" /\ todo' = Tail(todo)
          /\ mIdent' = NoIdentity /\ mIdentCur' = FALSE
          /\ UNCHANGED <<acc, accSynced, queued, mem, current, mUser, mUserCur>>
       \/ /\ mIdent.uid # mUser.uid
          /\ \/ UpdateStatus("Provisioning", "mapIdent")
             \/ Conflict("Provisioning") /\ ReturnError
    /\ UNCHANGED <<objVars, cacheVars, envVars>>

UpdateIdentity ==
    /\ pc = "mapIdent"
    /\ \/ /\ mIdentCur
          /\ SetIdentity(Head(todo), [mIdent EXCEPT !.uid = mUser.uid])
          /\ Finish(FALSE) /\ UNCHANGED <<acc, accSynced>>
       \/ /\ ~mIdentCur
          /\ FailWith("UnableToCreateMapping")
          /\ UNCHANGED <<idents, idSynced, wake>>
    /\ UNCHANGED <<user, settings, uids, userSynced, caches, envVars>>

\* The end of Reconcile: postpone, or setStatusReady
SetStatusReady ==
    /\ pc = "ready"
    /\ \/ mem.reason = "Updating" /\ recent /\ ReturnError
       \/ /\ ~(mem.reason = "Updating" /\ recent)
          /\ \/ SetReason("Provisioned") /\ Finish(FALSE)
             \/ Conflict("Provisioned") /\ ReturnError
    /\ UNCHANGED <<objVars, cacheVars, envVars>>

---------------------------------------------------------------------------
(* deleteIdentityAndUser, called for an account that is being deleted, one *)
(* that is disabled, and one of a cluster that skips the creation of users *)

Disabling ==
    /\ pc = "disabling"
    /\ \/ UpdateStatus("Disabling", "dIdent")
       \/ Conflict("Disabling") /\ ReturnError
    /\ UNCHANGED <<objVars, cacheVars, envVars>>

\* The status updater the caller wraps an error with
DeleteFailure ==
    IF mem.life = "deleting" THEN "TerminatingFailed"
    ELSE IF mem.spec.disabled THEN "DisablingFailed" ELSE "UnableToCreateUser"

\* Mutant: deleteIdentityAndUser does not return after the first Identity.
FallThrough ==
    /\ pc = "dIdent" /\ IdentitiesReadable
    /\ LET owned == {c \in Claims : cIdents[c].on /\ cIdents[c].lbl} IN
       \/ /\ owned = {}
          /\ UNCHANGED <<idents, idSynced, wake>>
       \/ \E c \in owned : SetIdentity(c, NoIdentity)
    /\ pc' = "dUser"
    /\ UNCHANGED <<acc, accSynced, queued, mem, current, copyVars, user, settings, uids,
                   userSynced, caches, envVars>>

\* deleteIdentity: the first one that the cache lists by the owner label
DeleteIdentity ==
    /\ pc = "dIdent" /\ IdentitiesReadable
    /\ LET owned == {c \in Claims : cIdents[c].on /\ cIdents[c].lbl} IN
       \/ /\ owned = {}
          /\ pc' = "dUser"
          /\ UNCHANGED <<acc, accSynced, idents, idSynced, wake, queued, mem, current,
                         copyVars>>
       \/ \E c \in owned :
             \/ /\ idents[c].on
                /\ SetIdentity(c, NoIdentity)
                /\ pc' = "dDeleted"
                /\ UNCHANGED <<acc, accSynced, queued, mem, current, copyVars>>
             \/ /\ ~idents[c].on
                /\ FailWith(DeleteFailure)
                /\ UNCHANGED <<idents, idSynced, wake>>
    /\ UNCHANGED <<user, settings, uids, userSynced, caches, envVars>>

\* Mutant: the RoleBinding is forgotten.
BindingKept ==
    /\ pc = "dUser" /\ UserReadable
    /\ \/ /\ cUser.uid = 0 \/ ~cUser.lbl
          /\ pc' = "dNone" /\ UNCHANGED settings
       \/ /\ cUser.uid # 0 /\ cUser.lbl
          /\ settings' = settings \ ({cUser.uid} \X {"ConfigMap", "Role"})
          /\ pc' = "dUser2"
    /\ UNCHANGED <<acc, accSynced, user, idents, uids, userSynced, idSynced, cacheVars,
                   queued, mem, current, copyVars, envVars>>

\* deleteUser: list by the owner label; deleteUserResources of the listed UID
DeleteUserResources ==
    /\ pc = "dUser" /\ UserReadable
    /\ \/ /\ cUser.uid = 0 \/ ~cUser.lbl
          /\ pc' = "dNone" /\ UNCHANGED settings
       \/ /\ cUser.uid # 0 /\ cUser.lbl
          /\ settings' = settings \ ({cUser.uid} \X ToSet(Kinds))
          /\ pc' = "dUser2"
    /\ UNCHANGED <<acc, accSynced, user, idents, uids, userSynced, idSynced, cacheVars,
                   queued, mem, current, copyVars, envVars>>

\* deleteUser: Client.Delete, by name
DeleteUser ==
    /\ pc = "dUser2"
    /\ \/ /\ user.uid # 0
          /\ SetUser(NoUser)
          /\ pc' = "dDeleted"
          /\ UNCHANGED <<acc, accSynced, queued, mem, current, copyVars>>
       \/ /\ user.uid = 0
          /\ FailWith(DeleteFailure)
          /\ UNCHANGED <<user, userSynced, wake>>
    /\ UNCHANGED <<idents, settings, uids, idSynced, caches, envVars>>

\* Something was deleted: say so, and wait for its event.
Deleted ==
    IF mem.life = "deleting" THEN "Terminating"
    ELSE IF mem.spec.disabled THEN mem.reason ELSE "Provisioning"

ReportDeleted ==
    /\ pc = "dDeleted"
    /\ \/ SetReason(Deleted) /\ Finish(FALSE)
       \/ Conflict(Deleted) /\ ReturnError
    /\ UNCHANGED <<objVars, cacheVars, envVars>>

\* Nothing is left to delete: ensureUserAccountDeletion removes the finalizer,
\* a disabled account gets setStatusDisabled, a skipped one becomes ready.
RemoveFinalizer ==
    /\ pc = "dNone" /\ mem.life = "deleting"
    /\ \/ /\ current
          /\ acc' = [acc EXCEPT !.life = "gone", !.fin = FALSE] /\ accSynced' = FALSE
          /\ wake' = wake \union {"acc"}
          /\ Finish(FALSE)
       \/ ~current /\ FailWith("TerminatingFailed") /\ UNCHANGED wake
    /\ UNCHANGED <<objVars, cAcc, cUser, cIdents, envVars>>

SetStatusDisabled ==
    /\ pc = "dNone" /\ mem.life = "live" /\ mem.spec.disabled
    /\ \/ SetReason("Disabled") /\ Finish(FALSE)
       \/ Conflict("Disabled") /\ ReturnError
    /\ UNCHANGED <<objVars, cacheVars, envVars>>

NothingRedundant ==
    /\ pc = "dNone" /\ mem.life = "live" /\ ~mem.spec.disabled
    /\ pc' = "ready"
    /\ UNCHANGED <<acc, accSynced, objVars, cacheVars, queued, mem, current, copyVars, envVars>>

---------------------------------------------------------------------------
(* Failing calls and crashes.                                              *)

\* A call fails and Reconcile returns the error.
CallFault ==
    /\ CallFails
    /\ \/ /\ \/ pc = "finalizer"
             \/ pc = "ready" /\ mem.reason # "Provisioned"
             \/ pc = "disabling" /\ mem.reason # "Disabling"
             \/ pc = "dDeleted" /\ mem.reason # Deleted
             \/ /\ mem.reason # "Provisioning"
                /\ \/ pc = "user" /\ cUser.uid = 0
                   \/ pc = "userMap" /\ mUser.ids # expectedIdentities(mem.spec.claims)
                   \/ pc = "ident" /\ todo # <<>> /\ ~cIdents[Head(todo)].on
                   \/ pc = "identMap" /\ mIdent.uid # mUser.uid
             \/ pc = "dNone" /\ mem.life = "live" /\ mem.spec.disabled
          /\ ReturnError
          /\ UNCHANGED settings
       \/ /\ pc \in {"user", "createUser"}
          /\ FailWith("UnableToCreateUser")
          /\ UNCHANGED settings
       \/ /\ pc = "createIdent" \/ (pc = "ident" /\ todo # <<>>)
          /\ FailWith("UnableToCreateIdentity")
          /\ UNCHANGED settings
       \/ /\ pc \in {"updateUser", "mapIdent"}
          /\ FailWith("UnableToCreateMapping")
          /\ UNCHANGED settings
       \/ pc \in {"dIdent", "dUser2"} /\ FailWith(DeleteFailure) /\ UNCHANGED settings
       \/ /\ pc = "dUser"
          /\ \E n \in 0..(IF cUser.lbl THEN Len(Kinds) - 1 ELSE 0) :
                settings' = settings \ ({cUser.uid} \X ToSet(SubSeq(Kinds, 1, n)))
          /\ FailWith(DeleteFailure)
       \/ /\ pc = "dNone" /\ mem.life = "deleting"
          /\ FailWith("TerminatingFailed")
          /\ UNCHANGED settings
    /\ UNCHANGED <<user, idents, uids, userSynced, idSynced, cacheVars>>

\* The update of the labels fails, which ensureUser and
\* loadIdentityAndEnsureMapping log and pass over.
LabelFault ==
    /\ CallFails
    /\ \/ /\ pc = "user" /\ UserReadable /\ cUser.uid # 0 /\ ~cUser.lbl
          /\ mUser' = [cUser EXCEPT !.lbl = TRUE] /\ mUserCur' = userSynced
          /\ pc' = "userMap"
          /\ UNCHANGED <<mIdent, mIdentCur>>
       \/ /\ pc = "ident" /\ todo # <<>> /\ IdentitiesReadable
          /\ cIdents[Head(todo)].on /\ ~cIdents[Head(todo)].lbl
          /\ mIdent' = [cIdents[Head(todo)] EXCEPT !.lbl = TRUE]
          /\ mIdentCur' = idSynced[Head(todo)]
          /\ pc' = "identMap"
          /\ UNCHANGED <<mUser, mUserCur>>
    /\ UNCHANGED <<acc, accSynced, objVars, cacheVars, queued, mem, current, todo>>

\* The operator crashes; its successor starts from fresh caches.
Crash ==
    /\ CallFails
    /\ Finish(TRUE)
    /\ cAcc' = acc /\ accSynced' = TRUE /\ wake' = {}
    /\ cUser' = user /\ userSynced' = TRUE
    /\ cIdents' = idents /\ idSynced' = [c \in Claims |-> TRUE]
    /\ UNCHANGED <<acc, user, idents, settings, uids>>

---------------------------------------------------------------------------
(* The rest of the cluster (external).                                     *)

AnotherChange ==
    changes < MaxChanges /\ changes' = changes + 1 /\ UNCHANGED <<skip, legacy, recent, faults>>

\* The host operator disables or enables the account or changes its claims.
HostUpdates ==
    /\ AnotherChange
    /\ acc.life = "live"
    /\ \E s \in Specs \ {acc.spec} : acc' = [acc EXCEPT !.spec = s]
    /\ accSynced' = FALSE /\ wake' = wake \union {"acc"} /\ current' = FALSE
    /\ UNCHANGED <<objVars, cAcc, cUser, cIdents, queued, pc, mem, copyVars>>

\* The host operator deletes the UserAccount.
HostDeletes ==
    /\ AnotherChange
    /\ acc.life = "live"
    /\ acc' = [acc EXCEPT !.life = IF acc.fin THEN "deleting" ELSE "gone"]
    /\ accSynced' = FALSE /\ wake' = wake \union {"acc"} /\ current' = FALSE
    /\ UNCHANGED <<objVars, cAcc, cUser, cIdents, queued, pc, mem, copyVars>>

\* An administrator deletes the User, or an Identity.
AdminDeletesUser ==
    /\ Intruders /\ AnotherChange
    /\ user.uid # 0
    /\ SetUser(NoUser) /\ mUserCur' = FALSE
    /\ UNCHANGED <<acc, accSynced, idents, settings, uids, idSynced, caches, queued, pc,
                   mem, current, mUser, mIdent, mIdentCur, todo>>

AdminDeletesIdentity(c) ==
    /\ Intruders /\ AnotherChange
    /\ idents[c].on
    /\ SetIdentity(c, NoIdentity) /\ mIdentCur' = FALSE
    /\ UNCHANGED <<acc, accSynced, user, settings, uids, userSynced, caches, queued, pc,
                   mem, current, mUser, mUserCur, mIdent, todo>>

\* The identity c can be used to log in as the User.
Mapped(c) == idents[c].on /\ idents[c].uid = user.uid /\ c \in ToSet(user.ids)

\* The user logs in, and the web console stores settings under the UID.
ConsoleStoresSettings ==
    /\ \E c \in Claims : Mapped(c)
    /\ settings' = settings \union ({user.uid} \X ToSet(Kinds))
    /\ UNCHANGED <<acc, accSynced, user, idents, uids, userSynced, idSynced, cacheVars,
                   queued, pc, mem, current, copyVars, envVars>>

\* A second passes.
Tick ==
    /\ recent /\ recent' = FALSE
    /\ UNCHANGED <<acc, accSynced, objVars, cacheVars, queued, pc, mem, current, copyVars,
                   skip, legacy, changes, faults>>

---------------------------------------------------------------------------
(* Informers: SetupWithManager says which events enqueue a request.        *)

\* GenerationChangedPredicate; deletions pass
SyncUserAccount ==
    /\ ~accSynced
    /\ cAcc' = acc /\ accSynced' = TRUE
    /\ queued' = (queued \/ "acc" \in wake) /\ wake' = wake \ {"acc"}
    /\ UNCHANGED <<acc, objVars, cUser, cIdents, pc, mem, current, copyVars, envVars>>

\* Mutant: Users are not watched.
UsersUnwatched ==
    /\ ~userSynced
    /\ cUser' = user /\ userSynced' = TRUE
    /\ wake' = wake \ {"user"}
    /\ UNCHANGED <<acc, accSynced, user, idents, settings, uids, idSynced, cAcc, cIdents,
                   queued, pc, mem, current, copyVars, envVars>>

\* Users and Identities are mapped to the account by their owner label.
SyncUser ==
    /\ ~userSynced
    /\ cUser' = user /\ userSynced' = TRUE
    /\ queued' = (queued \/ "user" \in wake) /\ wake' = wake \ {"user"}
    /\ UNCHANGED <<acc, accSynced, user, idents, settings, uids, idSynced, cAcc, cIdents,
                   pc, mem, current, copyVars, envVars>>

\* Mutant: Identities are not watched.
IdentitiesUnwatched(c) ==
    /\ ~idSynced[c]
    /\ cIdents' = [cIdents EXCEPT ![c] = idents[c]]
    /\ idSynced' = [idSynced EXCEPT ![c] = TRUE]
    /\ wake' = wake \ {c}
    /\ UNCHANGED <<acc, accSynced, user, idents, settings, uids, userSynced, cAcc, cUser,
                   queued, pc, mem, current, copyVars, envVars>>

SyncIdentity(c) ==
    /\ ~idSynced[c]
    /\ cIdents' = [cIdents EXCEPT ![c] = idents[c]]
    /\ idSynced' = [idSynced EXCEPT ![c] = TRUE]
    /\ queued' = (queued \/ c \in wake) /\ wake' = wake \ {c}
    /\ UNCHANGED <<acc, accSynced, user, idents, settings, uids, userSynced, cAcc, cUser,
                   pc, mem, current, copyVars, envVars>>

\* An event of the NSTemplateSet of the same name, or a periodic resync
OtherEvent ==
    /\ ~queued /\ queued' = TRUE
    /\ UNCHANGED <<acc, accSynced, objVars, cacheVars, pc, mem, current, copyVars, envVars>>

---------------------------------------------------------------------------
\* A new account, or one that an earlier version of the operator provisioned
\* without labels and was updating.
Init ==
    /\ skip \in Skips /\ legacy \in Legacies
    /\ acc \in [life: {"live"}, fin: {legacy}, spec: Specs,
                reason: {IF legacy THEN "Updating" ELSE "None"}]
    /\ uids = (IF legacy THEN 1 ELSE 0)
    /\ user = IF legacy THEN [uid |-> 1, ids |-> <<acc.spec.claims.Sub>>, lbl |-> FALSE]
              ELSE NoUser
    /\ idents = [c \in Claims |-> IF legacy /\ c = acc.spec.claims.Sub
                                  THEN [on |-> TRUE, uid |-> 1, lbl |-> FALSE]
                                  ELSE NoIdentity]
    /\ settings = {}
    /\ cAcc = acc /\ accSynced = TRUE /\ wake = {}
    /\ cUser = user /\ userSynced = TRUE
    /\ cIdents = idents /\ idSynced = [c \in Claims |-> TRUE]
    /\ queued = TRUE
    /\ pc = "idle" /\ mem = Blank /\ current = FALSE
    /\ mUser = NoUser /\ mUserCur = FALSE
    /\ mIdent = NoIdentity /\ mIdentCur = FALSE /\ todo = <<>>
    /\ recent = legacy
    /\ changes = 0 /\ faults = 0

Reconcile ==
    \/ StartReconcile \/ AddFinalizer
    \/ AnnounceUser \/ CreateUser \/ LabelUser \/ MapUser \/ UpdateUser
    \/ AllIdentitiesDone \/ AnnounceIdentity \/ CreateIdentity \/ LabelIdentity
    \/ MapIdentity \/ UpdateIdentity
    \/ SetStatusReady
    \/ Disabling \/ DeleteIdentity \/ DeleteUserResources \/ DeleteUser
    \/ ReportDeleted \/ RemoveFinalizer \/ SetStatusDisabled \/ NothingRedundant

Fault == CallFault \/ LabelFault \/ Crash

Others ==
    \/ HostUpdates \/ HostDeletes \/ AdminDeletesUser
    \/ \E c \in Claims : AdminDeletesIdentity(c)
    \/ ConsoleStoresSettings

Cluster ==
    \/ Tick \/ SyncUserAccount \/ SyncUser \/ OtherEvent
    \/ \E c \in Claims : SyncIdentity(c)

Next == Reconcile \/ Fault \/ Others \/ Cluster

Spec == Init /\ [][Next]_vars

\* The worker keeps running Reconcile, informers deliver in the end, and time
\* passes. Nothing is assumed of faults and of others.
Fairness ==
    /\ WF_vars(Reconcile) /\ WF_vars(Tick)
    /\ WF_vars(SyncUserAccount) /\ WF_vars(SyncUser)
    /\ \A c \in Claims : WF_vars(SyncIdentity(c))

FairSpec == Spec /\ Fairness

---------------------------------------------------------------------------
AccTypes == acc \in UserAccount /\ accSynced \in BOOLEAN

ObjTypes ==
    /\ user \in User /\ userSynced \in BOOLEAN /\ uids \in 0..MaxUIDs
    /\ idents \in [Claims -> Identity] /\ idSynced \in [Claims -> BOOLEAN]
    /\ settings \subseteq (1..MaxUIDs) \X ToSet(Kinds)

CacheTypes ==
    /\ cAcc \in UserAccount /\ cUser \in User /\ cIdents \in [Claims -> Identity]
    /\ wake \subseteq Claims \union {"acc", "user"}

RunTypes ==
    /\ mem \in UserAccount /\ current \in BOOLEAN /\ queued \in BOOLEAN /\ pc \in PCs

CopyTypes ==
    /\ mUser \in User /\ mUserCur \in BOOLEAN
    /\ mIdent \in Identity /\ mIdentCur \in BOOLEAN
    /\ todo \in Seq(Claims)

EnvTypes ==
    /\ skip \in BOOLEAN /\ legacy \in BOOLEAN /\ recent \in BOOLEAN
    /\ changes \in 0..MaxChanges /\ faults \in 0..MaxFaults

\* Every variable has its type in every state Reconcile and its environment reach.
TypeOK == AccTypes /\ ObjTypes /\ CacheTypes /\ RunTypes /\ CopyTypes /\ EnvTypes

---------------------------------------------------------------------------
(* Safety.                                                                 *)

Becomes(reason) == acc.reason # reason /\ acc'.reason = reason

Undisturbed == ~Intruders /\ Lagging \intersect {"user", "ident"} = {}

\* When the account becomes Provisioned, the User refers to exactly the
\* Identities of the claims in the stored spec, in order, and each of them
\* exists and refers back by the UID of this User, even after the User was
\* removed and made anew. (Fresh caches, no administrator at work.)
ProvisionedIsMapped ==
    [][Becomes("Provisioned") /\ ~skip /\ Undisturbed =>
          /\ user.uid # 0
          /\ user.ids = expectedIdentities(acc'.spec.claims)
          /\ \A c \in ToSet(user.ids) : idents[c].on /\ idents[c].uid = user.uid]_vars

\* When the account becomes Disabled, nothing that carries the owner label is
\* left; unless an earlier version left a User unlabelled, there is no User and
\* there are no settings of the console, although deleteUser removes settings and
\* User in two steps and a Reconcile may stop between any two deletions.
DisabledIsRemoved ==
    [][Becomes("Disabled") /\ Undisturbed =>
          /\ acc'.spec.disabled
          /\ ~user.lbl /\ (\A c \in Claims : ~idents[c].lbl)
          /\ ~legacy => user.uid = 0 /\ settings = {}]_vars

\* An account that is gone has left no User, Identity or settings behind, but
\* for a User and Identities that were never labelled as the operator's.
NothingOwnedLeft ==
    acc.life = "gone" /\ Undisturbed =>
        /\ ~user.lbl /\ (\A c \in Claims : ~idents[c].lbl)
        /\ ~legacy => user.uid = 0 /\ settings = {}

\* deleteIdentityAndUser deletes the User after its Identities: when the User
\* goes, no Identity of the operator is left, and nobody could log in anymore
\* after the settings of the console had been removed.
IdentitiesDeletedFirst ==
    [][user.uid # 0 /\ user'.uid = 0 /\ Undisturbed =>
          /\ \A c \in Claims : ~idents[c].lbl
          /\ ~legacy => \A c \in Claims : ~Mapped(c)
          /\ ~legacy => settings = {}]_vars

---------------------------------------------------------------------------
(* The inductive invariant behind the safety properties.                   *)

\* Places of Reconcile: where it works on an Identity, where it has the User,
\* where it may write either, and deleteIdentityAndUser.
OnIdentity == {"createIdent", "identMap", "mapIdent"}
Mapping == {"userMap", "updateUser", "ident"} \union OnIdentity
Writing == {"user", "createUser"} \union Mapping
Removing == {"dIdent", "dUser", "dUser2", "dDeleted", "dNone"}

\* A copy whose resourceVersion is the stored one is the stored object, but for
\* the label that Reconcile adds and may fail to store.
CopiesOK ==
    /\ accSynced => cAcc = acc
    /\ userSynced => cUser = user
    /\ \A c \in Claims : idSynced[c] => cIdents[c] = idents[c]
    /\ current => mem = acc /\ pc # "idle"
    /\ pc \in OnIdentity => todo # <<>>
    /\ mUserCur => /\ pc \in {"ready"} \union Mapping
                   /\ mUser = [user EXCEPT !.lbl = TRUE]
    /\ mIdentCur => /\ pc \in OnIdentity
                    /\ mIdent = [idents[Head(todo)] EXCEPT !.lbl = TRUE]

\* Deletion is final and known to the copies, and Users and Identities are
\* written only while the finalizer is there.
LifeOK ==
    /\ cAcc.life # "live" => acc.life # "live"
    /\ pc # "idle" => mem.life # "gone"
    /\ pc # "idle" /\ mem.life # "live" => cAcc.life # "live"
    /\ acc.life = "gone" => ~acc.fin
    /\ pc \in Writing \/ (cAcc.life = "live" /\ cAcc.fin) => acc.fin
    /\ pc \in Removing /\ mem.life = "live" /\ ~mem.spec.disabled => skip
    /\ pc = "disabling" => mem.spec.disabled

\* The operator labels what it makes.
ObjectsOK ==
    /\ user.uid = 0 => user = NoUser
    /\ \A c \in Claims : ~idents[c].on => idents[c] = NoIdentity
    /\ pc \in Mapping => mUser.uid # 0
    /\ pc \in {"identMap", "mapIdent"} => mIdent.on
    /\ ~legacy => /\ user.uid # 0 => user.lbl
                  /\ \A c \in Claims : idents[c].on => idents[c].lbl

\* Nothing that carries the owner label is left.
Removed ==
    /\ ~user.lbl /\ (\A c \in Claims : ~idents[c].lbl)
    /\ ~legacy => user.uid = 0 /\ settings = {}

\* How far deleteIdentityAndUser is.
RemovalOK ==
    /\ ~acc.fin => Removed
    /\ ~legacy => settings \subseteq {user.uid} \X ToSet(Kinds)
    /\ pc \in {"dUser", "dUser2", "dNone"} => \A c \in Claims : ~idents[c].lbl
    /\ pc = "dUser2" => user.uid # 0 /\ (~legacy => settings = {})
    /\ pc = "dNone" => Removed

\* How far ensureUser and ensureIdentity are.
MappingOK ==
    /\ pc \in Mapping \/ (pc = "ready" /\ ~skip) => mUser.uid = user.uid /\ mUser.ids = user.ids
    /\ pc \in {"ident"} \union OnIdentity \/ (pc = "ready" /\ ~skip) =>
          /\ user.uid # 0
          /\ user.ids = expectedIdentities(mem.spec.claims)
          /\ \A c \in ToSet(user.ids) :
                c \in ToSet(todo) \/ (idents[c].on /\ idents[c].uid = user.uid)
    /\ pc = "identMap" =>
          idents[Head(todo)].on /\ idents[Head(todo)].uid = mIdent.uid
    /\ pc = "ready" /\ ~skip => todo = <<>>

\* Everything the safety properties rest on, preserved by every single step.
IndInv ==
    /\ TypeOK /\ CopiesOK /\ LifeOK /\ ObjectsOK
    /\ Undisturbed => RemovalOK /\ MappingOK

---------------------------------------------------------------------------
(* Liveness, under FairSpec.                                               *)

Provisioned ==
    IF acc.spec.disabled \/ skip
      THEN ~user.lbl /\ \A c \in Claims : ~idents[c].lbl
      ELSE /\ user.uid # 0 /\ user.ids = expectedIdentities(acc.spec.claims)
           /\ \A c \in ToSet(user.ids) : idents[c].on /\ idents[c].uid = user.uid

\* Once the others leave it alone, an account that is not deleted has the User
\* and the Identities of its latest spec (none if it is disabled), and keeps them:
\* Reconcile changes one object at a time and counts on an event to go on, and no
\* lost object, failed call, stale cache or crash leaves it waiting for ever.
EventuallyProvisioned == <>[](acc.life = "live" => Provisioned)

\* The status of an account that is not deleted says Provisioned, or Disabled,
\* again and again (setStatusDisabling comes first in every Reconcile of a
\* disabled account): no failure reported once stays in the status.
EventuallyReported ==
    []<>(acc.life = "live" =>
            acc.reason = (IF acc.spec.disabled THEN "Disabled" ELSE "Provisioned"))

\* ensureUserAccountDeletion comes to its end: a deleted account goes away,
\* although every deletion of an Identity or User waits for its event.
DeletionCompletes == acc.life = "deleting" ~> acc.life = "gone"

===========================================================================
