------------------------- MODULE UserAccount_proofs -------------------------
(***************************************************************************)
(* Proofs about UserAccountController: IndInv is an inductive invariant,   *)
(* and an account that is gone, disabled or provisioned has left nothing,  *)
(* is removed or is mapped as the properties of that module say.           *)
(***************************************************************************)
EXTENDS UserAccountController, TLAPS

USE DEF objVars, caches, cacheVars, copyVars, envVars

---------------------------------------------------------------------------
(* Types.                                                                  *)

LEMMA BlankTypes == Blank \in UserAccount /\ NoUser \in User /\ NoIdentity \in Identity
  <1>1. (CHOOSE s \in Specs : TRUE) \in Specs
    BY UserAccountAssumption
  <1>2. NoUser \in User /\ NoIdentity \in Identity
    BY UserAccountAssumption DEF NoUser, NoIdentity, User, Identity
  <1> QED
    BY <1>1, <1>2 DEF Blank, UserAccount, Reasons

\* The Identities of the claims are named after claims, and Sub is always one.
LEMMA ExpectedTypes ==
  ASSUME NEW s \in Specs
  PROVE  expectedIdentities(s.claims) \in Seq(Claims) /\ expectedIdentities(s.claims) # <<>>
  <1> DEFINE c == s.claims
             two == IF c.OriginalSub # NoClaim THEN <<c.OriginalSub>> ELSE <<>>
             three == IF c.UserID \notin {NoClaim, c.Sub} THEN <<c.UserID>> ELSE <<>>
  <1>1. /\ c.Sub \in Claims /\ c.OriginalSub \in Claims \union {NoClaim}
        /\ c.UserID \in Claims \union {NoClaim}
    BY UserAccountAssumption DEF PropagatedClaims
  <1>2. <<c.Sub>> \in Seq(Claims) /\ two \in Seq(Claims) /\ three \in Seq(Claims)
    BY <1>1
  <1> HIDE DEF two, three
  <1>3. <<c.Sub>> \o two \o three \in Seq(Claims) /\ Len(<<c.Sub>> \o two \o three) > 0
    BY <1>1, <1>2
  <1>4. expectedIdentities(c) = <<c.Sub>> \o two \o three
    BY DEF expectedIdentities, two, three
  <1> QED
    BY <1>3, <1>4

\* A write of the account that concerns its condition only, or none.
QuietAcc ==
    /\ acc'.life = acc.life /\ acc'.fin = acc.fin /\ acc'.spec = acc.spec
    /\ accSynced' => accSynced /\ acc' = acc

\* Reconcile ends, with or without an error and a new condition.
EndStep ==
    \/ Finish(FALSE) /\ UNCHANGED <<acc, accSynced>>
    \/ ReturnError
    \/ \E reason \in Reasons : FailWith(reason)
    \/ \E reason \in Reasons : SetReason(reason) /\ Finish(FALSE)

LEMMA Finishes ==
  ASSUME TypeOK, NEW b \in BOOLEAN, Finish(b)
  PROVE  /\ RunTypes' /\ CopyTypes'
         /\ pc' = "idle" /\ current' = FALSE /\ mUserCur' = FALSE /\ mIdentCur' = FALSE
  <1>1. /\ pc' = "idle" /\ current' = FALSE /\ mUserCur' = FALSE /\ mIdentCur' = FALSE
        /\ mem' = Blank /\ mUser' = NoUser /\ mIdent' = NoIdentity /\ todo' = <<>>
    BY DEF Finish
  <1>2. queued' \in BOOLEAN
    <2>1. queued' = (queued \/ b)
      BY DEF Finish
    <2>2. CASE queued \/ b
      BY <2>1, <2>2
    <2>3. CASE ~(queued \/ b)
      BY <2>1, <2>3
    <2> QED
      BY <2>2, <2>3
  <1>3. RunTypes'
    BY <1>1, <1>2, BlankTypes DEF RunTypes, PCs
  <1>4. CopyTypes'
    <2>1. todo' \in Seq(Claims)
      BY <1>1
    <2>2. mUser' \in User /\ mIdent' \in Identity
      BY <1>1, BlankTypes, Zenon
    <2>3. mUserCur' \in BOOLEAN /\ mIdentCur' \in BOOLEAN
      BY <1>1
    <2> QED
      BY <2>1, <2>2, <2>3 DEF CopyTypes
  <1> QED
    BY <1>1, <1>3, <1>4

LEMMA Ends ==
  ASSUME TypeOK, EndStep
  PROVE  /\ AccTypes' /\ RunTypes' /\ CopyTypes' /\ QuietAcc
         /\ pc' = "idle" /\ current' = FALSE /\ mUserCur' = FALSE /\ mIdentCur' = FALSE
  <1>1. Finish(TRUE) \/ Finish(FALSE)
    BY DEF EndStep, ReturnError, FailWith
  <1>2. /\ RunTypes' /\ CopyTypes'
        /\ pc' = "idle" /\ current' = FALSE /\ mUserCur' = FALSE /\ mIdentCur' = FALSE
    BY <1>1, Finishes
  <1>3. \/ UNCHANGED <<acc, accSynced>>
        \/ \E reason \in Reasons : acc' = [acc EXCEPT !.reason = reason] /\ accSynced' = FALSE
    BY DEF EndStep, ReturnError, FailWith, SetReason
  <1>4. AccTypes' /\ QuietAcc
    <2>1. acc \in UserAccount /\ accSynced \in BOOLEAN
      BY DEF TypeOK, AccTypes
    <2>2. CASE UNCHANGED <<acc, accSynced>>
      BY <2>1, <2>2 DEF AccTypes, QuietAcc
    <2>3. ASSUME NEW reason \in Reasons,
                 acc' = [acc EXCEPT !.reason = reason], accSynced' = FALSE
          PROVE  AccTypes' /\ QuietAcc
      BY <2>1, <2>3 DEF AccTypes, QuietAcc, UserAccount
    <2> QED
      BY <1>3, <2>2, <2>3
  <1> QED
    BY <1>2, <1>4

\* A new condition, and Reconcile goes on.
LEMMA Updates ==
  ASSUME TypeOK, current => mem = acc, NEW reason \in Reasons, NEW next \in PCs,
         UpdateStatus(reason, next)
  PROVE  /\ AccTypes' /\ RunTypes' /\ CopyTypes' /\ QuietAcc
         /\ mem'.life = mem.life /\ mem'.spec = mem.spec /\ mem'.fin = mem.fin
         /\ current' = current /\ (current => mem' = acc') /\ pc' = next /\ UNCHANGED copyVars
  <1>1. /\ mem' = [mem EXCEPT !.reason = reason] /\ pc' = next /\ current' = current
        /\ UNCHANGED <<queued, copyVars>>
    BY DEF UpdateStatus
  <1>2. CASE reason = mem.reason /\ UNCHANGED <<acc, accSynced>>
    <2>1. mem' = mem
      BY <1>1, <1>2 DEF TypeOK, RunTypes, UserAccount
    <2> QED
      BY <1>1, <1>2, <2>1 DEF TypeOK, AccTypes, RunTypes, CopyTypes, QuietAcc
  <1>3. CASE /\ reason # mem.reason /\ current
             /\ acc' = [acc EXCEPT !.reason = reason] /\ accSynced' = FALSE
    BY <1>1, <1>3 DEF TypeOK, AccTypes, RunTypes, CopyTypes, QuietAcc, UserAccount
  <1> QED
    BY <1>2, <1>3 DEF UpdateStatus, SetReason

---------------------------------------------------------------------------
(* What a step may change.                                                 *)

ObjSteps ==
    \/ CreateUser \/ LabelUser \/ UpdateUser \/ DeleteUserResources \/ DeleteUser
    \/ CreateIdentity \/ LabelIdentity \/ UpdateIdentity \/ DeleteIdentity
    \/ CallFault \/ Crash \/ ConsoleStoresSettings \/ SyncUser
    \/ AdminDeletesUser \/ (\E c \in Claims : AdminDeletesIdentity(c) \/ SyncIdentity(c))

LEMMA ObjFrame ==
  ASSUME [Next]_vars
  PROVE  ObjSteps \/ UNCHANGED <<objVars, wake>>
            \/ (UNCHANGED objVars /\ wake' \in {wake \ {"acc"}, wake \union {"acc"}})
  <1>1. CASE UNCHANGED vars
    BY <1>1 DEF vars
  <1>2. CASE Reconcile
    BY <1>2 DEF Reconcile, ObjSteps, StartReconcile, AddFinalizer, AnnounceUser, MapUser,
                AllIdentitiesDone, AnnounceIdentity, MapIdentity, SetStatusReady, Disabling,
                ReportDeleted, RemoveFinalizer, SetStatusDisabled, NothingRedundant
  <1>3. CASE Fault
    BY <1>3 DEF Fault, ObjSteps, LabelFault
  <1>4. CASE Others
    BY <1>4 DEF Others, ObjSteps, HostUpdates, HostDeletes
  <1>5. CASE Cluster
    BY <1>5 DEF Cluster, ObjSteps, Tick, SyncUserAccount, OtherEvent
  <1> QED
    BY <1>1, <1>2, <1>3, <1>4, <1>5 DEF Next

LEMMA EnvFrame ==
  ASSUME [Next]_vars
  PROVE  /\ UNCHANGED <<skip, legacy>>
         /\ UNCHANGED envVars \/ CallFails \/ AnotherChange \/ Tick
  <1>1. CASE UNCHANGED vars
    BY <1>1 DEF vars
  <1>2. CASE Reconcile
    <2>1. UNCHANGED envVars
      BY <1>2 DEF Reconcile, StartReconcile, AddFinalizer, AnnounceUser, MapUser,
                  AllIdentitiesDone, AnnounceIdentity, MapIdentity, SetStatusReady, Disabling,
                  ReportDeleted, RemoveFinalizer, SetStatusDisabled, NothingRedundant,
                  CreateUser, LabelUser, UpdateUser, DeleteUserResources, DeleteUser,
                  CreateIdentity, LabelIdentity, UpdateIdentity, DeleteIdentity
    <2> QED
      BY <2>1
  <1>3. CASE Fault
    BY <1>3 DEF Fault, CallFault, LabelFault, Crash, CallFails
  <1>4. CASE Others
    BY <1>4 DEF Others, HostUpdates, HostDeletes, AdminDeletesUser, AdminDeletesIdentity,
                ConsoleStoresSettings, AnotherChange
  <1>5. CASE Cluster
    BY <1>5 DEF Cluster, Tick, SyncUserAccount, SyncUser, SyncIdentity, OtherEvent
  <1> QED
    BY <1>1, <1>2, <1>3, <1>4, <1>5 DEF Next

LEMMA NextEnvTypes ==
  ASSUME EnvTypes, [Next]_vars
  PROVE  EnvTypes'
  <1>1. skip' \in BOOLEAN /\ legacy' \in BOOLEAN /\ recent' \in BOOLEAN
    BY EnvFrame DEF EnvTypes, CallFails, AnotherChange, Tick
  <1>2. changes' \in 0..MaxChanges
    <2>1. changes' = changes \/ (changes < MaxChanges /\ changes' = changes + 1)
      BY EnvFrame DEF CallFails, AnotherChange, Tick
    <2>2. changes \in 0..MaxChanges
      BY DEF EnvTypes
    <2> QED
      BY <2>1, <2>2, UserAccountAssumption
  <1>3. faults' \in 0..MaxFaults
    <2>1. faults' = faults \/ (faults < MaxFaults /\ faults' = faults + 1)
      BY EnvFrame DEF CallFails, AnotherChange, Tick
    <2>2. faults \in 0..MaxFaults
      BY DEF EnvTypes
    <2> QED
      BY <2>1, <2>2, UserAccountAssumption
  <1> QED
    BY <1>1, <1>2, <1>3 DEF EnvTypes

\* The User, the Identities and the settings keep their types.
LEMMA NextObjTypes ==
  ASSUME TypeOK, ObjectsOK, CopiesOK, [Next]_vars
  PROVE  ObjTypes' /\ wake' \subseteq Claims \union {"acc", "user"}
  <1> DEFINE Wakes == Claims \union {"acc", "user"}
  <1>0. /\ user \in User /\ userSynced \in BOOLEAN /\ uids \in 0..MaxUIDs
        /\ idents \in [Claims -> Identity] /\ idSynced \in [Claims -> BOOLEAN]
        /\ settings \subseteq (1..MaxUIDs) \X ToSet(Kinds)
        /\ wake \subseteq Wakes /\ cUser \in User /\ mem \in UserAccount
        /\ cIdents \in [Claims -> Identity] /\ mUser \in User /\ mIdent \in Identity
        /\ todo \in Seq(Claims)
    BY DEF TypeOK, ObjTypes, CacheTypes, RunTypes, CopyTypes
  <1>1. CASE UNCHANGED <<objVars, wake>>
            \/ (UNCHANGED objVars /\ wake' \in {wake \ {"acc"}, wake \union {"acc"}})
    BY <1>0, <1>1 DEF ObjTypes
  <1>2. CASE CreateUser
    <2>1. expectedIdentities(mem.spec.claims) \in Seq(Claims)
      BY <1>0, ExpectedTypes DEF UserAccount
    <2>2. /\ user' \in User /\ uids' \in 0..MaxUIDs
          /\ userSynced' \in BOOLEAN /\ wake' \subseteq Wakes
      <3>1. CASE user.uid # 0
        BY <1>0, <1>2, <3>1 DEF CreateUser
      <3>2. CASE user.uid = 0
        <4>1. uids + 1 \in 0..MaxUIDs
          BY <1>0, <1>2, <3>2, UserAccountAssumption DEF CreateUser
        <4>2. [uid |-> uids + 1, ids |-> expectedIdentities(mem.spec.claims),
               lbl |-> TRUE] \in User
          BY <2>1, <4>1 DEF User
        <4> QED
          BY <1>0, <1>2, <3>2, <4>1, <4>2 DEF CreateUser, SetUser
      <3> QED
        BY <3>1, <3>2
    <2> QED
      BY <1>0, <1>2, <2>2 DEF CreateUser, ObjTypes
  <1>3. CASE LabelUser
    <2>1. user' \in User
      BY <1>0, <1>3 DEF LabelUser, SetUser, User
    <2> QED
      BY <1>0, <1>3, <2>1 DEF LabelUser, SetUser, ObjTypes
  <1>4. CASE UpdateUser
    <2>1. expectedIdentities(mem.spec.claims) \in Seq(Claims)
      BY <1>0, ExpectedTypes DEF UserAccount
    <2>2. user' \in User
      BY <1>0, <1>4, <2>1 DEF UpdateUser, SetUser, User
    <2> QED
      BY <1>0, <1>4, <2>2 DEF UpdateUser, SetUser, ObjTypes
  <1>5. CASE DeleteUserResources
    BY <1>0, <1>5 DEF DeleteUserResources, ObjTypes
  <1>6. CASE DeleteUser
    BY <1>0, <1>6, BlankTypes DEF DeleteUser, SetUser, ObjTypes
  <1>7. CASE CallFault
    BY <1>0, <1>7 DEF CallFault, ObjTypes
  <1>8. CASE Crash
    BY <1>0, <1>8 DEF Crash, ObjTypes
  <1>9. CASE SyncUser
    BY <1>0, <1>9 DEF SyncUser, ObjTypes
  <1>10. CASE AdminDeletesUser
    BY <1>0, <1>10, BlankTypes DEF AdminDeletesUser, SetUser, ObjTypes
  <1>11. ASSUME NEW c \in Claims, AdminDeletesIdentity(c)
         PROVE  ObjTypes' /\ wake' \subseteq Wakes
    BY <1>0, <1>11, BlankTypes DEF AdminDeletesIdentity, SetIdentity, ObjTypes
  <1>12. ASSUME NEW c \in Claims, SyncIdentity(c)
         PROVE  ObjTypes' /\ wake' \subseteq Wakes
    BY <1>0, <1>12 DEF SyncIdentity, ObjTypes
  <1>13. todo # <<>> => Head(todo) \in Claims
    BY <1>0
  <1>14. CASE CreateIdentity
    <2>1. Head(todo) \in Claims
      BY <1>13, <1>14 DEF CreateIdentity, CopiesOK, OnIdentity
    <2>2. [on |-> TRUE, uid |-> mUser.uid, lbl |-> TRUE] \in Identity
      BY <1>0 DEF User, Identity
    <2> QED
      BY <1>0, <1>14, <2>1, <2>2 DEF CreateIdentity, SetIdentity, ObjTypes
  <1>15. CASE UpdateIdentity
    <2>1. Head(todo) \in Claims
      BY <1>13, <1>15 DEF UpdateIdentity, CopiesOK, OnIdentity
    <2>2. [mIdent EXCEPT !.uid = mUser.uid] \in Identity
      BY <1>0 DEF User, Identity
    <2> QED
      BY <1>0, <1>15, <2>1, <2>2 DEF UpdateIdentity, SetIdentity, ObjTypes
  <1>16. CASE LabelIdentity
    <2>1. Head(todo) \in Claims
      BY <1>13, <1>16 DEF LabelIdentity
    <2>2. [idents[Head(todo)] EXCEPT !.lbl = TRUE] \in Identity
      BY <1>0, <2>1 DEF Identity
    <2> QED
      BY <1>0, <1>16, <2>1, <2>2 DEF LabelIdentity, SetIdentity, ObjTypes
  <1>17. CASE DeleteIdentity
    BY <1>0, <1>17, BlankTypes DEF DeleteIdentity, SetIdentity, ObjTypes
  <1>18. CASE ConsoleStoresSettings
    <2>1. user.uid \in 1..MaxUIDs
      <3>1. user.ids # <<>>
        BY <1>0, <1>18 DEF ConsoleStoresSettings, Mapped, ToSet
      <3> QED
        BY <1>0, <3>1, UserAccountAssumption DEF ObjectsOK, NoUser, User
    <2> QED
      BY <1>0, <1>18, <2>1 DEF ConsoleStoresSettings, ObjTypes
  <1> QED
    BY <1>1, <1>2, <1>3, <1>4, <1>5, <1>6, <1>7, <1>8, <1>9, <1>10, <1>11, <1>12, <1>14,
       <1>15, <1>16, <1>17, <1>18, ObjFrame DEF ObjSteps

\* A condition is stored before Reconcile creates or maps something.
ReportSteps ==
    \E reason \in Reasons, next \in {"createUser", "updateUser", "createIdent", "mapIdent",
                                     "dIdent"} :
        /\ UpdateStatus(reason, next) /\ UNCHANGED objVars
        /\ pc = CASE next = "createUser" -> "user"
                  [] next = "updateUser" -> "userMap"
                  [] next = "createIdent" -> "ident"
                  [] next = "mapIdent" -> "identMap"
                  [] next = "dIdent" -> "disabling"
        /\ next = "createIdent" => todo # <<>>

MoveSteps ==
    \/ StartReconcile \/ (AddFinalizer /\ current) \/ LabelUser \/ LabelIdentity \/ LabelFault
    \/ (MapUser /\ pc' = "ident") \/ AllIdentitiesDone \/ (MapIdentity /\ pc' = "ident")
    \/ (DeleteIdentity /\ pc' # "idle") \/ DeleteUserResources \/ (DeleteUser /\ pc' # "idle")
    \/ NothingRedundant

OtherSteps ==
    \/ HostUpdates \/ HostDeletes \/ AdminDeletesUser
    \/ \E c \in Claims : AdminDeletesIdentity(c)

QuietSteps == UNCHANGED vars \/ ConsoleStoresSettings \/ Cluster

LEMMA QuietFrame ==
  ASSUME TypeOK, QuietSteps
  PROVE  /\ UNCHANGED <<acc, pc, mem, current, copyVars>>
         /\ accSynced' \in BOOLEAN /\ queued' \in BOOLEAN
  <1> USE DEF TypeOK, AccTypes, RunTypes
  <1>1. CASE UNCHANGED vars
    BY <1>1 DEF vars
  <1>2. CASE ConsoleStoresSettings
    BY <1>2 DEF ConsoleStoresSettings
  <1>3. CASE Cluster
    <2>1. /\ UNCHANGED <<acc, pc, mem, current, copyVars>>
          /\ accSynced' \in BOOLEAN
          /\ \/ queued' = queued
             \/ queued' = TRUE
             \/ \E o \in Claims \union {"acc", "user"} : queued' = (queued \/ o \in wake)
      BY <1>3 DEF Cluster, Tick, SyncUserAccount, SyncUser, SyncIdentity, OtherEvent
    <2>2. ASSUME NEW o, queued' = (queued \/ o \in wake)
          PROVE  queued' \in BOOLEAN
      <3>1. CASE queued \/ o \in wake
        BY <2>2, <3>1
      <3>2. CASE ~(queued \/ o \in wake)
        BY <2>2, <3>2
      <3> QED
        BY <3>1, <3>2
    <2> QED
      BY <2>1, <2>2
  <1> QED
    BY <1>1, <1>2, <1>3 DEF QuietSteps

LEMMA Steps ==
  ASSUME TypeOK, [Next]_vars
  PROVE  \/ EndStep \/ ReportSteps \/ MoveSteps \/ OtherSteps
         \/ Crash \/ (RemoveFinalizer /\ current)
         \/ QuietSteps
  <1> USE DEF Reasons
  <1>0. DeleteFailure \in Reasons /\ Deleted \in Reasons
    BY DEF TypeOK, RunTypes, UserAccount, DeleteFailure, Deleted
  <1>1. CASE UNCHANGED vars \/ Cluster
    BY <1>1 DEF QuietSteps
  <1>2. CASE StartReconcile \/ AllIdentitiesDone \/ NothingRedundant \/ DeleteUserResources
             \/ LabelUser \/ LabelIdentity \/ LabelFault
    BY <1>2 DEF MoveSteps
  <1>3. CASE AddFinalizer
    BY <1>3 DEF MoveSteps, AddFinalizer, EndStep
  <1>4. CASE AnnounceUser
    BY <1>4 DEF AnnounceUser, ReportSteps, EndStep
  <1>5. CASE CreateUser
    BY <1>5 DEF CreateUser, EndStep
  <1>6. CASE MapUser
    BY <1>6 DEF MapUser, ReportSteps, MoveSteps, EndStep
  <1>7. CASE UpdateUser
    BY <1>7 DEF UpdateUser, EndStep
  <1>8. CASE AnnounceIdentity
    BY <1>8 DEF AnnounceIdentity, ReportSteps, EndStep
  <1>9. CASE CreateIdentity
    BY <1>9 DEF CreateIdentity, EndStep
  <1>10. CASE MapIdentity
    BY <1>10 DEF MapIdentity, ReportSteps, MoveSteps, EndStep
  <1>11. CASE UpdateIdentity
    BY <1>11 DEF UpdateIdentity, EndStep
  <1>12. CASE SetStatusReady
    BY <1>12 DEF SetStatusReady, EndStep
  <1>13. CASE Disabling
    BY <1>13 DEF Disabling, ReportSteps, EndStep
  <1>14. CASE DeleteIdentity
    <2>1. EndStep \/ pc' \in {"dUser", "dDeleted"}
      BY <1>0, <1>14 DEF DeleteIdentity, EndStep
    <2> QED
      BY <1>14, <2>1 DEF MoveSteps
  <1>15. CASE DeleteUser
    <2>1. EndStep \/ pc' = "dDeleted"
      BY <1>0, <1>15 DEF DeleteUser, EndStep
    <2> QED
      BY <1>15, <2>1 DEF MoveSteps
  <1>16. CASE ReportDeleted
    BY <1>0, <1>16 DEF ReportDeleted, EndStep
  <1>17. CASE RemoveFinalizer
    BY <1>17 DEF RemoveFinalizer, EndStep
  <1>18. CASE SetStatusDisabled
    BY <1>18 DEF SetStatusDisabled, EndStep
  <1>19. CASE CallFault
    BY <1>0, <1>19 DEF CallFault, EndStep
  <1>20. CASE Others
    BY <1>20 DEF Others, OtherSteps, QuietSteps
  <1> QED
    BY <1>1, <1>2, <1>3, <1>4, <1>5, <1>6, <1>7, <1>8, <1>9, <1>10, <1>11, <1>12, <1>13,
       <1>14, <1>15, <1>16, <1>17, <1>18, <1>19, <1>20 DEF Next, Reconcile, Fault

\* The account, Reconcile and its copies keep their types.
LEMMA NextRunTypes ==
  ASSUME TypeOK, CopiesOK, [Next]_vars
  PROVE  AccTypes' /\ RunTypes' /\ CopyTypes'
  <1>0. /\ acc \in UserAccount /\ cAcc \in UserAccount /\ mem \in UserAccount
        /\ cUser \in User /\ cIdents \in [Claims -> Identity]
        /\ accSynced \in BOOLEAN /\ userSynced \in BOOLEAN /\ idSynced \in [Claims -> BOOLEAN]
        /\ current \in BOOLEAN /\ queued \in BOOLEAN /\ pc \in PCs
        /\ mUser \in User /\ mUserCur \in BOOLEAN /\ mIdent \in Identity
        /\ mIdentCur \in BOOLEAN /\ todo \in Seq(Claims)
    BY DEF TypeOK, AccTypes, CacheTypes, RunTypes, CopyTypes, ObjTypes
  <1>1. CASE EndStep
    BY <1>1, Ends
  <1>2. CASE ReportSteps
    <2>1. PICK reason \in Reasons, next \in PCs : UpdateStatus(reason, next)
      BY <1>2 DEF ReportSteps, PCs
    <2> QED
      BY <2>1, Updates DEF CopiesOK
  <1>3. CASE Crash
    BY <1>0, <1>3, Finishes DEF Crash, AccTypes
  <1>4. CASE RemoveFinalizer /\ current
    BY <1>0, <1>4, Finishes DEF RemoveFinalizer, AccTypes, UserAccount
  <1>5. CASE QuietSteps
    BY <1>0, <1>5, QuietFrame DEF AccTypes, RunTypes, CopyTypes
  <1>6. CASE HostUpdates
    BY <1>0, <1>6 DEF HostUpdates, AccTypes, RunTypes, CopyTypes, UserAccount
  <1>7. CASE HostDeletes
    BY <1>0, <1>7 DEF HostDeletes, AccTypes, RunTypes, CopyTypes, UserAccount
  <1>8. CASE AdminDeletesUser \/ \E c \in Claims : AdminDeletesIdentity(c)
    BY <1>0, <1>8 DEF AdminDeletesUser, AdminDeletesIdentity, AccTypes, RunTypes, CopyTypes
  <1>9. CASE StartReconcile
    BY <1>0, <1>9 DEF StartReconcile, Ensure, AccTypes, RunTypes, CopyTypes, PCs
  <1>10. CASE AddFinalizer /\ current
    BY <1>0, <1>10 DEF AddFinalizer, Ensure, AccTypes, RunTypes, CopyTypes, PCs, UserAccount
  <1>11. CASE LabelUser
    BY <1>0, <1>11 DEF LabelUser, AccTypes, RunTypes, CopyTypes, PCs, User
  <1>12. CASE LabelIdentity
    <2>1. Head(todo) \in Claims
      BY <1>0, <1>12 DEF LabelIdentity
    <2>2. cIdents[Head(todo)] \in Identity /\ idSynced[Head(todo)] \in BOOLEAN
      BY <1>0, <2>1
    <2>3. mIdent' \in Identity /\ mIdentCur' \in BOOLEAN
      BY <1>12, <2>2 DEF LabelIdentity, Identity
    <2> QED
      BY <1>0, <1>12, <2>3 DEF LabelIdentity, AccTypes, RunTypes, CopyTypes, PCs
  <1>13. CASE LabelFault
    <2>1. todo # <<>> => Head(todo) \in Claims
      BY <1>0
    <2>2. todo # <<>> => cIdents[Head(todo)] \in Identity /\ idSynced[Head(todo)] \in BOOLEAN
      BY <1>0, <2>1
    <2>3. mIdent' \in Identity /\ mIdentCur' \in BOOLEAN
      BY <1>0, <1>13, <2>2 DEF LabelFault, Identity
    <2>4. mUser' \in User /\ mUserCur' \in BOOLEAN
      BY <1>0, <1>13 DEF LabelFault, User
    <2> QED
      BY <1>0, <1>13, <2>3, <2>4 DEF LabelFault, AccTypes, RunTypes, CopyTypes, PCs
  <1>14. CASE MapUser /\ pc' = "ident"
    BY <1>0, <1>14, ExpectedTypes DEF MapUser, UpdateStatus, Finish, ReturnError,
              AccTypes, RunTypes, CopyTypes, PCs, UserAccount
  <1>15. CASE MapIdentity /\ pc' = "ident"
    <2>1. Tail(todo) \in Seq(Claims)
      BY <1>0, <1>15 DEF MapIdentity, CopiesOK, OnIdentity
    <2>2. /\ todo' = Tail(todo) /\ mIdent' = NoIdentity /\ mIdentCur' = FALSE
          /\ UNCHANGED <<acc, accSynced, queued, mem, current, mUser, mUserCur>>
      BY <1>15 DEF MapIdentity, UpdateStatus, Finish, ReturnError
    <2> QED
      BY <1>0, <1>15, <2>1, <2>2, BlankTypes DEF AccTypes, RunTypes, CopyTypes, PCs
  <1>16. CASE AllIdentitiesDone \/ NothingRedundant \/ DeleteUserResources
    BY <1>0, <1>16 DEF AllIdentitiesDone, NothingRedundant, DeleteUserResources, AccTypes,
              RunTypes, CopyTypes, PCs
  <1>17. CASE DeleteIdentity /\ pc' # "idle"
    BY <1>0, <1>17 DEF DeleteIdentity, FailWith, Finish, AccTypes, RunTypes, CopyTypes, PCs
  <1>18. CASE DeleteUser /\ pc' # "idle"
    BY <1>0, <1>18 DEF DeleteUser, FailWith, Finish, AccTypes, RunTypes, CopyTypes, PCs
  <1> QED
    BY <1>1, <1>2, <1>3, <1>4, <1>5, <1>6, <1>7, <1>8, <1>9, <1>10, <1>11, <1>12, <1>13,
       <1>14, <1>15, <1>16, <1>17, <1>18, Steps DEF MoveSteps, OtherSteps

LEMMA CacheFrame ==
  ASSUME [Next]_vars
  PROVE  UNCHANGED caches \/ Crash \/ SyncUserAccount \/ SyncUser
            \/ \E c \in Claims : SyncIdentity(c)
  <1>1. CASE UNCHANGED vars
    BY <1>1 DEF vars
  <1>2. CASE Reconcile
    BY <1>2 DEF Reconcile, StartReconcile, AddFinalizer, AnnounceUser, MapUser,
                AllIdentitiesDone, AnnounceIdentity, MapIdentity, SetStatusReady, Disabling,
                ReportDeleted, RemoveFinalizer, SetStatusDisabled, NothingRedundant,
                CreateUser, LabelUser, UpdateUser, DeleteUserResources, DeleteUser,
                CreateIdentity, LabelIdentity, UpdateIdentity, DeleteIdentity
  <1>3. CASE Fault
    BY <1>3 DEF Fault, CallFault, LabelFault
  <1>4. CASE Others
    BY <1>4 DEF Others, HostUpdates, HostDeletes, AdminDeletesUser, AdminDeletesIdentity,
                ConsoleStoresSettings
  <1>5. CASE Cluster
    BY <1>5 DEF Cluster, Tick, OtherEvent
  <1> QED
    BY <1>1, <1>2, <1>3, <1>4, <1>5 DEF Next

LEMMA NextTypes ==
  ASSUME TypeOK, ObjectsOK, CopiesOK, [Next]_vars
  PROVE  TypeOK'
  <1>1. cAcc' \in UserAccount /\ cUser' \in User /\ cIdents' \in [Claims -> Identity]
    <2>1. CASE UNCHANGED caches
      BY <2>1 DEF TypeOK, CacheTypes
    <2>2. CASE Crash
      BY <2>2 DEF Crash, TypeOK, AccTypes, ObjTypes
    <2>3. CASE SyncUserAccount \/ SyncUser
      BY <2>3 DEF SyncUserAccount, SyncUser, TypeOK, AccTypes, ObjTypes, CacheTypes
    <2>4. ASSUME NEW c \in Claims, SyncIdentity(c)
          PROVE  cAcc' \in UserAccount /\ cUser' \in User /\ cIdents' \in [Claims -> Identity]
      BY <2>4 DEF SyncIdentity, TypeOK, ObjTypes, CacheTypes
    <2> QED
      BY <2>1, <2>2, <2>3, <2>4, CacheFrame
  <1>2. CacheTypes'
    BY <1>1, NextObjTypes DEF CacheTypes
  <1> QED
    BY <1>2, NextRunTypes, NextObjTypes, NextEnvTypes DEF TypeOK

---------------------------------------------------------------------------
(* The copies of the cache and of Reconcile.                               *)

\* The stored account and its copy in the cache.
LEMMA AccFrame ==
  ASSUME TypeOK, CopiesOK, [Next]_vars
  PROVE  /\ \/ accSynced' => accSynced /\ acc' = acc
            \/ cAcc' = acc'
         /\ cAcc' \in {cAcc, acc}
         /\ \/ UNCHANGED <<acc>>
            \/ QuietAcc
            \/ RemoveFinalizer /\ current
            \/ AddFinalizer /\ current
            \/ HostUpdates
            \/ HostDeletes
  <1>1. cAcc' \in {cAcc, acc}
    BY CacheFrame DEF Crash, SyncUserAccount, SyncUser, SyncIdentity
  <1>2. CASE EndStep
    BY <1>1, <1>2, Ends DEF QuietAcc
  <1>3. CASE ReportSteps
    <2>1. PICK reason \in Reasons, next \in PCs : UpdateStatus(reason, next)
      BY <1>3 DEF ReportSteps, PCs
    <2>2. QuietAcc
      BY <2>1, Updates DEF CopiesOK
    <2> QED
      BY <1>1, <2>2 DEF QuietAcc
  <1>4. CASE Crash
    BY <1>1, <1>4 DEF Crash
  <1>5. CASE RemoveFinalizer /\ current
    BY <1>1, <1>5 DEF RemoveFinalizer
  <1>6. CASE QuietSteps
    <2>1. UNCHANGED <<acc, accSynced>> \/ (acc' = acc /\ cAcc' = acc)
      BY <1>6 DEF QuietSteps, vars, Cluster, ConsoleStoresSettings, Tick, SyncUserAccount,
                  SyncUser, SyncIdentity, OtherEvent
    <2> QED
      BY <1>1, <2>1
  <1>7. CASE OtherSteps
    BY <1>1, <1>7 DEF OtherSteps, HostUpdates, HostDeletes, AdminDeletesUser,
                      AdminDeletesIdentity
  <1>8. CASE MoveSteps
    <2>1. CASE AddFinalizer /\ current
      BY <1>1, <2>1 DEF AddFinalizer
    <2>2. CASE MapUser /\ pc' = "ident"
      BY <1>1, <2>2 DEF MapUser, UpdateStatus, ReturnError, Finish
    <2>3. CASE MapIdentity /\ pc' = "ident"
      BY <1>1, <2>3 DEF MapIdentity, UpdateStatus, ReturnError, Finish
    <2>4. CASE (DeleteIdentity \/ DeleteUser) /\ pc' # "idle"
      BY <1>1, <2>4 DEF DeleteIdentity, DeleteUser, FailWith, Finish
    <2>5. CASE StartReconcile \/ LabelUser \/ LabelIdentity \/ LabelFault \/ AllIdentitiesDone
               \/ DeleteUserResources \/ NothingRedundant
      BY <1>1, <2>5 DEF StartReconcile, LabelUser, LabelIdentity, LabelFault,
                        AllIdentitiesDone, DeleteUserResources, NothingRedundant
    <2> QED
      BY <1>8, <2>1, <2>2, <2>3, <2>4, <2>5 DEF MoveSteps
  <1> QED
    BY <1>2, <1>3, <1>4, <1>5, <1>6, <1>7, <1>8, Steps

\* An unchanged version number means an unchanged object, in the cache too.
LEMMA NextSynced ==
  ASSUME TypeOK, ObjectsOK, CopiesOK, [Next]_vars
  PROVE  /\ accSynced' => cAcc' = acc'
         /\ userSynced' => cUser' = user'
         /\ \A c \in Claims : idSynced'[c] => cIdents'[c] = idents'[c]
  <1>1. accSynced' => cAcc' = acc'
    BY AccFrame, CacheFrame DEF CopiesOK, Crash, SyncUserAccount, SyncUser, SyncIdentity
  <1>2. userSynced' => cUser' = user'
    <2>1. CASE UNCHANGED objVars
      BY <2>1, CacheFrame DEF CopiesOK, Crash, SyncUserAccount, SyncUser, SyncIdentity
    <2>2. CASE Crash \/ SyncUser
      BY <2>2 DEF Crash, SyncUser
    <2>3. CASE ObjSteps /\ ~Crash /\ ~SyncUser
      <3>1. cUser' = cUser
        BY <2>3, CacheFrame DEF SyncUserAccount, SyncIdentity
      <3>2. userSynced' => userSynced /\ user' = user
        BY <2>3 DEF ObjSteps, CreateUser, LabelUser, UpdateUser, DeleteUserResources, DeleteUser,
                    CreateIdentity, LabelIdentity, UpdateIdentity, DeleteIdentity, CallFault,
                    ConsoleStoresSettings, AdminDeletesUser, AdminDeletesIdentity, SyncIdentity,
                    SetUser
      <3> QED
        BY <3>1, <3>2 DEF CopiesOK
    <2> QED
      BY <2>1, <2>2, <2>3, ObjFrame
  <1>3. ASSUME NEW c \in Claims, idSynced'[c]
        PROVE  cIdents'[c] = idents'[c]
    <2>0. /\ idSynced \in [Claims -> BOOLEAN] /\ idents \in [Claims -> Identity]
          /\ cIdents \in [Claims -> Identity] /\ todo \in Seq(Claims)
      BY DEF TypeOK, ObjTypes, CacheTypes, CopyTypes
    <2>1. CASE Crash
      BY <2>1 DEF Crash
    <2>2. ASSUME NEW d \in Claims, SyncIdentity(d)
          PROVE  cIdents'[c] = idents'[c]
      BY <1>3, <2>0, <2>2 DEF SyncIdentity, CopiesOK
    <2>3. CASE UNCHANGED objVars /\ ~Crash /\ ~(\E d \in Claims : SyncIdentity(d))
      <3>1. cIdents' = cIdents
        BY <2>3, CacheFrame DEF SyncUserAccount, SyncUser
      <3> QED
        BY <1>3, <2>3, <3>1 DEF CopiesOK
    <2>4. CASE ObjSteps /\ ~Crash /\ ~(\E d \in Claims : SyncIdentity(d))
      <3>1. cIdents' = cIdents
        BY <2>4, CacheFrame DEF SyncUserAccount, SyncUser
      <3>2. \/ UNCHANGED <<idents, idSynced>>
            \/ \E d \in Claims, i \in Identity : SetIdentity(d, i)
        <4>1. CASE CreateIdentity
          <5>1. Head(todo) \in Claims
            BY <2>0, <4>1 DEF CreateIdentity, CopiesOK, OnIdentity
          <5>2. [on |-> TRUE, uid |-> mUser.uid, lbl |-> TRUE] \in Identity
            BY DEF TypeOK, CopyTypes, User, Identity
          <5> QED
            BY <4>1, <5>1, <5>2 DEF CreateIdentity
        <4>2. CASE UpdateIdentity
          <5>1. Head(todo) \in Claims
            BY <2>0, <4>2 DEF UpdateIdentity, CopiesOK, OnIdentity
          <5>2. [mIdent EXCEPT !.uid = mUser.uid] \in Identity
            BY DEF TypeOK, CopyTypes, User, Identity
          <5> QED
            BY <4>2, <5>1, <5>2 DEF UpdateIdentity
        <4>3. CASE LabelIdentity
          <5>1. Head(todo) \in Claims
            BY <2>0, <4>3 DEF LabelIdentity
          <5>2. [idents[Head(todo)] EXCEPT !.lbl = TRUE] \in Identity
            BY <2>0, <5>1 DEF Identity
          <5> QED
            BY <4>3, <5>1, <5>2 DEF LabelIdentity
        <4>4. CASE DeleteIdentity
          BY <4>4, BlankTypes DEF DeleteIdentity
        <4>5. CASE \E d \in Claims : AdminDeletesIdentity(d)
          BY <4>5, BlankTypes DEF AdminDeletesIdentity
        <4>6. CASE CreateUser \/ LabelUser \/ UpdateUser \/ DeleteUserResources \/ DeleteUser
                   \/ CallFault \/ ConsoleStoresSettings \/ AdminDeletesUser \/ SyncUser
          BY <4>6 DEF CreateUser, LabelUser, UpdateUser, DeleteUserResources, DeleteUser,
                      CallFault, ConsoleStoresSettings, AdminDeletesUser, SyncUser
        <4> QED
          BY <2>4, <4>1, <4>2, <4>3, <4>4, <4>5, <4>6 DEF ObjSteps
      <3>3. ASSUME NEW d \in Claims, NEW i \in Identity, SetIdentity(d, i)
            PROVE  cIdents'[c] = idents'[c]
        BY <1>3, <2>0, <3>1, <3>3 DEF SetIdentity, CopiesOK
      <3> QED
        BY <1>3, <3>1, <3>2, <3>3 DEF CopiesOK
    <2> QED
      BY <2>1, <2>2, <2>3, <2>4, ObjFrame
  <1> QED
    BY <1>1, <1>2, <1>3

\* The copies that Reconcile holds.
Held ==
    /\ current => mem = acc /\ pc # "idle"
    /\ pc \in OnIdentity => todo # <<>>
    /\ mUserCur => /\ pc \in {"ready"} \union Mapping
                   /\ mUser = [user EXCEPT !.lbl = TRUE]
    /\ mIdentCur => /\ pc \in OnIdentity
                    /\ mIdent = [idents[Head(todo)] EXCEPT !.lbl = TRUE]

LEMMA NextHeld ==
  ASSUME TypeOK, ObjectsOK, CopiesOK, [Next]_vars
  PROVE  Held'
  <1> USE DEF Mapping, OnIdentity
  <1>0. /\ acc \in UserAccount /\ mem \in UserAccount /\ user \in User /\ cUser \in User
        /\ idents \in [Claims -> Identity] /\ cIdents \in [Claims -> Identity]
        /\ todo \in Seq(Claims)
    BY DEF TypeOK, AccTypes, RunTypes, ObjTypes, CacheTypes, CopyTypes
  <1>00. Held
    BY DEF CopiesOK, Held
  <1>1. CASE EndStep
    BY <1>1, Ends DEF Held
  <1>2. CASE ReportSteps
    <2>1. PICK reason \in Reasons, next \in {"createUser", "updateUser", "createIdent",
                                             "mapIdent", "dIdent"} :
             /\ UpdateStatus(reason, next) /\ UNCHANGED objVars
             /\ pc = CASE next = "createUser" -> "user"
                       [] next = "updateUser" -> "userMap"
                       [] next = "createIdent" -> "ident"
                       [] next = "mapIdent" -> "identMap"
                       [] next = "dIdent" -> "disabling"
             /\ next = "createIdent" => todo # <<>>
      BY <1>2 DEF ReportSteps
    <2>2. /\ current' = current /\ (current => mem' = acc') /\ pc' = next
          /\ UNCHANGED copyVars
      BY <2>1, Updates DEF CopiesOK, PCs
    <2> QED
      BY <1>00, <2>1, <2>2 DEF Held
  <1>3. CASE Crash
    BY <1>3, Finishes DEF Crash, Held
  <1>4. CASE RemoveFinalizer /\ current
    BY <1>4, Finishes DEF RemoveFinalizer, Held
  <1>5. CASE QuietSteps
    <2>1. UNCHANGED <<user, idents>>
      BY <1>5 DEF QuietSteps, vars, ConsoleStoresSettings, Cluster, Tick, SyncUserAccount,
                  SyncUser, SyncIdentity, OtherEvent
    <2> QED
      BY <1>00, <1>5, <2>1, QuietFrame DEF Held
  <1>6. CASE HostUpdates \/ HostDeletes
    BY <1>00, <1>6 DEF HostUpdates, HostDeletes, Held
  <1>7. CASE AdminDeletesUser
    BY <1>00, <1>7 DEF AdminDeletesUser, Held
  <1>8. ASSUME NEW c \in Claims, AdminDeletesIdentity(c)
        PROVE  Held'
    BY <1>00, <1>8 DEF AdminDeletesIdentity, Held
  <1>9. CASE StartReconcile
    BY <1>00, <1>9 DEF StartReconcile, CopiesOK, Held, Ensure
  <1>10. CASE AddFinalizer /\ current
    <2>1. pc = "finalizer" /\ pc' \in {"disabling", "dIdent", "user"} /\ UNCHANGED copyVars
      BY <1>10 DEF AddFinalizer, Ensure
    <2>2. mem' = acc'
      BY <1>00, <1>10 DEF AddFinalizer, Held
    <2> QED
      BY <1>00, <2>1, <2>2 DEF Held
  <1>11. CASE LabelUser
    <2>1. mUserCur' => mUser' = [user' EXCEPT !.lbl = TRUE]
      BY <1>0, <1>11 DEF LabelUser, SetUser, CopiesOK, User
    <2> QED
      BY <1>00, <1>11, <2>1 DEF LabelUser, Held
  <1>12. CASE LabelIdentity
    <2>1. Head(todo) \in Claims
      BY <1>0, <1>12 DEF LabelIdentity
    <2>2. mIdentCur' => mIdent' = [idents'[Head(todo)] EXCEPT !.lbl = TRUE]
      <3> DEFINE c == Head(todo)
      <3>1. /\ idSynced[c] => cIdents[c] = idents[c]
            /\ cIdents[c] \in Identity /\ idents[c] \in Identity
        BY <1>0, <2>1 DEF CopiesOK
      <3>2. /\ mIdent' = [cIdents[c] EXCEPT !.lbl = TRUE] /\ mIdentCur' = idSynced[c]
            /\ idents'[c] = IF idSynced[c] /\ ~cIdents[c].lbl
                            THEN [idents[c] EXCEPT !.lbl = TRUE] ELSE idents[c]
        BY <1>0, <1>12, <2>1 DEF LabelIdentity, SetIdentity
      <3> QED
        BY <3>1, <3>2 DEF Identity
    <2> QED
      BY <1>00, <1>12, <2>2 DEF LabelIdentity, Held
  <1>13. CASE LabelFault
    <2>1. todo # <<>> => Head(todo) \in Claims
      BY <1>0
    <2> QED
      BY <1>0, <1>00, <1>13, <2>1 DEF LabelFault, CopiesOK, Held
  <1>14. CASE MapUser /\ pc' = "ident"
    BY <1>00, <1>14 DEF MapUser, UpdateStatus, ReturnError, Finish, Held
  <1>15. CASE MapIdentity /\ pc' = "ident"
    BY <1>00, <1>15 DEF MapIdentity, UpdateStatus, ReturnError, Finish, Held
  <1>16. CASE AllIdentitiesDone \/ NothingRedundant \/ DeleteUserResources
    BY <1>00, <1>16 DEF AllIdentitiesDone, NothingRedundant, DeleteUserResources, Held
  <1>17. CASE (DeleteIdentity \/ DeleteUser) /\ pc' # "idle"
    BY <1>00, <1>17 DEF DeleteIdentity, DeleteUser, FailWith, Finish, Held
  <1> QED
    BY <1>1, <1>2, <1>3, <1>4, <1>5, <1>6, <1>7, <1>8, <1>9, <1>10, <1>11, <1>12, <1>13,
       <1>14, <1>15, <1>16, <1>17, Steps DEF MoveSteps, OtherSteps

LEMMA NextCopies ==
  ASSUME TypeOK, ObjectsOK, CopiesOK, [Next]_vars
  PROVE  CopiesOK'
  BY NextSynced, NextHeld DEF CopiesOK, Held

---------------------------------------------------------------------------
(* The life of the account.                                                *)

LEMMA NextLife ==
  ASSUME TypeOK, ObjectsOK, CopiesOK, LifeOK, [Next]_vars
  PROVE  LifeOK'
  <1> USE DEF Writing, Mapping, OnIdentity, Removing
  <1>0. acc \in UserAccount /\ cAcc \in UserAccount /\ mem \in UserAccount
    BY DEF TypeOK, AccTypes, CacheTypes, RunTypes
  <1>1. cAcc' \in {cAcc, acc} /\ skip' = skip
    BY AccFrame, EnvFrame
  \* What a step does to the account when it is not the last one.
  <1>2. ASSUME acc'.life = acc.life, acc'.fin = acc.fin, pc' = "idle"
        PROVE  LifeOK'
    BY <1>1, <1>2 DEF LifeOK
  <1>3. ASSUME acc'.life = acc.life, acc'.fin = acc.fin, pc # "idle",
               mem'.life = mem.life, mem'.spec = mem.spec,
               pc' \in Writing => pc \in Writing,
               pc' \in Removing => pc \in Removing \/ mem.spec.disabled,
               pc' = "disabling" => pc = "disabling"
        PROVE  LifeOK'
    BY <1>1, <1>3 DEF LifeOK
  <1>4. CASE EndStep
    BY <1>2, <1>4, Ends DEF QuietAcc
  <1>5. CASE ReportSteps
    <2>1. PICK reason \in Reasons, next \in {"createUser", "updateUser", "createIdent",
                                             "mapIdent", "dIdent"} :
             /\ UpdateStatus(reason, next)
             /\ pc = CASE next = "createUser" -> "user"
                       [] next = "updateUser" -> "userMap"
                       [] next = "createIdent" -> "ident"
                       [] next = "mapIdent" -> "identMap"
                       [] next = "dIdent" -> "disabling"
      BY <1>5 DEF ReportSteps
    <2>2. /\ acc'.life = acc.life /\ acc'.fin = acc.fin /\ pc' = next
          /\ mem'.life = mem.life /\ mem'.spec = mem.spec
      BY <2>1, Updates DEF CopiesOK, PCs, QuietAcc
    <2> QED
      BY <1>3, <2>1, <2>2 DEF LifeOK
  <1>6. CASE Crash
    BY <1>2, <1>6, Finishes DEF Crash
  <1>7. CASE RemoveFinalizer /\ current
    <2>1. /\ acc' = [acc EXCEPT !.life = "gone", !.fin = FALSE] /\ pc' = "idle"
          /\ mem.life = "deleting" /\ pc = "dNone" /\ cAcc' = cAcc
      BY <1>7, Finishes DEF RemoveFinalizer
    <2>2. cAcc.life # "live"
      BY <2>1 DEF LifeOK
    <2> QED
      BY <1>0, <2>1, <2>2 DEF LifeOK, UserAccount
  <1>8. CASE QuietSteps
    <2>1. UNCHANGED <<acc, pc, mem>>
      BY <1>8, QuietFrame
    <2> QED
      BY <1>1, <2>1 DEF LifeOK
  <1>9. CASE HostUpdates
    <2>1. acc'.life = acc.life /\ acc'.fin = acc.fin /\ UNCHANGED <<cAcc, pc, mem>>
      BY <1>0, <1>9 DEF HostUpdates, UserAccount
    <2> QED
      BY <1>1, <2>1 DEF LifeOK
  <1>10. CASE HostDeletes
    <2>1. /\ acc.life = "live" /\ UNCHANGED <<cAcc, pc, mem>>
          /\ acc'.life = (IF acc.fin THEN "deleting" ELSE "gone") /\ acc'.fin = acc.fin
      BY <1>0, <1>10 DEF HostDeletes, UserAccount
    <2> QED
      BY <1>1, <2>1 DEF LifeOK
  <1>11. CASE AdminDeletesUser \/ \E c \in Claims : AdminDeletesIdentity(c)
    <2>1. UNCHANGED <<acc, cAcc, pc, mem>>
      BY <1>11 DEF AdminDeletesUser, AdminDeletesIdentity
    <2> QED
      BY <1>1, <2>1 DEF LifeOK
  <1>12. CASE StartReconcile
    <2>1. UNCHANGED <<acc, cAcc>>
      BY <1>12 DEF StartReconcile
    <2> QED
      BY <1>0, <1>1, <1>12, <2>1 DEF StartReconcile, Ensure, LifeOK, UserAccount
  <1>13. CASE AddFinalizer /\ current
    <2>1. /\ mem = acc /\ pc = "finalizer"
          /\ acc' = [acc EXCEPT !.fin = TRUE] /\ mem' = [mem EXCEPT !.fin = TRUE]
          /\ pc' = Ensure(mem.spec) /\ cAcc' = cAcc
      BY <1>13 DEF AddFinalizer, CopiesOK
    <2>2. acc'.life = acc.life /\ acc'.fin /\ mem'.life = mem.life /\ mem'.spec = mem.spec
      BY <1>0, <2>1 DEF UserAccount
    <2>3. acc.life # "gone"
      BY <2>1 DEF LifeOK
    <2> QED
      BY <1>1, <2>1, <2>2, <2>3 DEF Ensure, LifeOK
  <1>14. CASE LabelUser \/ LabelIdentity \/ LabelFault
    BY <1>3, <1>14 DEF LabelUser, LabelIdentity, LabelFault
  <1>15. CASE MapUser /\ pc' = "ident"
    BY <1>3, <1>15 DEF MapUser, UpdateStatus, ReturnError, Finish
  <1>16. CASE MapIdentity /\ pc' = "ident"
    BY <1>3, <1>16 DEF MapIdentity, UpdateStatus, ReturnError, Finish
  <1>17. CASE AllIdentitiesDone \/ NothingRedundant \/ DeleteUserResources
    BY <1>3, <1>17 DEF AllIdentitiesDone, NothingRedundant, DeleteUserResources
  <1>18. CASE (DeleteIdentity \/ DeleteUser) /\ pc' # "idle"
    BY <1>3, <1>18 DEF DeleteIdentity, DeleteUser, FailWith, Finish
  <1> QED
    BY <1>4, <1>5, <1>6, <1>7, <1>8, <1>9, <1>10, <1>11, <1>12, <1>13, <1>14, <1>15, <1>16,
       <1>17, <1>18, Steps DEF MoveSteps, OtherSteps

---------------------------------------------------------------------------
(* The User and the Identities.                                            *)

LEMMA UserFrame ==
  ASSUME TypeOK, ObjectsOK, CopiesOK, [Next]_vars
  PROVE  \/ user' = user
         \/ user' = NoUser /\ (DeleteUser \/ AdminDeletesUser)
         \/ /\ LabelUser /\ user.uid # 0
            /\ user'.uid = user.uid /\ user'.ids = user.ids /\ user'.lbl
         \/ CreateUser /\ user.uid = 0 /\ user'.uid # 0 /\ user'.lbl
         \/ UpdateUser /\ user.uid # 0 /\ user'.uid = user.uid /\ user'.lbl
  <1>0. user \in User /\ mUser \in User /\ cUser \in User /\ uids \in 0..MaxUIDs
    BY DEF TypeOK, ObjTypes, CopyTypes, CacheTypes
  <1>1. CASE UNCHANGED objVars
    BY <1>1
  <1>2. CASE CreateUser
    <2>1. CASE user.uid # 0
      BY <1>2, <2>1 DEF CreateUser
    <2>2. CASE user.uid = 0
      <3>1. uids + 1 # 0
        BY <1>0, UserAccountAssumption
      <3>2. user' = [uid |-> uids + 1, ids |-> expectedIdentities(mem.spec.claims),
                     lbl |-> TRUE]
        BY <1>2, <2>2 DEF CreateUser, SetUser
      <3> QED
        BY <1>2, <2>2, <3>1, <3>2
    <2> QED
      BY <2>1, <2>2
  <1>3. CASE LabelUser
    <2>1. CASE userSynced /\ ~cUser.lbl
      <3>1. cUser = user /\ user.uid # 0 /\ user' = [user EXCEPT !.lbl = TRUE]
        BY <1>3, <2>1 DEF LabelUser, SetUser, CopiesOK
      <3> QED
        BY <1>0, <1>3, <3>1 DEF User
    <2> QED
      BY <1>3, <2>1 DEF LabelUser
  <1>4. CASE UpdateUser
    <2>1. CASE mUserCur
      <3>1. /\ mUser = [user EXCEPT !.lbl = TRUE]
            /\ user' = [mUser EXCEPT !.ids = expectedIdentities(mem.spec.claims)]
            /\ mUser.uid # 0
        BY <1>4, <2>1 DEF UpdateUser, SetUser, CopiesOK, ObjectsOK, Mapping
      <3> QED
        BY <1>0, <1>4, <3>1 DEF User
    <2> QED
      BY <1>4, <2>1 DEF UpdateUser
  <1>5. CASE DeleteUser
    BY <1>5 DEF DeleteUser, SetUser
  <1>6. CASE AdminDeletesUser
    BY <1>6 DEF AdminDeletesUser, SetUser
  <1>7. CASE ObjSteps /\ ~(CreateUser \/ LabelUser \/ UpdateUser \/ DeleteUser \/ AdminDeletesUser)
    BY <1>7 DEF ObjSteps, DeleteUserResources, CreateIdentity, LabelIdentity, UpdateIdentity,
                DeleteIdentity, CallFault, Crash, ConsoleStoresSettings, SyncUser,
                AdminDeletesIdentity, SyncIdentity
  <1> QED
    BY <1>1, <1>2, <1>3, <1>4, <1>5, <1>6, <1>7, ObjFrame

LEMMA IdentFrame ==
  ASSUME TypeOK, ObjectsOK, CopiesOK, [Next]_vars
  PROVE  \/ idents' = idents
         \/ \E c \in Claims : /\ idents' = [idents EXCEPT ![c] = NoIdentity]
                              /\ (DeleteIdentity /\ cIdents[c].lbl) \/ AdminDeletesIdentity(c)
         \/ /\ CreateIdentity \/ UpdateIdentity
            /\ Head(todo) \in Claims /\ todo # <<>>
            /\ \E i \in Identity : /\ idents' = [idents EXCEPT ![Head(todo)] = i]
                                   /\ i.on /\ i.lbl
         \/ /\ LabelIdentity /\ Head(todo) \in Claims /\ todo # <<>>
            /\ \E i \in Identity : /\ idents' = [idents EXCEPT ![Head(todo)] = i]
                                   /\ i.on /\ i.lbl
                                   /\ idents[Head(todo)].on
                                   /\ i.uid = idents[Head(todo)].uid
  <1> DEFINE c == Head(todo)
  <1>0. /\ idents \in [Claims -> Identity] /\ cIdents \in [Claims -> Identity]
        /\ mIdent \in Identity /\ mUser \in User /\ todo \in Seq(Claims)
    BY DEF TypeOK, ObjTypes, CopyTypes, CacheTypes
  <1>1. todo # <<>> => c \in Claims
    BY <1>0
  <1>2. CASE UNCHANGED objVars
    BY <1>2
  <1>3. CASE CreateIdentity
    <2>1. todo # <<>>
      BY <1>3 DEF CreateIdentity, CopiesOK, OnIdentity
    <2>2. [on |-> TRUE, uid |-> mUser.uid, lbl |-> TRUE] \in Identity
      BY <1>0 DEF User, Identity
    <2> QED
      BY <1>1, <1>3, <2>1, <2>2 DEF CreateIdentity, SetIdentity
  <1>4. CASE UpdateIdentity
    <2>1. todo # <<>>
      BY <1>4 DEF UpdateIdentity, CopiesOK, OnIdentity
    <2>2. CASE mIdentCur
      <3>1. mIdent = [idents[c] EXCEPT !.lbl = TRUE] /\ mIdent.on
        BY <1>4, <2>2 DEF UpdateIdentity, CopiesOK, ObjectsOK
      <3>2. mIdent.lbl
        BY <1>0, <1>1, <2>1, <3>1 DEF Identity
      <3> DEFINE i == [mIdent EXCEPT !.uid = mUser.uid]
      <3>3. i \in Identity /\ i.on /\ i.lbl
        BY <1>0, <3>1, <3>2 DEF User, Identity
      <3>4. idents' = [idents EXCEPT ![c] = i]
        BY <1>4, <2>2 DEF UpdateIdentity, SetIdentity
      <3> QED
        BY <1>1, <1>4, <2>1, <3>3, <3>4
    <2> QED
      BY <1>4, <2>2 DEF UpdateIdentity
  <1>5. CASE LabelIdentity
    <2>1. todo # <<>>
      BY <1>5 DEF LabelIdentity
    <2>2. CASE idSynced[c] /\ ~cIdents[c].lbl
      <3> DEFINE i == [idents[c] EXCEPT !.lbl = TRUE]
      <3>1. cIdents[c] = idents[c] /\ idents[c].on /\ idents' = [idents EXCEPT ![c] = i]
        BY <1>1, <1>5, <2>1, <2>2 DEF LabelIdentity, SetIdentity, CopiesOK
      <3>2. i \in Identity /\ i.on /\ i.lbl /\ i.uid = idents[c].uid
        BY <1>0, <1>1, <2>1, <3>1 DEF Identity
      <3> QED
        BY <1>1, <1>5, <2>1, <3>1, <3>2
    <2> QED
      BY <1>5, <2>2 DEF LabelIdentity
  <1>6. CASE DeleteIdentity
    BY <1>6 DEF DeleteIdentity, SetIdentity
  <1>7. ASSUME NEW d \in Claims, AdminDeletesIdentity(d)
        PROVE  idents' = [idents EXCEPT ![d] = NoIdentity]
    BY <1>7 DEF AdminDeletesIdentity, SetIdentity
  <1>8. CASE ObjSteps /\ ~(CreateIdentity \/ LabelIdentity \/ UpdateIdentity \/ DeleteIdentity)
                      /\ ~(\E d \in Claims : AdminDeletesIdentity(d))
    BY <1>8 DEF ObjSteps, CreateUser, LabelUser, UpdateUser, DeleteUserResources, DeleteUser,
                CallFault, Crash, ConsoleStoresSettings, SyncUser, AdminDeletesUser, SyncIdentity
  <1> QED
    BY <1>2, <1>3, <1>4, <1>5, <1>6, <1>7, <1>8, ObjFrame

LEMMA NextObjects ==
  ASSUME TypeOK, ObjectsOK, CopiesOK, [Next]_vars
  PROVE  ObjectsOK'
  <1> USE DEF Mapping, OnIdentity
  <1>0. /\ user \in User /\ cUser \in User /\ idents \in [Claims -> Identity]
        /\ cIdents \in [Claims -> Identity] /\ todo \in Seq(Claims) /\ legacy' = legacy
    BY EnvFrame DEF TypeOK, ObjTypes, CacheTypes, CopyTypes
  <1>1. /\ user'.uid = 0 => user' = NoUser
        /\ ~legacy' /\ user'.uid # 0 => user'.lbl
    BY <1>0, UserFrame DEF ObjectsOK, NoUser
  <1>2. ASSUME NEW c \in Claims
        PROVE  /\ ~idents'[c].on => idents'[c] = NoIdentity
               /\ ~legacy' /\ idents'[c].on => idents'[c].lbl
    <2>1. CASE idents' = idents
      BY <1>0, <2>1 DEF ObjectsOK
    <2>2. ASSUME NEW d \in Claims, NEW i \in Identity, i = NoIdentity \/ (i.on /\ i.lbl),
                 idents' = [idents EXCEPT ![d] = i]
          PROVE  /\ ~idents'[c].on => idents'[c] = NoIdentity
                 /\ ~legacy' /\ idents'[c].on => idents'[c].lbl
      <3>1. idents'[c] = IF c = d THEN i ELSE idents[c]
        BY <1>0, <2>2
      <3> QED
        <4>1. CASE c # d
          BY <1>0, <3>1, <4>1 DEF ObjectsOK
        <4>2. CASE c = d /\ i = NoIdentity
          BY <3>1, <4>2 DEF NoIdentity
        <4>3. CASE c = d /\ i.on /\ i.lbl
          BY <3>1, <4>3
        <4> QED
          BY <2>2, <4>1, <4>2, <4>3
    <2> QED
      BY <2>1, <2>2, IdentFrame, BlankTypes
  <1>3. /\ pc' \in Mapping => mUser'.uid # 0
        /\ pc' \in {"identMap", "mapIdent"} => mIdent'.on
    <2>1. CASE EndStep
      BY <2>1, Ends
    <2>2. CASE ReportSteps
      BY <2>2 DEF ReportSteps, UpdateStatus, ObjectsOK
    <2>3. CASE Crash \/ (RemoveFinalizer /\ current)
      BY <2>3, Finishes DEF Crash, RemoveFinalizer
    <2>4. CASE QuietSteps
      BY <2>4, QuietFrame DEF ObjectsOK
    <2>5. CASE OtherSteps
      BY <2>5 DEF OtherSteps, HostUpdates, HostDeletes, AdminDeletesUser,
                  AdminDeletesIdentity, ObjectsOK
    <2>6. CASE StartReconcile \/ (AddFinalizer /\ current)
      BY <2>6 DEF StartReconcile, AddFinalizer, Ensure, ObjectsOK
    <2>7. CASE LabelUser
      BY <1>0, <2>7 DEF LabelUser, User
    <2>8. CASE LabelIdentity
      <3>1. cIdents[Head(todo)] \in Identity /\ cIdents[Head(todo)].on
        BY <1>0, <2>8 DEF LabelIdentity
      <3> QED
        BY <2>8, <3>1 DEF LabelIdentity, Identity, ObjectsOK
    <2>9. CASE LabelFault
      <3>1. todo # <<>> => cIdents[Head(todo)] \in Identity
        BY <1>0
      <3> QED
        BY <1>0, <2>9, <3>1 DEF LabelFault, User, Identity, ObjectsOK
    <2>10. CASE (MapUser \/ MapIdentity) /\ pc' = "ident"
      BY <2>10 DEF MapUser, MapIdentity, UpdateStatus, ReturnError, Finish, ObjectsOK
    <2>11. CASE AllIdentitiesDone \/ NothingRedundant \/ DeleteUserResources
      BY <2>11 DEF AllIdentitiesDone, NothingRedundant, DeleteUserResources
    <2>12. CASE (DeleteIdentity \/ DeleteUser) /\ pc' # "idle"
      BY <2>12 DEF DeleteIdentity, DeleteUser, FailWith, Finish
    <2> QED
      BY <2>1, <2>2, <2>3, <2>4, <2>5, <2>6, <2>7, <2>8, <2>9, <2>10, <2>11, <2>12, Steps
         DEF MoveSteps
  <1> QED
    BY <1>1, <1>2, <1>3 DEF ObjectsOK

---------------------------------------------------------------------------
(* Removal: nothing comes back once it is removed.                         *)

LEMMA SettingsFrame ==
  ASSUME [Next]_vars
  PROVE  settings' \subseteq settings \/ ConsoleStoresSettings
  <1>1. CASE UNCHANGED objVars
    BY <1>1
  <1>2. CASE ObjSteps
    BY <1>2 DEF ObjSteps, CreateUser, LabelUser, UpdateUser, DeleteUserResources, DeleteUser,
                CreateIdentity, LabelIdentity, UpdateIdentity, DeleteIdentity, CallFault, Crash,
                SyncUser, AdminDeletesUser, AdminDeletesIdentity, SyncIdentity
  <1> QED
    BY <1>1, <1>2, ObjFrame

\* Nobody can log in as a User that does not exist, and the settings of the
\* console belong to UIDs that were given.
LEMMA NoUserNoSettings ==
  ASSUME TypeOK, ObjectsOK
  PROVE  /\ user.uid = 0 => ~(\E c \in Claims : Mapped(c))
         /\ settings \subseteq {0} \X ToSet(Kinds) => settings = {}
  <1>1. user.uid = 0 => ~(\E c \in Claims : Mapped(c))
    BY DEF ObjectsOK, NoUser, Mapped, ToSet
  <1>2. settings \subseteq {0} \X ToSet(Kinds) => settings = {}
    BY UserAccountAssumption DEF TypeOK, ObjTypes
  <1> QED
    BY <1>1, <1>2

\* Only a Reconcile that creates or maps something can undo the removal.
LEMMA StaysRemoved ==
  ASSUME TypeOK, ObjectsOK, CopiesOK, Undisturbed, [Next]_vars, Removed, pc \notin Writing
  PROVE  Removed'
  <1> USE DEF Writing, Mapping, OnIdentity
  <1>0. idents \in [Claims -> Identity] /\ legacy' = legacy
    BY EnvFrame DEF TypeOK, ObjTypes
  <1>1. user' = user \/ user' = NoUser
    BY UserFrame DEF CreateUser, LabelUser, UpdateUser
  <1>2. \/ idents' = idents
        \/ \E c \in Claims : idents' = [idents EXCEPT ![c] = NoIdentity]
    BY IdentFrame DEF CreateIdentity, UpdateIdentity, LabelIdentity
  <1>3. \A c \in Claims : ~idents'[c].lbl
    BY <1>0, <1>2 DEF Removed, NoIdentity
  <1>4. ~user'.lbl /\ (~legacy' => user'.uid = 0)
    BY <1>0, <1>1 DEF Removed, NoUser
  <1>5. ~legacy' => settings' = {}
    BY <1>0, SettingsFrame, NoUserNoSettings DEF Removed, ConsoleStoresSettings
  <1> QED
    BY <1>3, <1>4, <1>5 DEF Removed

\* The ways deleteIdentityAndUser goes on.
LEMMA RemovalMoves ==
  ASSUME TypeOK, CopiesOK, Undisturbed, [Next]_vars, pc' \in {"dUser", "dUser2", "dNone"}
  PROVE  \/ pc' = pc /\ UNCHANGED <<user, idents>>
         \/ /\ DeleteIdentity /\ pc' = "dUser" /\ UNCHANGED <<user, idents>>
            /\ \A c \in Claims : ~(cIdents[c].on /\ cIdents[c].lbl)
         \/ DeleteUserResources
  <1>1. CASE EndStep
    BY <1>1, Ends
  <1>2. CASE ReportSteps
    BY <1>2 DEF ReportSteps, UpdateStatus
  <1>3. CASE Crash \/ (RemoveFinalizer /\ current)
    BY <1>3, Finishes DEF Crash, RemoveFinalizer
  <1>4. CASE QuietSteps
    BY <1>4 DEF QuietSteps, vars, ConsoleStoresSettings, Cluster, Tick, SyncUserAccount,
                SyncUser, SyncIdentity, OtherEvent
  <1>5. CASE OtherSteps
    BY <1>5 DEF OtherSteps, HostUpdates, HostDeletes, AdminDeletesUser, AdminDeletesIdentity,
                Undisturbed
  <1>6. CASE DeleteIdentity
    BY <1>6 DEF DeleteIdentity, FailWith, Finish
  <1>7. CASE MoveSteps /\ ~DeleteIdentity /\ ~DeleteUserResources
    BY <1>7 DEF MoveSteps, StartReconcile, AddFinalizer, Ensure, LabelUser, LabelIdentity,
                LabelFault, MapUser, MapIdentity, AllIdentitiesDone, NothingRedundant,
                DeleteUser, FailWith, Finish
  <1> QED
    BY <1>1, <1>2, <1>3, <1>4, <1>5, <1>6, <1>7, Steps

LEMMA NextRemoval ==
  ASSUME TypeOK, ObjectsOK, CopiesOK, LifeOK, RemovalOK, Undisturbed, [Next]_vars
  PROVE  RemovalOK'
  <1> USE DEF Writing, Mapping, OnIdentity
  <1>0. /\ acc \in UserAccount /\ user \in User /\ cUser \in User
        /\ idents \in [Claims -> Identity] /\ legacy' = legacy
    BY EnvFrame DEF TypeOK, AccTypes, ObjTypes, CacheTypes
  <1>1. ~acc'.fin => Removed'
    <2>1. CASE RemoveFinalizer /\ current
      BY <2>1, StaysRemoved DEF RemoveFinalizer, RemovalOK
    <2>2. CASE AddFinalizer /\ current
      BY <1>0, <2>2 DEF AddFinalizer, UserAccount
    <2>3. CASE acc'.fin = acc.fin
      BY <2>3, StaysRemoved DEF RemovalOK, LifeOK
    <2>4. CASE HostUpdates \/ HostDeletes
      <3>1. acc'.fin = acc.fin
        BY <1>0, <2>4 DEF HostUpdates, HostDeletes, UserAccount
      <3> QED
        BY <2>3, <3>1
    <2> QED
      BY <2>1, <2>2, <2>3, <2>4, AccFrame DEF QuietAcc
  <1>2. ~legacy' => settings' \subseteq {user'.uid} \X ToSet(Kinds)
    <2> SUFFICES ASSUME ~legacy PROVE settings' \subseteq {user'.uid} \X ToSet(Kinds)
      BY <1>0
    <2>1. CASE ConsoleStoresSettings
      BY <2>1 DEF ConsoleStoresSettings, RemovalOK
    <2>2. CASE settings' \subseteq settings /\ user'.uid = user.uid
      BY <2>2 DEF RemovalOK
    <2>3. CASE settings' \subseteq settings /\ CreateUser /\ user.uid = 0
      BY <2>3, NoUserNoSettings DEF RemovalOK
    <2>4. CASE settings' \subseteq settings /\ DeleteUser
      BY <2>4 DEF DeleteUser, RemovalOK
    <2>5. ~AdminDeletesUser
      BY DEF Undisturbed, AdminDeletesUser
    <2> QED
      BY <2>1, <2>2, <2>3, <2>4, <2>5, UserFrame, SettingsFrame
  <1>3. pc' \in {"dUser", "dUser2", "dNone"} => \A c \in Claims : ~idents'[c].lbl
    <2> SUFFICES ASSUME pc' \in {"dUser", "dUser2", "dNone"}
                 PROVE  \A c \in Claims : ~idents'[c].lbl
      OBVIOUS
    <2>1. CASE pc' = pc /\ UNCHANGED <<user, idents>>
      BY <2>1 DEF RemovalOK
    <2>2. CASE /\ DeleteIdentity /\ UNCHANGED <<user, idents>>
               /\ \A c \in Claims : ~(cIdents[c].on /\ cIdents[c].lbl)
      <3>1. \A c \in Claims : cIdents[c] = idents[c]
        BY <2>2 DEF DeleteIdentity, IdentitiesReadable, Undisturbed, CopiesOK
      <3> QED
        BY <2>2, <3>1 DEF ObjectsOK, NoIdentity
    <2>3. CASE DeleteUserResources
      BY <2>3 DEF DeleteUserResources, RemovalOK
    <2> QED
      BY <2>1, <2>2, <2>3, RemovalMoves
  <1>4. pc' = "dUser2" => user'.uid # 0 /\ (~legacy' => settings' = {})
    <2> SUFFICES ASSUME pc' = "dUser2"
                 PROVE  user'.uid # 0 /\ (~legacy => settings' = {})
      BY <1>0
    <2>1. CASE pc' = pc /\ UNCHANGED <<user, idents>>
      <3>1. ~legacy => ~ConsoleStoresSettings
        BY <2>1 DEF RemovalOK, ObjectsOK, ConsoleStoresSettings, Mapped
      <3> QED
        BY <2>1, <3>1, SettingsFrame DEF RemovalOK
    <2>2. CASE DeleteUserResources
      <3>1. /\ cUser = user /\ user' = user /\ user.uid # 0
            /\ settings' = settings \ ({cUser.uid} \X ToSet(Kinds))
        BY <2>2 DEF DeleteUserResources, UserReadable, Undisturbed, CopiesOK
      <3> QED
        BY <3>1 DEF RemovalOK
    <2> QED
      BY <2>1, <2>2, RemovalMoves
  <1>5. pc' = "dNone" => Removed'
    <2> SUFFICES ASSUME pc' = "dNone" PROVE Removed'
      OBVIOUS
    <2>1. CASE pc' = pc
      BY <2>1, StaysRemoved DEF RemovalOK
    <2>2. CASE DeleteUserResources
      <3>1. /\ cUser = user /\ UNCHANGED <<user, idents, settings>>
            /\ user.uid = 0 \/ ~user.lbl
        BY <2>2 DEF DeleteUserResources, UserReadable, Undisturbed, CopiesOK
      <3>2. ~user.lbl /\ (~legacy => user.uid = 0)
        BY <3>1 DEF ObjectsOK, NoUser
      <3>3. ~legacy => settings = {}
        BY <3>2, NoUserNoSettings DEF RemovalOK
      <3>4. \A c \in Claims : ~idents[c].lbl
        BY <2>2 DEF DeleteUserResources, RemovalOK
      <3> QED
        BY <1>0, <3>1, <3>2, <3>3, <3>4 DEF Removed
    <2> QED
      BY <2>1, <2>2, RemovalMoves
  <1> QED
    BY <1>1, <1>2, <1>3, <1>4, <1>5 DEF RemovalOK

---------------------------------------------------------------------------
(* Mapping: what was checked stays as it was found.                        *)

LEMMA HeadOrTail ==
  ASSUME NEW s \in Seq(Claims), s # <<>>, NEW c \in ToSet(s)
  PROVE  c = Head(s) \/ c \in ToSet(Tail(s))
  <1>1. PICK i \in 1..Len(s) : c = s[i]
    BY DEF ToSet
  <1>2. CASE i = 1
    BY <1>1, <1>2
  <1>3. CASE i # 1
    <2>1. i - 1 \in 1..Len(Tail(s)) /\ Tail(s)[i - 1] = s[i]
      BY <1>3
    <2>2. Tail(s) \in Seq(Claims) /\ DOMAIN Tail(s) = 1..Len(Tail(s))
      OBVIOUS
    <2> QED
      BY <1>1, <2>1, <2>2 DEF ToSet
  <1> QED
    BY <1>2, <1>3

LEMMA NextMapping ==
  ASSUME TypeOK, ObjectsOK, CopiesOK, LifeOK, MappingOK, Undisturbed, [Next]_vars
  PROVE  MappingOK'
  <1> USE DEF Mapping, OnIdentity
  <1>0. /\ user \in User /\ cUser \in User /\ mem \in UserAccount
        /\ idents \in [Claims -> Identity] /\ cIdents \in [Claims -> Identity]
        /\ todo \in Seq(Claims) /\ skip' = skip
    BY EnvFrame DEF TypeOK, RunTypes, ObjTypes, CacheTypes, CopyTypes
  <1>1. ASSUME pc' \notin {"ready"} \union Mapping
        PROVE  MappingOK'
    BY <1>1 DEF MappingOK
  <1>2. CASE EndStep \/ Crash \/ (RemoveFinalizer /\ current)
    BY <1>1, <1>2, Ends, Finishes DEF Crash, RemoveFinalizer
  <1>3. CASE ReportSteps
    <2>1. PICK reason \in Reasons, next \in {"createUser", "updateUser", "createIdent",
                                             "mapIdent", "dIdent"} :
             /\ UpdateStatus(reason, next) /\ UNCHANGED objVars
             /\ pc = CASE next = "createUser" -> "user"
                       [] next = "updateUser" -> "userMap"
                       [] next = "createIdent" -> "ident"
                       [] next = "mapIdent" -> "identMap"
                       [] next = "dIdent" -> "disabling"
      BY <1>3 DEF ReportSteps
    <2>2. pc' = next /\ mem'.spec = mem.spec /\ UNCHANGED <<copyVars, objVars>>
      BY <2>1, Updates DEF CopiesOK, PCs
    <2> QED
      BY <1>0, <2>1, <2>2 DEF MappingOK
  <1>4. CASE QuietSteps
    <2>1. UNCHANGED <<pc, mem, copyVars>> /\ UNCHANGED <<user, idents>>
      BY <1>4, QuietFrame DEF QuietSteps, vars, ConsoleStoresSettings, Cluster, Tick,
                  SyncUserAccount, SyncUser, SyncIdentity, OtherEvent
    <2> QED
      BY <1>0, <2>1 DEF MappingOK
  <1>5. CASE OtherSteps
    <2>1. UNCHANGED <<pc, mem, copyVars, user, idents>>
      BY <1>5 DEF OtherSteps, HostUpdates, HostDeletes, AdminDeletesUser,
                  AdminDeletesIdentity, Undisturbed
    <2> QED
      BY <1>0, <2>1 DEF MappingOK
  <1>6. CASE LabelUser \/ (LabelFault /\ pc = "user")
    <2>1. cUser = user /\ mUser' = [cUser EXCEPT !.lbl = TRUE] /\ pc' = "userMap"
      BY <1>6 DEF LabelUser, LabelFault, UserReadable, Undisturbed, CopiesOK
    <2>2. user'.uid = user.uid /\ user'.ids = user.ids
      BY <1>0, <1>6 DEF LabelUser, LabelFault, SetUser, User
    <2> QED
      BY <1>0, <2>1, <2>2 DEF MappingOK, User
  <1>7. CASE LabelIdentity \/ (LabelFault /\ pc = "ident")
    <2> DEFINE c == Head(todo)
    <2>1. /\ c \in Claims /\ todo # <<>> /\ cIdents[c].on /\ pc = "ident"
          /\ mIdent' = [cIdents[c] EXCEPT !.lbl = TRUE] /\ pc' = "identMap"
          /\ UNCHANGED <<user, mem, mUser, todo>>
          /\ "ident" \in Lagging \/ \A d \in Claims : idSynced[d]
      BY <1>0, <1>7 DEF LabelIdentity, LabelFault, IdentitiesReadable
    <2>2. cIdents[c] = idents[c]
      BY <2>1 DEF CopiesOK, Undisturbed
    <2>3. mIdent'.uid = idents[c].uid /\ idents[c].on
      BY <1>0, <2>1, <2>2 DEF Identity
    <2>4. \A d \in Claims : idents'[d].on = idents[d].on /\ idents'[d].uid = idents[d].uid
      <3> DEFINE i == [idents[c] EXCEPT !.lbl = TRUE]
      <3>1. idents' = idents \/ idents' = [idents EXCEPT ![c] = i]
        BY <1>7 DEF LabelIdentity, LabelFault, SetIdentity
      <3>2. i.on = idents[c].on /\ i.uid = idents[c].uid
        BY <1>0, <2>1 DEF Identity
      <3> HIDE DEF i
      <3> QED
        BY <1>0, <2>1, <3>1, <3>2
    <2>5. ToSet(user.ids) \subseteq Claims
      BY <1>0 DEF User, ToSet
    <2> QED
      BY <2>1, <2>3, <2>4, <2>5 DEF MappingOK
  <1>8. CASE MapUser /\ pc' = "ident"
    <2>1. /\ mUser.ids = expectedIdentities(mem.spec.claims) /\ todo' = mUser.ids
          /\ pc = "userMap" /\ UNCHANGED <<user, idents, mem, mUser>>
      BY <1>8 DEF MapUser, UpdateStatus, ReturnError, Finish
    <2>2. mUser.uid # 0 /\ mUser.uid = user.uid /\ mUser.ids = user.ids
      BY <2>1 DEF ObjectsOK, MappingOK
    <2> QED
      BY <1>8, <2>1, <2>2 DEF MappingOK
  <1>9. CASE MapIdentity /\ pc' = "ident"
    <2>1. /\ mIdent.uid = mUser.uid /\ todo' = Tail(todo) /\ pc = "identMap"
          /\ UNCHANGED <<user, idents, mem, mUser>>
      BY <1>9 DEF MapIdentity, UpdateStatus, ReturnError, Finish
    <2>2. todo # <<>> /\ idents[Head(todo)].on /\ idents[Head(todo)].uid = user.uid
      BY <2>1 DEF MappingOK, CopiesOK
    <2>3. \A c \in ToSet(todo) : c = Head(todo) \/ c \in ToSet(Tail(todo))
      BY <1>0, <2>2, HeadOrTail
    <2> QED
      BY <1>9, <2>1, <2>2, <2>3 DEF MappingOK
  <1>10. CASE AllIdentitiesDone
    BY <1>0, <1>10 DEF AllIdentitiesDone, MappingOK
  <1>11. CASE NothingRedundant
    <2>1. skip'
      BY <1>0, <1>11 DEF NothingRedundant, LifeOK, Removing
    <2> QED
      BY <1>11, <2>1 DEF NothingRedundant, MappingOK
  <1>12. CASE StartReconcile \/ (AddFinalizer /\ current) \/ DeleteUserResources
              \/ ((DeleteIdentity \/ DeleteUser) /\ pc' # "idle")
    <2>1. pc' \notin {"ready"} \union Mapping
      BY <1>12 DEF StartReconcile, AddFinalizer, Ensure, DeleteUserResources, DeleteIdentity,
                   DeleteUser, FailWith, Finish
    <2> QED
      BY <1>1, <2>1
  <1>13. LabelFault => pc \in {"user", "ident"}
    BY DEF LabelFault
  <1> QED
    BY <1>2, <1>3, <1>4, <1>5, <1>6, <1>7, <1>8, <1>9, <1>10, <1>11, <1>12, <1>13, Steps
       DEF MoveSteps

---------------------------------------------------------------------------
(* The theorems.                                                           *)

LEMMA InitInv == Init => IndInv
  <1> SUFFICES ASSUME Init PROVE IndInv
    OBVIOUS
  <1>0. /\ skip \in BOOLEAN /\ legacy \in BOOLEAN /\ acc.spec \in Specs
        /\ acc.life = "live" /\ acc.fin = legacy
    BY UserAccountAssumption DEF Init
  <1>1. acc.spec.claims.Sub \in Claims
    BY <1>0, UserAccountAssumption DEF PropagatedClaims
  <1>2. TypeOK
    <2>1. AccTypes
      BY <1>0 DEF Init, AccTypes, UserAccount, Reasons
    <2>2. user \in User
      <3>1. <<acc.spec.claims.Sub>> \in Seq(Claims)
        BY <1>1
      <3>2. [uid |-> 1, ids |-> <<acc.spec.claims.Sub>>, lbl |-> FALSE] \in User
        BY <3>1, UserAccountAssumption DEF User
      <3> QED
        BY <3>2, BlankTypes DEF Init
    <2>3. idents \in [Claims -> Identity]
      <3>1. [on |-> TRUE, uid |-> 1, lbl |-> FALSE] \in Identity
        BY UserAccountAssumption DEF Identity
      <3> QED
        BY <3>1, BlankTypes DEF Init
    <2>4. uids \in 0..MaxUIDs
      BY UserAccountAssumption DEF Init
    <2>5. ObjTypes
      BY <2>2, <2>3, <2>4 DEF Init, ObjTypes
    <2>6. CacheTypes
      BY <2>1, <2>2, <2>3 DEF Init, CacheTypes, AccTypes
    <2>7. RunTypes
      BY BlankTypes DEF Init, RunTypes, PCs
    <2>8. CopyTypes
      <3>1. todo \in Seq(Claims)
        BY DEF Init
      <3> QED
        BY <3>1, BlankTypes DEF Init, CopyTypes
    <2>9. EnvTypes
      <3>1. changes \in 0..MaxChanges /\ faults \in 0..MaxFaults
        BY UserAccountAssumption DEF Init
      <3> QED
        BY <1>0, <3>1 DEF Init, EnvTypes
    <2> QED
      BY <2>1, <2>5, <2>6, <2>7, <2>8, <2>9 DEF TypeOK
  <1>3. CopiesOK
    BY DEF Init, CopiesOK, OnIdentity
  <1>4. LifeOK
    BY <1>0 DEF Init, LifeOK, Writing, Mapping, OnIdentity, Removing
  <1>5. ~legacy => user = NoUser /\ \A c \in Claims : idents[c] = NoIdentity
    BY DEF Init
  <1>6. ObjectsOK
    <2>1. user.uid = 0 => user = NoUser
      BY DEF Init, NoUser
    <2>2. \A c \in Claims : ~idents[c].on => idents[c] = NoIdentity
      BY DEF Init, NoIdentity
    <2> QED
      BY <1>5, <2>1, <2>2 DEF Init, ObjectsOK, Mapping, OnIdentity, NoUser, NoIdentity
  <1>7. RemovalOK
    <2>1. ~legacy => Removed
      BY <1>5 DEF Init, Removed, NoUser, NoIdentity
    <2> QED
      BY <1>0, <2>1 DEF Init, RemovalOK
  <1>8. MappingOK
    BY DEF Init, MappingOK, Mapping, OnIdentity
  <1> QED
    BY <1>2, <1>3, <1>4, <1>6, <1>7, <1>8 DEF IndInv

LEMMA NextInv == IndInv /\ [Next]_vars => IndInv'
  <1> SUFFICES ASSUME IndInv, [Next]_vars PROVE IndInv'
    OBVIOUS
  <1>1. TypeOK' /\ CopiesOK' /\ LifeOK' /\ ObjectsOK'
    BY NextTypes, NextCopies, NextLife, NextObjects DEF IndInv
  <1>2. Undisturbed' => Undisturbed
    BY DEF Undisturbed
  <1>3. Undisturbed => RemovalOK' /\ MappingOK'
    BY NextRemoval, NextMapping DEF IndInv
  <1> QED
    BY <1>1, <1>2, <1>3 DEF IndInv

\* Every reachable state of Reconcile and its environment satisfies IndInv: a copy
\* with the stored version is the stored object, Users and Identities are written
\* only under the finalizer, and what deleteIdentityAndUser and ensureIdentity have
\* seen to is still so when they go on.
THEOREM Invariance == Spec => []IndInv
  BY InitInv, NextInv, PTL DEF Spec

\* An account that is gone has left no labelled User or Identity, and without
\* leftovers of an earlier version no User and no settings of the console at all.
THEOREM NothingLeft == Spec => []NothingOwnedLeft
  <1>1. IndInv => NothingOwnedLeft
    BY DEF IndInv, LifeOK, RemovalOK, Removed, NothingOwnedLeft
  <1> QED
    BY <1>1, Invariance, PTL

\* deleteUser removes the User only when no Identity is left to log in with, and
\* the settings of the console are gone.
THEOREM IdentitiesFirst == Spec => IdentitiesDeletedFirst
  <1>1. IndInv /\ [Next]_vars =>
            [user.uid # 0 /\ user'.uid = 0 /\ Undisturbed =>
                /\ \A c \in Claims : ~idents[c].lbl
                /\ ~legacy => \A c \in Claims : ~Mapped(c)
                /\ ~legacy => settings = {}]_vars
    <2> SUFFICES ASSUME IndInv, [Next]_vars, user.uid # 0, user'.uid = 0, Undisturbed
                 PROVE  /\ \A c \in Claims : ~idents[c].lbl
                        /\ ~legacy => \A c \in Claims : ~Mapped(c)
                        /\ ~legacy => settings = {}
      OBVIOUS
    <2>1. ~AdminDeletesUser
      BY DEF Undisturbed, AdminDeletesUser
    <2>2. DeleteUser
      BY <2>1, UserFrame DEF IndInv
    <2>3. pc = "dUser2" /\ RemovalOK /\ ObjectsOK
      BY <2>2 DEF DeleteUser, IndInv
    <2> QED
      BY <2>3 DEF RemovalOK, ObjectsOK, Mapped
  <1> QED
    BY <1>1, Invariance, PTL DEF Spec, IdentitiesDeletedFirst

\* Provisioned and Disabled are reported by the steps that are meant to.
LEMMA ReasonFrame ==
  ASSUME TypeOK, CopiesOK, [Next]_vars, acc'.reason # acc.reason,
         acc'.reason \in {"Provisioned", "Disabled"}
  PROVE  /\ current /\ acc'.spec = acc.spec
         /\ \/ SetStatusReady /\ acc'.reason = "Provisioned"
            \/ SetStatusDisabled /\ acc'.reason = "Disabled"
  <1>0. acc \in UserAccount
    BY DEF TypeOK, AccTypes
  <1>1. ASSUME NEW r \in Reasons, acc' = [acc EXCEPT !.reason = r]
        PROVE  acc'.reason = r /\ acc'.spec = acc.spec
    BY <1>0, <1>1 DEF UserAccount
  <1>2. CASE acc' = acc
    BY <1>2
  <1>3. ASSUME NEW r \in Reasons \ {"Provisioned", "Disabled"}, FailWith(r)
        PROVE  FALSE
    BY <1>1, <1>2, <1>3 DEF FailWith
  <1>4. ASSUME NEW r \in Reasons \ {"Provisioned", "Disabled"}, SetReason(r)
        PROVE  FALSE
    BY <1>1, <1>2, <1>4 DEF SetReason
  <1>5. DeleteFailure \in Reasons \ {"Provisioned", "Disabled"}
    BY DEF DeleteFailure, Reasons
  <1>6. SetStatusReady \/ SetStatusDisabled
    <2> SUFFICES ASSUME ~SetStatusReady, ~SetStatusDisabled PROVE FALSE
      OBVIOUS
    <2> USE DEF Reasons
    <2>1. CASE UNCHANGED vars \/ Others \/ Cluster
      BY <1>0, <1>2, <2>1 DEF vars, Others, Cluster, HostUpdates, HostDeletes, AdminDeletesUser,
            AdminDeletesIdentity, ConsoleStoresSettings, Tick, SyncUserAccount, SyncUser,
            SyncIdentity, OtherEvent, UserAccount
    <2>2. CASE Fault
      BY <1>2, <1>3, <1>5, <2>2 DEF Fault, CallFault, LabelFault, Crash, ReturnError
    <2>3. CASE AnnounceUser \/ MapUser \/ AnnounceIdentity \/ MapIdentity \/ Disabling
      BY <1>2, <1>4, <2>3 DEF AnnounceUser, MapUser, AnnounceIdentity, MapIdentity, Disabling,
                              UpdateStatus, ReturnError
    <2>4. CASE CreateUser \/ UpdateUser \/ CreateIdentity \/ UpdateIdentity
      BY <1>2, <1>3, <2>4 DEF CreateUser, UpdateUser, CreateIdentity, UpdateIdentity
    <2>5. CASE DeleteIdentity \/ DeleteUser
      BY <1>2, <1>3, <1>5, <2>5 DEF DeleteIdentity, DeleteUser
    <2>6. CASE ReportDeleted
      <3>1. SetReason(Deleted)
        BY <1>2, <2>6 DEF ReportDeleted, ReturnError
      <3>2. Deleted = mem.reason \/ Deleted \in {"Terminating", "Provisioning"}
        BY DEF Deleted
      <3> QED
        BY <1>2, <1>4, <3>1, <3>2 DEF SetReason
    <2>7. CASE RemoveFinalizer
      BY <1>0, <1>3, <2>7 DEF RemoveFinalizer, UserAccount
    <2>8. CASE AddFinalizer
      BY <1>0, <1>2, <2>8 DEF AddFinalizer, ReturnError, UserAccount
    <2>9. CASE StartReconcile \/ LabelUser \/ LabelIdentity \/ AllIdentitiesDone
               \/ DeleteUserResources \/ NothingRedundant
      BY <1>2, <2>9 DEF StartReconcile, LabelUser, LabelIdentity, AllIdentitiesDone,
                        DeleteUserResources, NothingRedundant
    <2> QED
      BY <2>1, <2>2, <2>3, <2>4, <2>5, <2>6, <2>7, <2>8, <2>9 DEF Next, Reconcile
  <1>7. CASE SetStatusReady
    BY <1>1, <1>2, <1>7 DEF SetStatusReady, SetReason, ReturnError, Reasons
  <1>8. CASE SetStatusDisabled
    BY <1>1, <1>2, <1>8 DEF SetStatusDisabled, SetReason, ReturnError, Reasons
  <1> QED
    BY <1>6, <1>7, <1>8

\* Disabled is reported only when everything of the account is removed.
THEOREM DisabledRemoved == Spec => DisabledIsRemoved
  <1>1. IndInv /\ [Next]_vars =>
            [Becomes("Disabled") /\ Undisturbed =>
                /\ acc'.spec.disabled
                /\ ~user.lbl /\ (\A c \in Claims : ~idents[c].lbl)
                /\ ~legacy => user.uid = 0 /\ settings = {}]_vars
    <2> SUFFICES ASSUME IndInv, [Next]_vars, Becomes("Disabled"), Undisturbed
                 PROVE  /\ acc'.spec.disabled
                        /\ ~user.lbl /\ (\A c \in Claims : ~idents[c].lbl)
                        /\ ~legacy => user.uid = 0 /\ settings = {}
      OBVIOUS
    <2>1. current /\ acc'.spec = acc.spec /\ SetStatusDisabled
      BY ReasonFrame DEF IndInv, Becomes
    <2>2. mem = acc /\ mem.spec.disabled /\ pc = "dNone"
      BY <2>1 DEF IndInv, CopiesOK, SetStatusDisabled
    <2> QED
      BY <2>1, <2>2 DEF IndInv, RemovalOK, Removed
  <1> QED
    BY <1>1, Invariance, PTL DEF Spec, DisabledIsRemoved

\* Provisioned is reported only when the User and the Identities of the stored
\* claims exist and refer to each other.
THEOREM ProvisionedMapped == Spec => ProvisionedIsMapped
  <1>1. IndInv /\ [Next]_vars =>
            [Becomes("Provisioned") /\ ~skip /\ Undisturbed =>
                /\ user.uid # 0
                /\ user.ids = expectedIdentities(acc'.spec.claims)
                /\ \A c \in ToSet(user.ids) : idents[c].on /\ idents[c].uid = user.uid]_vars
    <2> SUFFICES ASSUME IndInv, [Next]_vars, Becomes("Provisioned"), ~skip, Undisturbed
                 PROVE  /\ user.uid # 0
                        /\ user.ids = expectedIdentities(acc'.spec.claims)
                        /\ \A c \in ToSet(user.ids) : idents[c].on /\ idents[c].uid = user.uid
      OBVIOUS
    <2>1. current /\ acc'.spec = acc.spec /\ SetStatusReady
      BY ReasonFrame DEF IndInv, Becomes
    <2>2. mem = acc /\ pc = "ready"
      BY <2>1 DEF IndInv, CopiesOK, SetStatusReady
    <2>3. todo = <<>> /\ ToSet(todo) = {}
      BY <2>2 DEF IndInv, MappingOK, ToSet
    <2> QED
      BY <2>1, <2>2, <2>3 DEF IndInv, MappingOK
  <1> QED
    BY <1>1, Invariance, PTL DEF Spec, ProvisionedIsMapped
===========================================================================
