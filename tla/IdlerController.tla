--------------------------- MODULE IdlerController ---------------------------
(***************************************************************************)
(* The Idler controller for one Idler, that is for one namespace of a      *)
(* user: Reconcile looks at every pod of the namespace, scales down or     *)
(* deletes the owners of the pods that run for too long or restart too     *)
(* often, tells the user once, and asks to be called again when the next   *)
(* pod is due.  Beside it: the host, which changes the timeout and removes *)
(* notifications; users and controllers, which start pods, stop them and   *)
(* scale owners up again; failing calls and restarts of the operator.      *)
(*                                                                         *)
(* `now' is the clock in seconds.  A Reconcile takes no time, and the      *)
(* clock stands still while a request is waiting: the time properties are  *)
(* about when the operator asks to be called, not about how busy it is.    *)
(***************************************************************************)
EXTENDS Integers, Sequences, FiniteSets, FiniteSetsExt, SequencesExt

CONSTANTS
    Pods,           \* names of pods
    Owners,         \* the objects that own them
    Chain,          \* Chain[p]: the owners of p, the top one first
    Kind,           \* Kind[o]: the kind of an owner
    Stubborn,       \* owners whose controller does not react to being idled
    Timeouts,       \* values of Spec.TimeoutSeconds
    EmailCounts,    \* how many users of the space may have an e-mail address
    Starts,         \* instants at which pods are created
    MaxNow,         \* bound on the clock
    MaxChanges,     \* bound on what the host and users change
    MaxFaults       \* bound on failing calls, missed events and restarts

ASSUME IdlerAssumption ==
    /\ \A p \in Pods : Chain[p] \in Seq(Owners)
    /\ Stubborn \subseteq Owners
    /\ Timeouts \subseteq Int
    /\ EmailCounts \subseteq Nat /\ EmailCounts # {}
    /\ MaxNow \in Nat /\ MaxChanges \in Nat /\ MaxFaults \in Nat

VARIABLES
    now,        \* the clock
    idler,      \* the stored Idler: timeout, Ready reason, notification condition
    icache,     \* the Idler in the informer cache
    pods,       \* the pods of the namespace
    owners,     \* state of each owner, and when others changed it last
    hosted,     \* the Notification exists on the host
    sent,       \* number of Notifications created so far
    pending,    \* a request is in the work queue
    due,        \* when the delayed request is added to it
    pc, work,   \* where Reconcile is, and its local variables
    retimed,    \* when the host last set the timeout, or Reconcile found a
                \* pod whose start the watch had missed (history)
    changes, faults

vars == <<now, idler, icache, pods, owners, hosted, sent, pending, due,
          pc, work, retimed, changes, faults>>
others == <<retimed, changes, faults>>
-----------------------------------------------------------------------------
NotScheduled == -1
restartThresholdExceeded(pod) == pod.loops

ScaledKinds  == {"Deployment", "ReplicaSet", "Integration", "KameletBinding",
                 "StatefulSet", "ReplicationController", "DeploymentConfig"}
DeletedKinds == {"DaemonSet", "Job", "DataVolume", "PersistentVolumeClaim"}
StoppedKinds == {"VirtualMachine", "AnsibleAutomationPlatform", "Claw"}
KnownKinds   == ScaledKinds \cup DeletedKinds \cup StoppedKinds
                    \cup {"ServingRuntime"}
Known(o) == Kind[o] \in KnownKinds

Phases  == {"Absent", "Pending", "Running", "Completed", "Evicted"}
Pod     == [phase: Phases, start: 0..MaxNow,
            loops: BOOLEAN, deleted: BOOLEAN, unseen: BOOLEAN]
NoPod   == [phase |-> "Absent", start |-> 0,
            loops |-> FALSE, deleted |-> FALSE, unseen |-> FALSE]
Present(p) == pods[p].phase # "Absent"
Started(pod) == pod.phase \notin {"Absent", "Pending"}

Reasons == {"None", "Running", "NoDeactivation", "UnableToEnsureIdling"}
Notes   == {"None", "Created", "CreationFailed"}
IdlerObject == [timeout: Timeouts, ready: Reasons, note: Notes]
OwnerState  == [state: {"up", "down", "deleting", "gone"}, since: 0..MaxNow]

NoWork == [copy |-> <<>>]

(* The timeout of a pod: a twelfth of the Idler's for virtual machines. *)
isOwnedByVM(p) == /\ Chain[p] # <<>>
                  /\ Kind[Last(Chain[p])] = "VirtualMachineInstance"
getTimeout(t, p) == IF isOwnedByVM(p) THEN t \div 12 ELSE t
Percent(n, t) == (n * t) \div 100

shorterDuration(first, second) ==
    LET shorter == IF first > second THEN second ELSE first
    IN  IF shorter < 0 THEN 0 ELSE shorter

(* The owners that can be found from the pod upwards: an owner that is     *)
(* gone hides those above it.                                              *)
Reachable(p) ==
    LET lost == {i \in 1..Len(Chain[p]) : owners[Chain[p][i]].state = "gone"}
    IN  SubSeq(Chain[p], 1 + Max(lost \cup {0}), Len(Chain[p]))

Deleting(o) == owners[o].state = "deleting"
Fault == faults < MaxFaults /\ faults' = faults + 1 /\ UNCHANGED <<retimed, changes>>
Change == changes < MaxChanges /\ changes' = changes + 1 /\ UNCHANGED <<retimed, faults>>
-----------------------------------------------------------------------------
Init ==
    /\ now = 0
    /\ idler \in [timeout: Timeouts, ready: {"None"}, note: {"None"}]
    /\ icache = idler
    /\ pods = [p \in Pods |-> NoPod]
    /\ owners = [o \in Owners |-> [state |-> "up", since |-> 0]]
    /\ hosted = FALSE /\ sent = 0
    /\ pending = TRUE /\ due = NotScheduled
    /\ pc = "rest" /\ work = NoWork
    /\ retimed = 0 /\ changes = 0 /\ faults = 0
-----------------------------------------------------------------------------
(* Reconcile *)

(* Get the Idler; List the pods, from the caches. *)
StartReconcile ==
    /\ pc = "rest" /\ pending
    /\ pending' = FALSE
    /\ work' = [copy |-> icache, current |-> icache = idler,
                list |-> pods,
                todo |-> IF icache.timeout > 0
                         THEN {p \in Pods : Present(p)} ELSE {},
                tried |-> {}, after |-> icache.timeout, failed |-> FALSE,
                pod |-> "none", tree |-> <<>>, attempted |-> FALSE,
                top |-> FALSE, err |-> "none",
                reason |-> IF icache.timeout = 0 THEN "NoDeactivation"
                           ELSE IF icache.timeout < 0 THEN "UnableToEnsureIdling"
                           ELSE "Running"]
    /\ pc' = IF icache.timeout > 0 THEN "pods" ELSE "status"
    /\ pods' = [p \in Pods |-> [pods[p] EXCEPT !.unseen = @ /\ icache.timeout <= 0]]
    /\ retimed' = IF icache.timeout > 0 /\ \E p \in Pods : pods[p].unseen
                  THEN now ELSE retimed
    /\ UNCHANGED <<now, idler, icache, owners, hosted, sent, due, changes, faults>>

Restarting(p) == restartThresholdExceeded(work.list[p]) /\ p \notin work.tried
TimedOut(p) ==
    now > work.list[p].start + getTimeout(work.copy.timeout, p)

(* Mutant: the age of the pod is forgotten. *)
StartForgotten(p) ==
    /\ pc = "pods" /\ p \in work.todo
    /\ ~ (Started(work.list[p]) /\ (Restarting(p) \/ TimedOut(p)))
    /\ work' = [work EXCEPT
                    !.after = shorterDuration(@, getTimeout(work.copy.timeout, p)),
                    !.todo = @ \ {p}]
    /\ UNCHANGED <<now, idler, icache, pods, owners, hosted, sent, pending,
                   due, pc, others>>

(* A pod that may go on: when does it have to be looked at again? *)
PassPod(p) ==
    /\ pc = "pods" /\ p \in work.todo
    /\ ~ (Started(work.list[p]) /\ (Restarting(p) \/ TimedOut(p)))
    /\ LET timeout == getTimeout(work.copy.timeout, p)
           next == IF Started(work.list[p])
                   THEN work.list[p].start + timeout + 1 - now
                   ELSE timeout
       IN  work' = [work EXCEPT !.after = shorterDuration(@, next),
                                !.todo = @ \ {p}]
    /\ UNCHANGED <<now, idler, icache, pods, owners, hosted, sent, pending,
                   due, pc, others>>

(* scaleOwnerToZero starts with fetching the owners.  It goes on with      *)
(* those it got if that fails: `n' owners at the top are then missing.     *)
FetchOwners(p, n) ==
    /\ pc = "pods" /\ p \in work.todo
    /\ Started(work.list[p]) /\ (Restarting(p) \/ TimedOut(p))
    /\ LET found == Reachable(p)
           kept == SubSeq(found, n + 1, Len(found))
       IN  /\ n <= Len(found)
           /\ work' = [work EXCEPT
                !.pod = p,
                !.tree = [i \in 1..Len(kept) |->
                             [owner |-> kept[i], deleting |-> Deleting(kept[i])]],
                !.attempted = FALSE, !.top = FALSE, !.err = "none"]
    /\ IF n = 0 THEN UNCHANGED others ELSE Fault
    /\ pc' = "owners"
    /\ UNCHANGED <<now, idler, icache, pods, owners, hosted, sent, pending, due>>

(* Mutant: an attempt counts although the owners below are deleted. *)
SkipAsAttempted ==
    /\ pc = "owners" /\ work.tree # <<>>
    /\ Head(work.tree).deleting \/ ~ Known(Head(work.tree).owner)
    /\ work' = [work EXCEPT !.tree = Tail(@)]
    /\ UNCHANGED <<now, idler, icache, pods, owners, hosted, sent, pending,
                   due, pc, others>>

SkipOwner ==
    /\ pc = "owners" /\ work.tree # <<>>
    /\ Head(work.tree).deleting \/ ~ Known(Head(work.tree).owner)
    /\ work' = [work EXCEPT !.tree = Tail(@),
                            !.attempted = @ /\ ~ Head(work.tree).deleting]
    /\ UNCHANGED <<now, idler, icache, pods, owners, hosted, sent, pending,
                   due, pc, others>>

(* errors.Join: IsNotFound finds the first error of the list. *)
Join(first, second) == IF first = "none" THEN second ELSE first

(* What idling does to an owner.  A ServingRuntime is idled by deleting    *)
(* its InferenceService, if that is old enough.                            *)
Idled(o) ==
    IF Kind[o] \in DeletedKinds THEN [owners[o] EXCEPT !.state = "deleting"]
    ELSE IF owners[o].state # "up" THEN owners[o]
    ELSE IF Kind[o] = "ServingRuntime" /\ owners[o].since >= now - work.copy.timeout
    THEN owners[o]
    ELSE [owners[o] EXCEPT !.state = "down"]

(* Mutant: the first owner is always enough. *)
FirstOwnerOnly(err) ==
    work' = [work EXCEPT !.tree = <<>>, !.attempted = TRUE, !.top = TRUE,
                         !.err = Join(@, err)]

(* One owner is idled; the second one too if the first call failed or the  *)
(* pod runs for longer than 105% of its timeout.                           *)
AfterOwner(err) ==
    LET started == work.list[work.pod].start
        timeout == getTimeout(work.copy.timeout, work.pod)
        enough == work.top \/ (err = "none" /\ ~ (now > started + Percent(105, timeout)))
    IN  work' = [work EXCEPT !.tree = IF enough THEN <<>> ELSE Tail(@),
                             !.attempted = TRUE, !.top = TRUE,
                             !.err = Join(@, err)]

IdleOwner ==
    /\ pc = "owners" /\ work.tree # <<>>
    /\ ~ Head(work.tree).deleting /\ Known(Head(work.tree).owner)
    /\ LET o == Head(work.tree).owner
       IN  \/ /\ owners[o].state = "gone"
              /\ AfterOwner("missing")
              /\ UNCHANGED <<owners, others>>
           \/ /\ owners[o].state # "gone"
              /\ owners' = [owners EXCEPT ![o] = Idled(o)]
              /\ AfterOwner("none")
              /\ UNCHANGED others
           \/ /\ AfterOwner("failed")
              /\ Fault
              /\ UNCHANGED owners
    /\ UNCHANGED <<now, idler, icache, pods, hosted, sent, pending, due, pc>>
-----------------------------------------------------------------------------
(* The end of deletePodsAndCreateNotification and the rest of the loop.    *)
(* A pod that was killed because of its timeout is looked at again after   *)
(* 5% of it; one that was killed because of its restarts is not.           *)
Killed ==
    LET p == work.pod
        soon == Percent(5, getTimeout(work.copy.timeout, p))
    IN  [work EXCEPT !.todo = @ \ {p},
                     !.after = IF Restarting(p) THEN @ ELSE shorterDuration(@, soon)]

(* A failure is remembered.  After a failed kill for restarts the timeout  *)
(* is checked too.                                                         *)
NotKilled ==
    IF Restarting(work.pod)
    THEN [work EXCEPT !.failed = TRUE, !.tried = @ \cup {work.pod}]
    ELSE [work EXCEPT !.failed = TRUE, !.todo = @ \ {work.pod}]

(* No known owner, or idling the owners had no effect for more than 110%   *)
(* of the timeout.                                                         *)
Managed ==
    LET p == work.pod
        timeout == getTimeout(work.copy.timeout, p)
    IN  /\ work.top
        /\ work.attempted \/ ~ (now > work.list[p].start + Percent(110, timeout))

OwnersDone == pc = "owners" /\ work.tree = <<>>

OwnersFailed ==
    /\ OwnersDone /\ work.err # "none"
    /\ work' = IF work.err = "missing" THEN Killed ELSE NotKilled
    /\ pc' = "pods"
    /\ UNCHANGED <<now, idler, icache, pods, owners, hosted, sent, pending,
                   due, others>>

(* The pod itself is deleted, unless it is left to its owner. *)
DeletePod ==
    LET p == work.pod
        completed == work.list[p].phase = "Completed"
        evicted == work.list[p].phase = "Evicted"
        delete == ~ Managed \/ completed \/ evicted
        tell == ~ completed \/ Managed
    IN  /\ OwnersDone /\ work.err = "none"
        /\ \/ /\ delete /\ Present(p)
              /\ pods' = [pods EXCEPT ![p].deleted = TRUE]
              /\ UNCHANGED others
              /\ pc' = IF tell THEN "notify" ELSE "pods"
              /\ work' = IF tell THEN work ELSE Killed
           \/ /\ delete
              /\ IF Present(p) THEN Fault ELSE UNCHANGED others
              /\ work' = NotKilled
              /\ pc' = "pods"
              /\ UNCHANGED pods
           \/ /\ ~ delete
              /\ pc' = "notify"
              /\ UNCHANGED <<pods, others, work>>
        /\ UNCHANGED <<now, idler, icache, owners, hosted, sent, pending, due>>

(* Status().Update of the notification condition: it fails on an Idler     *)
(* that was changed meanwhile, and a failure is only logged.               *)
Noted(note) ==
    /\ idler' = IF work.current THEN [idler EXCEPT !.note = note] ELSE idler
    /\ work' = [Killed EXCEPT !.copy.note = note]
    /\ pc' = "pods"

(* Mutant: the condition is not looked at. *)
AlwaysNotified(n) ==
    /\ pc = "notify"
    /\ hosted' = TRUE /\ sent' = IF hosted THEN sent ELSE sent + 1
    /\ pc' = "record"
    /\ UNCHANGED <<now, idler, icache, pods, owners, pending, due, work, others>>

(* createNotification: once the condition is set nothing is created.  All  *)
(* users get a Notification of one name, so the second creation fails.     *)
CreateNotification(n) ==
    /\ pc = "notify"
    /\ \/ /\ work.copy.note = "Created"
          /\ work' = Killed /\ pc' = "pods"
          /\ UNCHANGED <<idler, hosted, sent, others>>
       \/ /\ work.copy.note # "Created" /\ (hosted \/ n = 1)
          /\ hosted' = TRUE /\ sent' = IF hosted THEN sent ELSE sent + 1
          /\ pc' = "record"
          /\ UNCHANGED <<idler, work, others>>
       \/ /\ work.copy.note # "Created" /\ ~ hosted /\ n # 1
          /\ hosted' = (n > 0) /\ sent' = IF n > 0 THEN sent + 1 ELSE sent
          /\ Noted("CreationFailed")
          /\ UNCHANGED others
       \/ /\ work.copy.note # "Created"
          /\ Noted("CreationFailed")
          /\ Fault
          /\ UNCHANGED <<hosted, sent>>
    /\ UNCHANGED <<now, icache, pods, owners, pending, due>>

(* The condition is set; if that fails, the failure is set instead. *)
RecordNotification ==
    /\ pc = "record"
    /\ \/ /\ work.current
          /\ Noted("Created")
          /\ UNCHANGED others
       \/ /\ IF work.current THEN Fault ELSE UNCHANGED others
          /\ Noted("CreationFailed")
    /\ UNCHANGED <<now, icache, pods, owners, hosted, sent, pending, due>>
-----------------------------------------------------------------------------
(* The end of Reconcile.  An error puts the request back into the queue;   *)
(* otherwise it is added after `after' seconds, if that is not zero, or    *)
(* when it was to be added anyway, if that is sooner.                      *)
AddAfter(after) ==
    due' = IF after = 0 THEN due
           ELSE IF due = NotScheduled \/ due > now + after THEN now + after
           ELSE due

ListFails ==
    /\ pc = "pods" /\ work.todo = {p \in Pods : work.list[p].phase # "Absent"}
    /\ work.tried = {} /\ ~ work.failed
    /\ work' = [work EXCEPT !.todo = {}, !.failed = TRUE]
    /\ Fault
    /\ UNCHANGED <<now, idler, icache, pods, owners, hosted, sent, pending, due, pc>>

EndPods ==
    /\ pc = "pods" /\ work.todo = {}
    /\ work' = [work EXCEPT !.reason =
                    IF work.failed THEN "UnableToEnsureIdling" ELSE "Running"]
    /\ pc' = "status"
    /\ UNCHANGED <<now, idler, icache, pods, owners, hosted, sent, pending,
                   due, others>>

SetStatus ==
    /\ pc = "status"
    /\ LET same == work.copy.ready = work.reason
       IN  \/ /\ same \/ work.current
              /\ idler' = IF same THEN idler ELSE [idler EXCEPT !.ready = work.reason]
              /\ IF work.failed THEN pending' = TRUE /\ UNCHANGED due
                 ELSE /\ IF work.reason = "Running" THEN AddAfter(work.after)
                         ELSE UNCHANGED due
                      /\ UNCHANGED pending
              /\ UNCHANGED others
           \/ /\ ~ same
              /\ IF work.current THEN Fault ELSE UNCHANGED others
              /\ pending' = TRUE
              /\ UNCHANGED <<idler, due>>
    /\ pc' = "rest" /\ work' = NoWork
    /\ UNCHANGED <<now, icache, pods, owners, hosted, sent>>

(* The operator stops and is started again: the queue is lost, and the     *)
(* Idler is new to its informer.                                           *)
Restart ==
    /\ Fault
    /\ pc' = "rest" /\ work' = NoWork
    /\ pending' = TRUE /\ due' = NotScheduled /\ icache' = idler
    /\ UNCHANGED <<now, idler, pods, owners, hosted, sent>>

Reconcile ==
    \/ StartReconcile \/ EndPods \/ SetStatus \/ ListFails
    \/ \E p \in Pods : PassPod(p) \/ \E n \in 0..Len(Chain[p]) : FetchOwners(p, n)
    \/ SkipOwner \/ IdleOwner \/ OwnersFailed \/ DeletePod
    \/ \E n \in EmailCounts : CreateNotification(n)
    \/ RecordNotification
-----------------------------------------------------------------------------
(* The clock and the delayed request *)
Tick ==
    /\ now < MaxNow
    /\ pc = "rest" /\ ~ pending /\ icache = idler
    /\ due = NotScheduled \/ now < due
    /\ now' = now + 1
    /\ UNCHANGED <<idler, icache, pods, owners, hosted, sent, pending, due,
                   pc, work, others>>

RequestDue ==
    /\ due # NotScheduled /\ now >= due
    /\ due' = NotScheduled /\ pending' = TRUE
    /\ UNCHANGED <<now, idler, icache, pods, owners, hosted, sent, pc, work, others>>

(* The host changes the timeout; the informer sees the Idler (the          *)
(* GenerationChangedPredicate drops changes of the status); the host       *)
(* removes a notification long after it was sent.                          *)
HostSetsTimeout(t) ==
    /\ idler.timeout # t
    /\ changes < MaxChanges /\ changes' = changes + 1 /\ UNCHANGED faults
    /\ retimed' = now
    /\ idler' = [idler EXCEPT !.timeout = t]
    /\ work' = IF pc = "rest" THEN work ELSE [work EXCEPT !.current = FALSE]
    /\ UNCHANGED <<now, icache, pods, owners, hosted, sent, pending, due, pc>>

SyncIdler ==
    /\ icache # idler
    /\ icache' = idler
    /\ pending' = (pending \/ icache.timeout # idler.timeout)
    /\ UNCHANGED <<now, idler, pods, owners, hosted, sent, due, pc, work, others>>

HostRemovesNotification ==
    /\ hosted /\ idler.note = "Created" /\ icache = idler /\ pc = "rest"
    /\ hosted' = FALSE
    /\ Change
    /\ UNCHANGED <<now, idler, icache, pods, owners, sent, pending, due, pc, work>>

(* Pods.  PodIdlerPredicate: the start of a pod, a restart above the       *)
(* threshold and a deletion enqueue the Idler; a creation does not.        *)
SetPod(p, pod, enqueue) ==
    /\ pods' = [pods EXCEPT ![p] = pod]
    /\ pending' = (pending \/ enqueue)
    /\ UNCHANGED <<now, idler, icache, owners, hosted, sent, due, pc, work>>

CreatePod(p) ==
    /\ ~ Present(p) /\ now \in Starts
    /\ \A i \in DOMAIN Chain[p] : owners[Chain[p][i]].state = "up"
    /\ SetPod(p, [NoPod EXCEPT !.phase = "Pending"], FALSE)
    /\ UNCHANGED others

StartPod(p) ==
    /\ pods[p].phase = "Pending" /\ now \in Starts
    /\ SetPod(p, [pods[p] EXCEPT !.phase = "Running", !.start = now], TRUE)
    /\ UNCHANGED others

(* The watch was interrupted: a pod that was created and started in        *)
(* between looks like a created one.                                       *)
AppearPod(p) ==
    /\ ~ Present(p) /\ now \in Starts
    /\ \A i \in DOMAIN Chain[p] : owners[Chain[p][i]].state = "up"
    /\ SetPod(p, [NoPod EXCEPT !.phase = "Running", !.start = now, !.unseen = TRUE], FALSE)
    /\ Fault

RestartPod(p) ==
    /\ pods[p].phase = "Running" /\ ~ pods[p].loops /\ now \in Starts
    /\ SetPod(p, [pods[p] EXCEPT !.loops = TRUE], TRUE)
    /\ Change

FinishPod(p) ==
    /\ pods[p].phase = "Running" /\ now \in Starts
    /\ \E phase \in {"Completed", "Evicted"} :
            SetPod(p, [pods[p] EXCEPT !.phase = phase], pods[p].loops)
    /\ Change

RemovePod(p) ==
    /\ Present(p)
    /\ \/ pods[p].deleted
       \/ \E i \in DOMAIN Chain[p] :
            Chain[p][i] \notin Stubborn /\ owners[Chain[p][i]].state # "up"
    /\ SetPod(p, NoPod, TRUE)
    /\ UNCHANGED others

(* Owners: a user starts one again or deletes it, its owner scales it up   *)
(* again, its deletion is completed.                                       *)
SetOwner(o, state) ==
    /\ owners' = [owners EXCEPT ![o] = [state |-> state, since |-> now]]
    /\ UNCHANGED <<now, idler, icache, pods, hosted, sent, pending, due, pc, work>>

ReviveOwner(o) == owners[o].state = "down" /\ SetOwner(o, "up") /\ Change

DeleteOwner(o) == owners[o].state \in {"up", "down"} /\ SetOwner(o, "deleting") /\ Change

RestoreOwner(o) ==
    /\ owners[o].state = "down"
    /\ \E p \in Pods : \E i \in 2..Len(Chain[p]) :
            Chain[p][i] = o /\ owners[Chain[p][i - 1]].state = "up"
    /\ SetOwner(o, "up")
    /\ UNCHANGED others

OwnerGone(o) ==
    owners[o].state = "deleting" /\ o \notin Stubborn /\ SetOwner(o, "gone") /\ UNCHANGED others

Environment ==
    \/ Tick \/ RequestDue \/ Restart
    \/ SyncIdler \/ HostRemovesNotification
    \/ \E t \in Timeouts : HostSetsTimeout(t)
    \/ \E p \in Pods : \/ CreatePod(p) \/ StartPod(p) \/ AppearPod(p)
                       \/ RestartPod(p) \/ FinishPod(p) \/ RemovePod(p)
    \/ \E o \in Owners : \/ ReviveOwner(o) \/ DeleteOwner(o)
                         \/ RestoreOwner(o) \/ OwnerGone(o)

Next == Reconcile \/ Environment
Spec == Init /\ [][Next]_vars
-----------------------------------------------------------------------------
(* Every variable has its type in every state Reconcile and its           *)
(* environment reach.                                                      *)
TypeOK ==
    /\ now \in 0..MaxNow
    /\ idler \in IdlerObject /\ icache \in IdlerObject
    /\ pods \in [Pods -> Pod]
    /\ owners \in [Owners -> OwnerState]
    /\ hosted \in BOOLEAN /\ pending \in BOOLEAN /\ sent \in Nat
    /\ due \in Nat \cup {NotScheduled}
    /\ pc \in {"rest", "pods", "owners", "notify", "record", "status"}
    /\ retimed \in 0..MaxNow /\ changes \in 0..MaxChanges /\ faults \in 0..MaxFaults

(* Nothing is to be done at this moment. *)
AtRest == pc = "rest" /\ ~ pending /\ icache = idler /\ ~ (due # NotScheduled /\ now >= due)

Timeout(p) == getTimeout(idler.timeout, p)
Again(p)   == Percent(5, Timeout(p))
(* When somebody else last changed an owner of the pod. *)
Touched(p) == Max({owners[Chain[p][i]].since : i \in DOMAIN Chain[p]} \cup {0})
Later(a, b) == IF a > b THEN a ELSE b
Disturbed(p) == Later(Touched(p), retimed)

(* A pod of an Idler with a timeout that the Idler has not deleted. *)
Ageing(p) == idler.timeout > 0 /\ Started(pods[p]) /\ ~ pods[p].deleted

(* One whose next check is not left to the timeout of the Idler. *)
Tracked(p) == Ageing(p) /\ ~ pods[p].unseen /\ ~ pods[p].loops

(* The owners of the pod that scaleOwnerToZero finds; those it idles; and  *)
(* the two of them that one check idles.                                   *)
InReach(p, i) == \A j \in i..Len(Chain[p]) : owners[Chain[p][j]].state # "gone"
LiveAt(p, i) ==
    InReach(p, i) /\ Known(Chain[p][i]) /\ ~ Deleting(Chain[p][i])
FirstTwo(p, i) ==
    LiveAt(p, i) /\ \A j, k \in 1..(i - 1) : LiveAt(p, j) /\ LiveAt(p, k) => j = k
BothDown(p) ==
    \A i \in DOMAIN Chain[p] : FirstTwo(p, i) => owners[Chain[p][i]].state = "down"

(* Idling has something left to act on: two owners, or one below which     *)
(* nothing is being deleted.                                               *)
Handled(p) ==
    \E i \in DOMAIN Chain[p] :
        /\ LiveAt(p, i)
        /\ \/ \E k \in DOMAIN Chain[p] : k # i /\ LiveAt(p, k)
           \/ \A j \in (i + 1)..Len(Chain[p]) : ~ Deleting(Chain[p][j])

(* The check by which a pod that was left alone since `Disturbed' has been *)
(* treated as one that runs for n% of its timeout.  Checks are 5% of the   *)
(* timeout apart; one more is needed for every failure and for every owner *)
(* that is deleted, which uncovers the next one.                           *)
Cleared(p) ==
    Cardinality({i \in DOMAIN Chain[p] :
        /\ Kind[Chain[p][i]] \in DeletedKinds
        /\ owners[Chain[p][i]].state \in {"deleting", "gone"}})
Deadline(t, p, n) ==
    Later(pods[p].start + Percent(n, getTimeout(t, p)), Disturbed(p))
        + (1 + faults + Cleared(p)) * Percent(5, getTimeout(t, p))

(* Whenever the operator is at rest, a pod older than its timeout was      *)
(* deleted or one of its owners was idled.  Reconcile asks for the         *)
(* shortest of all the times the pods are due (idler_controller.go:186),   *)
(* and must be called in time for each of them whatever happens to the     *)
(* others.  A pod whose start the watch missed is found by the Reconcile   *)
(* that comes at the latest after the timeout of the Idler; one whose      *)
(* owner was scaled up again, after 5% of the pod's timeout.               *)
IdledInTime ==
    AtRest => \A p \in Pods :
        /\ Ageing(p)
        /\ now > Later(pods[p].start + (IF pods[p].unseen THEN idler.timeout ELSE Timeout(p)),
                       Touched(p) + (IF pods[p].loops THEN idler.timeout ELSE Again(p)))
        => \E i \in DOMAIN Chain[p] :
                Known(Chain[p][i]) /\ owners[Chain[p][i]].state # "up"

(* "If the pod has been running for longer than 105% of the idler timeout, *)
(* it will also idle the second known owner" (owners.go:46): so at rest    *)
(* both the first and the second of the owners that are not being deleted  *)
(* are idled, however long the chain is.  An error of fetching the owners  *)
(* is only logged (owners.go:55), and costs a check, as does an owner that *)
(* is idled by deleting it.                                                *)
SecondOwnerIdled ==
    AtRest => \A p \in Pods :
        Tracked(p) /\ now > Deadline(idler.timeout, p, 105) => BothDown(p)

(* If idling the top owner has no effect and the other owners are being    *)
(* deleted, or if there is no owner to idle, the pod itself is deleted     *)
(* after 110% of the timeout (owners.go:109), at the next of the checks 5% *)
(* apart: a pod that is left is in the hands of its owners.                *)
PodDeletedAtLast ==
    AtRest => \A p \in Pods :
        Tracked(p) /\ now > Deadline(idler.timeout, p, 110) => Handled(p)

(* The user is told once: neither a status update that fails after the     *)
(* creation, nor a restart in between, nor the removal of the Notification *)
(* on the host leads to a second one (idler_controller.go:279).            *)
NotifiedOnce == sent <= 1

-----------------------------------------------------------------------------
(* The inductive invariant behind NotifiedOnce.                            *)

Work ==
    [copy: IdlerObject, current: BOOLEAN, list: [Pods -> Pod],
     todo: SUBSET Pods, tried: SUBSET Pods, after: Int, failed: BOOLEAN,
     pod: Pods \cup {"none"}, tree: Seq([owner: Owners, deleting: BOOLEAN]),
     attempted: BOOLEAN, top: BOOLEAN, err: {"none", "missing", "failed"},
     reason: Reasons]

(* What Reconcile works on fits where it is; it asks for no check in the   *)
(* past; and an Idler that is current is the stored one.                   *)
WorkOK ==
    IF pc = "rest" THEN work = NoWork
    ELSE /\ work \in Work
         /\ pc = "pods" \/ work.reason = "Running" => work.after >= 0
         /\ pc \in {"owners", "notify", "record"} => work.pod \in Pods /\ work.after >= 0
         /\ work.current => work.copy = idler

(* Whoever might create a Notification finds it on the host, or knows that *)
(* there has been one: the host removes it only when all copies of the     *)
(* Idler tell so.                                                          *)
NotesOK ==
    /\ sent \in {0, 1}
    /\ hosted => sent = 1
    /\ pc = "record" => hosted
    /\ sent = 1 /\ ~ hosted =>
          /\ idler.note = "Created" /\ icache.note = "Created"
          /\ pc # "rest" => work.copy.note = "Created"

(* All of it, preserved by every single step.                              *)
IndInv == TypeOK /\ WorkOK /\ NotesOK
-----------------------------------------------------------------------------
(* The inductive invariant behind IdledInTime: which check is in time for  *)
(* which pod, and what Reconcile knows of the pods it has not come to yet. *)

IdleOwned(p) == \E i \in DOMAIN Chain[p] :
                    Known(Chain[p][i]) /\ owners[Chain[p][i]].state # "up"
Aged(p) == Started(pods[p]) /\ ~ pods[p].deleted

(* How long after its start a pod is checked first, and how long after     *)
(* that again, if the Idler has the timeout t.                             *)
FirstCheck(t, p) == IF pods[p].unseen THEN t ELSE getTimeout(t, p)
NextCheck(t, p)  == IF pods[p].loops THEN t ELSE Percent(5, getTimeout(t, p))

(* A check at the instant `at' comes before the pod is too old, or is the  *)
(* one after its owners were idled.                                        *)
InTime(t, p, at) ==
    \/ at <= pods[p].start + FirstCheck(t, p) + 1
    \/ /\ at <= now + NextCheck(t, p)
       /\ IdleOwned(p) \/ at <= Touched(p) + NextCheck(t, p) + 1

(* Reconcile has done what it can, unless others undo it right now.        *)
Settled(p) == IdleOwned(p) \/ Touched(p) >= now

(* At rest the next check is in time for every pod.                        *)
RestOK ==
    pc = "rest" /\ ~ pending /\ icache.timeout > 0 =>
        /\ due # NotScheduled /\ due <= now + icache.timeout
        /\ \A p \in Pods : Aged(p) => InTime(icache.timeout, p, due)

(* The list of pods is right about those that are left, or a request is    *)
(* waiting; the check that will be asked for is in time for the others.    *)
LoopOK ==
    pc # "rest" /\ ~ pending =>
        /\ work.copy.timeout = icache.timeout
        /\ work.copy.timeout > 0 =>
             /\ work.after > 0 /\ work.after <= work.copy.timeout
             /\ pc = "status" /\ ~ work.failed => work.reason = "Running" /\ work.todo = {}
             /\ \A p \in work.todo :
                  /\ Present(p) /\ ~ pods[p].unseen
                  /\ work.list[p].start = pods[p].start
                  /\ work.list[p].loops = pods[p].loops
                  /\ Started(work.list[p]) <=> Started(pods[p])
             /\ ~ work.failed =>
                  /\ work.tried = {}
                  /\ \A p \in Pods : Aged(p) =>
                        p \in work.todo \/ InTime(work.copy.timeout, p, now + work.after)

(* Where the owners of one pod are idled, they are its owners.             *)
OwnersOK ==
    /\ pc = "pods" \/ pc \in {"owners", "notify", "record"} => work.copy.timeout > 0
    /\ pc \in {"owners", "notify", "record"} => work.pod \in work.todo
    /\ pc = "owners" => \A i \in DOMAIN work.tree :
            \E j \in DOMAIN Chain[work.pod] : work.tree[i].owner = Chain[work.pod][j]
    /\ pc = "owners" => /\ work.top /\ work.err # "failed" => Settled(work.pod)
                        /\ work.err = "missing" => work.top
    /\ pc \in {"notify", "record"} => Settled(work.pod) \/ pods[work.pod].deleted \/ pending

(* All of it: at every place of ensureIdling (idler_controller.go:143) the *)
(* check that is or will be asked for is in time for each pod that is not  *)
(* on the list any more, or a request is waiting.  Every step preserves it *)
(* if 5% of a timeout is not zero and no owner is left alone because its   *)
(* InferenceService is young.                                              *)
TimeInv == IndInv /\ RestOK /\ LoopOK /\ OwnersOK

(* The inductive invariant behind SecondOwnerIdled and PodDeletedAtLast.   *)

(* A pod that the Idler keeps an eye on.                                   *)
Watched(p) == Aged(p) /\ ~ pods[p].unseen /\ ~ pods[p].loops

(* Nothing more will happen to its owners if others leave them alone.      *)
Stable(p) ==
    /\ Handled(p)
    /\ \A i \in DOMAIN Chain[p] : FirstTwo(p, i) => Kind[Chain[p][i]] \notin DeletedKinds

(* A check at the instant `at' is not too late to idle the second owner or *)
(* to delete the pod, or these are done.                                   *)
NotLate(t, p, at) ==
    /\ at <= Deadline(t, p, 105) + 1 \/ BothDown(p)
    /\ at <= Deadline(t, p, 110) + 1 \/ Stable(p)

(* What is idled by deleting it is never down; a timeout that the informer *)
(* has not seen is new.                                                    *)
DownOK == \A o \in Owners : owners[o].state = "down" => Kind[o] \notin DeletedKinds
RetimedOK == idler.timeout # icache.timeout => retimed >= now

(* No moment, no check at rest and no check that will be asked for is too  *)
(* late.                                                                   *)
NowNotLate ==
    icache.timeout > 0 =>
        \A p \in Pods : Watched(p) => NotLate(icache.timeout, p, now)
RestNotLate ==
    pc = "rest" /\ ~ pending /\ icache.timeout > 0 =>
        \A p \in Pods : Watched(p) => NotLate(icache.timeout, p, due)
LoopNotLate ==
    pc # "rest" /\ ~ pending /\ work.copy.timeout > 0 /\ ~ work.failed =>
        \A p \in Pods : Watched(p) =>
            p \in work.todo \/ NotLate(work.copy.timeout, p, now + work.after)

(* This check is the one that was needed.                                  *)
Treated(p) ==
    NotLate(work.copy.timeout, p, now + Percent(5, getTimeout(work.copy.timeout, p)))

(* scaleOwnerToZero has come past the first m owners of the pod, and of    *)
(* those it has idled the only one that could be.                          *)
WalkedTo(p, m) ==
    /\ Len(work.tree) = Len(Chain[p]) - m
    /\ \A i \in DOMAIN work.tree :
          /\ work.tree[i].owner = Chain[p][m + i] /\ InReach(p, m + i)
          /\ work.tree[i].deleting <=> Deleting(Chain[p][m + i])
    /\ IF work.top
       THEN \E j \in 1..m :
              /\ LiveAt(p, j) /\ owners[Chain[p][j]].state = "down"
              /\ \A k \in 1..m : LiveAt(p, k) => k = j
              /\ work.attempted => \A k \in (j + 1)..m : ~ Deleting(Chain[p][k])
       ELSE \A k \in 1..m : ~ LiveAt(p, k)
Walked(p) == work.err = "none" /\ \E m \in 0..Len(Chain[p]) : WalkedTo(p, m)

PodNotLate ==
    /\ pc = "owners" /\ ~ pending /\ work.err # "failed" /\ Watched(work.pod)
         => Treated(work.pod) \/ Walked(work.pod)
    /\ pc \in {"notify", "record"} /\ ~ pending /\ Watched(work.pod) => Treated(work.pod)

(* All of it, preserved by every step under the same two conditions.       *)
LateInv == /\ TimeInv /\ DownOK /\ RetimedOK
           /\ NowNotLate /\ RestNotLate /\ LoopNotLate /\ PodNotLate
-----------------------------------------------------------------------------
LongTimeouts == \A t \in Timeouts, p \in Pods : t > 0 => Percent(5, getTimeout(t, p)) > 0
NoServingRuntime == \A o \in Owners : Kind[o] # "ServingRuntime"
=============================================================================
