---------------------------- MODULE Idler_proofs ----------------------------
(***************************************************************************)
(* Proofs about IdlerController, for any pods, owners, timeouts and        *)
(* failures: IndInv is an inductive invariant, and the user is told once.  *)
(* If 5% of every timeout is at least a second and no owner is a           *)
(* ServingRuntime, so are TimeInv, and pods are idled in time; and         *)
(* LateInv, and the second owner is idled and the pod deleted in time.     *)
(***************************************************************************)
EXTENDS IdlerController, WellFoundedInduction, SequenceTheorems, FiniteSetTheorems, TLAPS

USE DEF others

-----------------------------------------------------------------------------
(* Owners.                                                                 *)

(* A set of numbers below a bound has a largest one.                       *)
LEMMA MaxBelow ==
  ASSUME NEW n \in Nat, NEW S, S \subseteq 0..n, S # {}
  PROVE  Max(S) \in S /\ \A y \in S : y <= Max(S)
  <1> DEFINE T == {n - x : x \in S}
  <1>1. T \subseteq Nat /\ T # {}
    OBVIOUS
  <1>2. \E x \in T : \A y \in T : ~ (<<y, x>> \in OpToRel(<, Nat))
    BY <1>1, NatLessThanWellFounded, WFMin
  <1>3. PICK x \in T : \A y \in T : ~ (<<y, x>> \in OpToRel(<, Nat))
    BY <1>2
  <1>4. \A y \in T : ~ (y < x)
    BY <1>1, <1>3 DEF OpToRel
  <1>5. PICK m \in S : x = n - m
    BY <1>3
  <1>6. \A y \in S : y <= m
    <2> TAKE y \in S
    <2>1. ~ (n - y < n - m)
      BY <1>4, <1>5
    <2> QED
      BY <2>1
  <1>7. \E k \in S : \A y \in S : k >= y
    BY <1>6
  <1> QED
    BY <1>7 DEF Max

(* The owners that can be found are owners of the pod.                     *)
LEMMA ReachableOwners ==
  ASSUME NEW p \in Pods
  PROVE  Reachable(p) \in Seq(Owners)
  <1> DEFINE lost == {i \in 1..Len(Chain[p]) : owners[Chain[p][i]].state = "gone"}
             m == Max(lost \cup {0})
  <1>1. Chain[p] \in Seq(Owners) /\ Len(Chain[p]) \in Nat
    BY IdlerAssumption
  <1>2. m \in 0..Len(Chain[p])
    <2>1. lost \cup {0} \subseteq 0..Len(Chain[p])
      BY <1>1
    <2> HIDE DEF lost
    <2> QED
      BY <1>1, <2>1, MaxBelow
  <1> HIDE DEF m
  <1>3. SubSeq(Chain[p], 1 + m, Len(Chain[p])) \in Seq(Owners)
    <2>1. \A i \in 1 + m .. Len(Chain[p]) : Chain[p][i] \in Owners
      BY <1>1, <1>2
    <2> QED
      BY <1>1, <1>2, <2>1, SubSeqProperties
  <1> QED
    BY <1>3 DEF Reachable, m

-----------------------------------------------------------------------------
(* Durations.                                                              *)

LEMMA Durations ==
  ASSUME NEW a \in Int, NEW b \in Int
  PROVE  shorterDuration(a, b) \in Int /\ shorterDuration(a, b) >= 0
  BY DEF shorterDuration

LEMMA TimeoutType ==
  ASSUME NEW t \in Int, NEW p
  PROVE  getTimeout(t, p) \in Int /\ Percent(5, getTimeout(t, p)) \in Int
  <1>1. getTimeout(t, p) \in Int
    BY DEF getTimeout
  <1> QED
    BY <1>1 DEF Percent

-----------------------------------------------------------------------------
(* The variables of Reconcile.                                             *)

(* The loop goes on with the next pod.                                     *)
LEMMA Kills ==
  ASSUME work \in Work, work.pod \in Pods, work.after >= 0
  PROVE  /\ Killed \in Work /\ Killed.after >= 0
         /\ Killed.copy = work.copy /\ Killed.current = work.current
  <1> DEFINE p == work.pod
             soon == Percent(5, getTimeout(work.copy.timeout, p))
             after == IF Restarting(p) THEN work.after ELSE shorterDuration(work.after, soon)
  <1>1. work.copy.timeout \in Int /\ work.after \in Int
    BY IdlerAssumption DEF Work, IdlerObject
  <1>2. soon \in Int
    BY <1>1, TimeoutType
  <1>3. after \in Int /\ after >= 0
    <2> HIDE DEF soon
    <2> QED
      BY <1>1, <1>2, Durations
  <1>4. Killed = [work EXCEPT !.todo = work.todo \ {p}, !.after = after]
    BY DEF Killed
  <1> HIDE DEF after
  <1> QED
    BY <1>3, <1>4 DEF Work

LEMMA KillFails ==
  ASSUME work \in Work, work.pod \in Pods
  PROVE  /\ NotKilled \in Work /\ NotKilled.after = work.after
         /\ NotKilled.copy = work.copy /\ NotKilled.current = work.current
  BY DEF NotKilled, Work

(* A condition is stored in the copy and, if it is current, in the Idler.  *)
LEMMA Notes_Noted ==
  ASSUME IndInv, pc \in {"notify", "record"}, NEW note \in Notes, Noted(note)
  PROVE  /\ idler' \in IdlerObject /\ idler'.timeout = idler.timeout
         /\ work' \in Work /\ work'.after >= 0 /\ pc' = "pods"
         /\ work'.copy.note = note
         /\ work'.current => work'.copy = idler'
  <1>1. /\ work \in Work /\ work.pod \in Pods /\ work.after >= 0
        /\ work.current => work.copy = idler
        /\ idler \in IdlerObject
    BY DEF IndInv, WorkOK, TypeOK
  <1>2. /\ Killed \in Work /\ Killed.after >= 0
        /\ Killed.copy = work.copy /\ Killed.current = work.current
    BY <1>1, Kills
  <1>3. /\ idler' = IF work.current THEN [idler EXCEPT !.note = note] ELSE idler
        /\ work' = [Killed EXCEPT !.copy.note = note] /\ pc' = "pods"
    BY DEF Noted
  <1>4. idler' \in IdlerObject /\ idler'.timeout = idler.timeout
    BY <1>1, <1>3 DEF IdlerObject
  <1>5. /\ work' = [Killed EXCEPT !.copy = [work.copy EXCEPT !.note = note]]
    BY <1>2, <1>3 DEF Work
  <1>6. [work.copy EXCEPT !.note = note] \in IdlerObject
    BY <1>1 DEF Work, IdlerObject
  <1>7. /\ work' \in Work /\ work'.after >= 0 /\ work'.current = work.current
        /\ work'.copy = [work.copy EXCEPT !.note = note]
    BY <1>2, <1>5, <1>6 DEF Work
  <1>8. work'.copy.note = note
    BY <1>1, <1>7 DEF Work, IdlerObject
  <1> QED
    BY <1>1, <1>3, <1>4, <1>7, <1>8

-----------------------------------------------------------------------------
(* Every step of Reconcile preserves the invariant.                        *)

(* The steps that only go on with the work on the pods.                    *)
WorkStep ==
    /\ UNCHANGED <<now, idler, icache, owners, hosted, sent, pending, due, retimed, changes>>
    /\ faults' \in 0..MaxFaults /\ pods' \in [Pods -> Pod]
    /\ pc # "rest" /\ pc' \in {"pods", "owners", "notify"}
    /\ work' \in Work
    /\ work'.copy = work.copy /\ work'.current = work.current
    /\ work'.after >= 0
    /\ pc' # "pods" => work'.pod \in Pods

LEMMA WorkStepInv ==
  ASSUME IndInv, WorkStep PROVE IndInv'
  <1>1. TypeOK'
    BY DEF IndInv, WorkStep, TypeOK
  <1>2. WorkOK'
    BY DEF IndInv, WorkStep, WorkOK
  <1>3. NotesOK'
    BY DEF IndInv, WorkStep, NotesOK
  <1> QED
    BY <1>1, <1>2, <1>3 DEF IndInv

LEMMA FaultType ==
  ASSUME TypeOK, Fault
  PROVE  faults' \in 0..MaxFaults /\ UNCHANGED <<retimed, changes>>
  BY IdlerAssumption DEF TypeOK, Fault

LEMMA WorkTypes ==
  ASSUME IndInv, pc \in {"pods", "owners", "notify", "record"}
  PROVE  /\ work \in Work /\ work.after \in Int /\ work.after >= 0
         /\ work.copy \in IdlerObject /\ work.copy.timeout \in Int
         /\ pc # "pods" => work.pod \in Pods
         /\ pods \in [Pods -> Pod] /\ faults \in 0..MaxFaults /\ now \in Nat
  <1>1. work \in Work /\ work.after >= 0 /\ (pc # "pods" => work.pod \in Pods)
    BY DEF IndInv, WorkOK
  <1>2. work.after \in Int /\ work.copy \in IdlerObject
    BY <1>1 DEF Work
  <1>3. work.copy.timeout \in Int
    BY <1>2, IdlerAssumption DEF IdlerObject
  <1>4. pods \in [Pods -> Pod] /\ faults \in 0..MaxFaults /\ now \in Nat
    BY IdlerAssumption DEF IndInv, TypeOK
  <1> QED
    BY <1>1, <1>2, <1>3, <1>4

LEMMA PassPodInv ==
  ASSUME IndInv, NEW p \in Pods, PassPod(p) PROVE IndInv'
  <1>1. pc = "pods"
    BY DEF PassPod
  <1>2. work \in Work /\ work.after \in Int /\ work.copy.timeout \in Int /\ now \in Nat
    BY <1>1, WorkTypes
  <1> DEFINE timeout == getTimeout(work.copy.timeout, p)
             next == IF Started(work.list[p])
                     THEN work.list[p].start + timeout + 1 - now ELSE timeout
             after == shorterDuration(work.after, next)
  <1>3. work.list[p].start \in Int
    BY <1>2 DEF Work, Pod
  <1>4. timeout \in Int
    BY <1>2, TimeoutType
  <1>5. next \in Int
    <2> HIDE DEF timeout
    <2> QED BY <1>2, <1>3, <1>4
  <1>6. after \in Int /\ after >= 0
    <2> HIDE DEF next
    <2> QED BY <1>2, <1>5, Durations
  <1>7. work' = [work EXCEPT !.after = after, !.todo = work.todo \ {p}]
    BY DEF PassPod
  <1> HIDE DEF after
  <1>8. /\ work' \in Work /\ work'.after >= 0
        /\ work'.copy = work.copy /\ work'.current = work.current
    BY <1>2, <1>6, <1>7 DEF Work
  <1>9. WorkStep
    <2>1. pods \in [Pods -> Pod] /\ faults \in 0..MaxFaults
      BY DEF IndInv, TypeOK
    <2> QED
      BY <1>1, <1>8, <2>1 DEF PassPod, WorkStep
  <1> QED
    BY <1>9, WorkStepInv

(* What is fetched is a sequence of owners of the pod.                     *)
LEMMA FetchOwnersInv ==
  ASSUME IndInv, NEW p \in Pods, NEW n \in Nat, FetchOwners(p, n) PROVE IndInv'
  <1> DEFINE found == Reachable(p)
             kept == SubSeq(found, n + 1, Len(found))
             tree == [i \in 1..Len(kept) |->
                         [owner |-> kept[i], deleting |-> Deleting(kept[i])]]
  <1>1. pc = "pods"
    BY DEF FetchOwners
  <1>2. work \in Work /\ work.after >= 0
    BY <1>1, WorkTypes
  <1>3. found \in Seq(Owners) /\ n <= Len(found)
    BY ReachableOwners DEF FetchOwners
  <1>4. kept \in Seq(Owners)
    <2> HIDE DEF found
    <2>1. \A i \in n + 1 .. Len(found) : found[i] \in Owners
      BY <1>3
    <2>2. Len(found) \in Nat
      BY <1>3
    <2> QED
      BY <1>3, <2>1, <2>2, SubSeqProperties
  <1>5. work' = [work EXCEPT !.pod = p, !.tree = tree, !.attempted = FALSE,
                             !.top = FALSE, !.err = "none"]
    BY DEF FetchOwners
  <1>6. tree \in Seq([owner: Owners, deleting: BOOLEAN])
    <2> HIDE DEF kept
    <2>1. Len(kept) \in Nat
      BY <1>4
    <2>2. \A i \in 1..Len(kept) :
            [owner |-> kept[i], deleting |-> Deleting(kept[i])]
                \in [owner: Owners, deleting: BOOLEAN]
      BY <1>4 DEF Deleting
    <2> QED
      BY <2>1, <2>2, IsASeq
  <1> HIDE DEF tree
  <1>7. /\ work' \in Work /\ work'.after >= 0 /\ work'.pod = p
        /\ work'.copy = work.copy /\ work'.current = work.current
    BY <1>2, <1>5, <1>6 DEF Work
  <1>8. pods \in [Pods -> Pod] /\ faults \in 0..MaxFaults
    BY DEF IndInv, TypeOK
  <1>9. faults' \in 0..MaxFaults /\ UNCHANGED <<retimed, changes>>
    <2>1. CASE n = 0
      BY <1>8, <2>1 DEF FetchOwners
    <2>2. CASE n # 0
      BY <2>2, FaultType DEF FetchOwners, IndInv
    <2> QED
      BY <2>1, <2>2
  <1>10. WorkStep
    BY <1>1, <1>7, <1>8, <1>9 DEF FetchOwners, WorkStep
  <1> QED
    BY <1>10, WorkStepInv

LEMMA SkipOwnerInv ==
  ASSUME IndInv, SkipOwner PROVE IndInv'
  <1>1. pc = "owners" /\ work.tree # <<>>
    BY DEF SkipOwner
  <1>2. work \in Work /\ work.after >= 0 /\ work.pod \in Pods
    BY <1>1, WorkTypes
  <1>3. work' = [work EXCEPT !.tree = Tail(work.tree),
                     !.attempted = work.attempted /\ ~ Head(work.tree).deleting]
    BY DEF SkipOwner
  <1>4. Tail(work.tree) \in Seq([owner: Owners, deleting: BOOLEAN])
    BY <1>1, <1>2 DEF Work
  <1>5. (work.attempted /\ ~ Head(work.tree).deleting) \in BOOLEAN
    OBVIOUS
  <1>6. /\ work' \in Work /\ work'.after >= 0 /\ work'.pod \in Pods
        /\ work'.copy = work.copy /\ work'.current = work.current
    BY <1>2, <1>3, <1>4, <1>5 DEF Work
  <1>7. pods \in [Pods -> Pod] /\ faults \in 0..MaxFaults
    BY DEF IndInv, TypeOK
  <1>8. WorkStep
    BY <1>1, <1>6, <1>7 DEF SkipOwner, WorkStep
  <1> QED
    BY <1>8, WorkStepInv

LEMMA AfterOwnerType ==
  ASSUME work \in Work, work.tree # <<>>,
         NEW err \in {"none", "missing", "failed"}, AfterOwner(err)
  PROVE  /\ work' \in Work /\ work'.after = work.after /\ work'.pod = work.pod
         /\ work'.copy = work.copy /\ work'.current = work.current
  <1> DEFINE started == work.list[work.pod].start
             timeout == getTimeout(work.copy.timeout, work.pod)
             enough == work.top \/ (err = "none" /\ ~ (now > started + Percent(105, timeout)))
             tree == IF enough THEN <<>> ELSE Tail(work.tree)
             error == Join(work.err, err)
  <1>1. work' = [work EXCEPT !.tree = tree, !.attempted = TRUE, !.top = TRUE, !.err = error]
    BY DEF AfterOwner
  <1>2. tree \in Seq([owner: Owners, deleting: BOOLEAN])
    <2>1. Tail(work.tree) \in Seq([owner: Owners, deleting: BOOLEAN])
      BY DEF Work
    <2>2. <<>> \in Seq([owner: Owners, deleting: BOOLEAN])
      OBVIOUS
    <2> HIDE DEF enough
    <2> QED
      BY <2>1, <2>2
  <1>3. error \in {"none", "missing", "failed"}
    BY DEF Join, Work
  <1> HIDE DEF tree, error
  <1> QED
    BY <1>1, <1>2, <1>3 DEF Work

LEMMA IdledType ==
  ASSUME TypeOK, NEW o \in Owners PROVE Idled(o) \in OwnerState
  <1>1. owners[o] \in OwnerState
    BY DEF TypeOK
  <1>2. /\ [owners[o] EXCEPT !.state = "deleting"] \in OwnerState
        /\ [owners[o] EXCEPT !.state = "down"] \in OwnerState
    BY <1>1 DEF OwnerState
  <1> QED
    BY <1>1, <1>2 DEF Idled

(* As WorkStep, with an owner idled.                                       *)
LEMMA IdleOwnerInv ==
  ASSUME IndInv, IdleOwner PROVE IndInv'
  <1>1. pc = "owners" /\ work.tree # <<>>
    BY DEF IdleOwner
  <1>2. work \in Work /\ work.after >= 0 /\ work.pod \in Pods
    BY <1>1, WorkTypes
  <1> DEFINE o == Head(work.tree).owner
  <1>3. o \in Owners
    <2>1. work.tree \in Seq([owner: Owners, deleting: BOOLEAN])
      BY <1>2 DEF Work
    <2>2. Head(work.tree) \in [owner: Owners, deleting: BOOLEAN]
      BY <1>1, <2>1, HeadTailProperties
    <2> QED
      BY <2>2
  <1>4. /\ UNCHANGED <<now, idler, icache, pods, hosted, sent, pending, due, pc>>
    BY DEF IdleOwner
  <1>5. \/ AfterOwner("missing") /\ UNCHANGED <<owners, others>>
        \/ /\ owners' = [owners EXCEPT ![o] = Idled(o)]
           /\ AfterOwner("none") /\ UNCHANGED others
        \/ AfterOwner("failed") /\ Fault /\ UNCHANGED owners
    BY DEF IdleOwner
  <1> HIDE DEF o
  <1>6. /\ work' \in Work /\ work'.after = work.after /\ work'.pod = work.pod
        /\ work'.copy = work.copy /\ work'.current = work.current
    BY <1>1, <1>2, <1>5, AfterOwnerType
  <1>7. TypeOK /\ owners \in [Owners -> OwnerState]
    BY DEF IndInv, TypeOK
  <1>8. owners' \in [Owners -> OwnerState]
    <2>1. Idled(o) \in OwnerState
      BY <1>3, <1>7, IdledType
    <2>2. [owners EXCEPT ![o] = Idled(o)] \in [Owners -> OwnerState]
      BY <1>3, <1>7, <2>1
    <2> QED
      BY <1>5, <1>7, <2>2
  <1>9. faults' \in 0..MaxFaults /\ UNCHANGED <<retimed, changes>>
    <2>1. CASE Fault
      BY <1>7, <2>1, FaultType
    <2>2. CASE UNCHANGED others
      BY <1>7, <2>2 DEF TypeOK
    <2> QED
      BY <1>5, <2>1, <2>2
  <1>10. TypeOK'
    BY <1>4, <1>7, <1>8, <1>9 DEF TypeOK
  <1>11. WorkOK'
    BY <1>1, <1>2, <1>4, <1>6 DEF IndInv, WorkOK
  <1>12. NotesOK'
    BY <1>1, <1>4, <1>6 DEF IndInv, NotesOK
  <1> QED
    BY <1>10, <1>11, <1>12 DEF IndInv

LEMMA OwnersFailedInv ==
  ASSUME IndInv, OwnersFailed PROVE IndInv'
  <1>1. pc = "owners"
    BY DEF OwnersFailed, OwnersDone
  <1>2. /\ work \in Work /\ work.after >= 0 /\ work.pod \in Pods
        /\ pods \in [Pods -> Pod] /\ faults \in 0..MaxFaults
    BY <1>1, WorkTypes
  <1>3. work' = Killed \/ work' = NotKilled
    BY DEF OwnersFailed
  <1>4. /\ work' \in Work /\ work'.after >= 0
        /\ work'.copy = work.copy /\ work'.current = work.current
    BY <1>2, <1>3, Kills, KillFails
  <1>5. WorkStep
    BY <1>1, <1>2, <1>4 DEF OwnersFailed, WorkStep
  <1> QED
    BY <1>5, WorkStepInv

LEMMA DeletePodInv ==
  ASSUME IndInv, DeletePod PROVE IndInv'
  <1>1. pc = "owners"
    BY DEF DeletePod, OwnersDone
  <1>2. /\ work \in Work /\ work.after >= 0 /\ work.pod \in Pods
        /\ pods \in [Pods -> Pod] /\ faults \in 0..MaxFaults
    BY <1>1, WorkTypes
  <1> DEFINE p == work.pod
  <1>3. /\ UNCHANGED <<now, idler, icache, owners, hosted, sent, pending, due>>
        /\ \/ pc' = "notify" /\ work' = work
           \/ pc' = "pods" /\ (work' = Killed \/ work' = NotKilled)
        /\ pods' = [pods EXCEPT ![p].deleted = TRUE] \/ pods' = pods
        /\ UNCHANGED others \/ Fault
    BY DEF DeletePod
  <1>4. /\ work' \in Work /\ work'.after >= 0
        /\ work'.copy = work.copy /\ work'.current = work.current
        /\ pc' # "pods" => work'.pod \in Pods
    BY <1>2, <1>3, Kills, KillFails
  <1>5. pods' \in [Pods -> Pod]
    <2>1. [pods[p] EXCEPT !.deleted = TRUE] \in Pod
      BY <1>2 DEF Pod
    <2>2. [pods EXCEPT ![p] = [pods[p] EXCEPT !.deleted = TRUE]] \in [Pods -> Pod]
      BY <1>2, <2>1
    <2> QED
      BY <1>2, <1>3, <2>2
  <1>6. faults' \in 0..MaxFaults /\ UNCHANGED <<retimed, changes>>
    BY <1>2, <1>3, FaultType DEF IndInv
  <1>7. WorkStep
    BY <1>1, <1>3, <1>4, <1>5, <1>6 DEF WorkStep
  <1> QED
    BY <1>7, WorkStepInv

LEMMA ListFailsInv ==
  ASSUME IndInv, ListFails PROVE IndInv'
  <1>1. pc = "pods"
    BY DEF ListFails
  <1>2. /\ work \in Work /\ work.after >= 0 /\ pods \in [Pods -> Pod]
    BY <1>1, WorkTypes
  <1>3. work' = [work EXCEPT !.todo = {}, !.failed = TRUE]
    BY DEF ListFails
  <1>4. /\ work' \in Work /\ work'.after >= 0
        /\ work'.copy = work.copy /\ work'.current = work.current
    BY <1>2, <1>3 DEF Work
  <1>5. faults' \in 0..MaxFaults /\ UNCHANGED <<retimed, changes>>
    BY FaultType DEF IndInv, ListFails
  <1>6. WorkStep
    BY <1>1, <1>2, <1>4, <1>5 DEF ListFails, WorkStep
  <1> QED
    BY <1>6, WorkStepInv

LEMMA EndPodsInv ==
  ASSUME IndInv, EndPods PROVE IndInv'
  <1>1. pc = "pods" /\ pc' = "status"
        /\ UNCHANGED <<now, idler, icache, pods, owners, hosted, sent, pending, due, others>>
    BY DEF EndPods
  <1>2. /\ work \in Work /\ work.after >= 0
    BY <1>1, WorkTypes
  <1> DEFINE reason == IF work.failed THEN "UnableToEnsureIdling" ELSE "Running"
  <1>3. work' = [work EXCEPT !.reason = reason] /\ reason \in Reasons
    BY DEF EndPods, Reasons
  <1> HIDE DEF reason
  <1>4. /\ work' \in Work /\ work'.after = work.after
        /\ work'.copy = work.copy /\ work'.current = work.current
    BY <1>2, <1>3 DEF Work
  <1>5. TypeOK'
    BY <1>1 DEF IndInv, TypeOK
  <1>6. WorkOK'
    BY <1>1, <1>2, <1>4 DEF IndInv, WorkOK
  <1>7. NotesOK'
    BY <1>1, <1>4 DEF IndInv, NotesOK
  <1> QED
    BY <1>5, <1>6, <1>7 DEF IndInv

(* A Notification is created only by a Reconcile that does not know of     *)
(* one and finds none on the host: then there has been none.               *)
LEMMA CreateNotificationInv ==
  ASSUME IndInv, NEW n \in EmailCounts, CreateNotification(n) PROVE IndInv'
  <1>1. pc = "notify" /\ UNCHANGED <<now, icache, pods, owners, pending, due>>
    BY DEF CreateNotification
  <1>2. /\ work \in Work /\ work.after >= 0 /\ work.pod \in Pods
        /\ pods \in [Pods -> Pod] /\ faults \in 0..MaxFaults
    BY <1>1, WorkTypes
  <1>3. n \in Nat
    BY IdlerAssumption
  <1>4. sent \in {0, 1} /\ hosted \in BOOLEAN /\ (hosted => sent = 1)
    BY DEF IndInv, NotesOK, TypeOK
  <1>5. work.copy.note # "Created" /\ ~ hosted => sent = 0
    BY <1>1, <1>4 DEF IndInv, NotesOK
  <1>6. CASE /\ work.copy.note = "Created" /\ work' = Killed /\ pc' = "pods"
             /\ UNCHANGED <<idler, hosted, sent, others>>
    <2>1. /\ work' \in Work /\ work'.after >= 0
          /\ work'.copy = work.copy /\ work'.current = work.current
      BY <1>2, <1>6, Kills
    <2>2. WorkStep
      BY <1>1, <1>2, <1>6, <2>1 DEF WorkStep
    <2> QED
      BY <2>2, WorkStepInv
  <1>7. CASE /\ work.copy.note # "Created" /\ (hosted \/ n = 1)
             /\ hosted' = TRUE /\ sent' = IF hosted THEN sent ELSE sent + 1
             /\ pc' = "record" /\ UNCHANGED <<idler, work, others>>
    <2>1. sent' = 1
      BY <1>4, <1>5, <1>7
    <2>2. TypeOK'
      BY <1>1, <1>7, <2>1 DEF IndInv, TypeOK
    <2>3. WorkOK'
      BY <1>1, <1>7 DEF IndInv, WorkOK
    <2>4. NotesOK'
      BY <1>7, <2>1 DEF NotesOK
    <2> QED
      BY <2>2, <2>3, <2>4 DEF IndInv
  <1>8. ASSUME /\ work.copy.note # "Created" /\ Noted("CreationFailed")
               /\ sent' \in {0, 1} /\ hosted' \in BOOLEAN
               /\ hosted' <=> sent' = 1
               /\ faults' \in 0..MaxFaults /\ UNCHANGED <<retimed, changes>>
        PROVE  IndInv'
    <2>1. /\ idler' \in IdlerObject
          /\ work' \in Work /\ work'.after >= 0 /\ pc' = "pods"
          /\ work'.current => work'.copy = idler'
      BY <1>1, <1>8, Notes_Noted DEF Notes
    <2>2. TypeOK'
      BY <1>1, <1>8, <2>1 DEF IndInv, TypeOK
    <2>3. WorkOK'
      BY <2>1 DEF WorkOK
    <2>4. NotesOK'
      BY <1>8, <2>1 DEF NotesOK
    <2> QED
      BY <2>2, <2>3, <2>4 DEF IndInv
  <1>9. CASE /\ work.copy.note # "Created" /\ ~ hosted /\ n # 1
             /\ hosted' = (n > 0) /\ sent' = IF n > 0 THEN sent + 1 ELSE sent
             /\ Noted("CreationFailed") /\ UNCHANGED others
    <2>1. sent = 0
      BY <1>5, <1>9
    <2>2. /\ sent' \in {0, 1} /\ hosted' \in BOOLEAN
          /\ hosted' <=> sent' = 1
      <3>1. CASE n > 0
        <4>1. hosted'
          BY <1>9, <3>1
        <4>2. sent' = 1
          BY <1>9, <2>1, <3>1
        <4>3. hosted' \in BOOLEAN
          BY <1>9
        <4> QED
          BY <4>1, <4>2, <4>3
      <3>2. CASE ~ (n > 0)
        <4>1. ~ hosted'
          BY <1>9, <3>2
        <4>2. sent' = 0
          BY <1>9, <2>1, <3>2
        <4>3. hosted' \in BOOLEAN
          BY <1>9
        <4> QED
          BY <4>1, <4>2, <4>3
      <3> QED
        BY <3>1, <3>2
    <2> QED
      BY <1>2, <1>8, <1>9, <2>2
  <1>10. CASE /\ work.copy.note # "Created" /\ Noted("CreationFailed") /\ Fault
              /\ UNCHANGED <<hosted, sent>>
    <2>1. hosted <=> sent = 1
      BY <1>4, <1>5, <1>10
    <2>2. faults' \in 0..MaxFaults /\ UNCHANGED <<retimed, changes>>
      BY <1>10, FaultType DEF IndInv
    <2> QED
      BY <1>4, <1>8, <1>10, <2>1, <2>2
  <1> QED
    BY <1>6, <1>7, <1>9, <1>10 DEF CreateNotification

(* Whether recording the Notification succeeds or not, it is on the host.  *)
LEMMA RecordNotificationInv ==
  ASSUME IndInv, RecordNotification PROVE IndInv'
  <1>1. /\ pc = "record"
        /\ UNCHANGED <<now, icache, pods, owners, hosted, sent, pending, due>>
    BY DEF RecordNotification
  <1>2. PICK note \in Notes : Noted(note)
    BY DEF RecordNotification, Notes
  <1>3. /\ idler' \in IdlerObject
        /\ work' \in Work /\ work'.after >= 0 /\ pc' = "pods"
        /\ work'.current => work'.copy = idler'
    BY <1>1, <1>2, Notes_Noted
  <1>4. faults' \in 0..MaxFaults /\ UNCHANGED <<retimed, changes>>
    <2>1. UNCHANGED others \/ Fault
      BY DEF RecordNotification
    <2>2. TypeOK /\ faults \in 0..MaxFaults
      BY DEF IndInv, TypeOK
    <2> QED
      BY <2>1, <2>2, FaultType
  <1>5. TypeOK'
    BY <1>1, <1>3, <1>4 DEF IndInv, TypeOK
  <1>6. WorkOK'
    BY <1>3 DEF WorkOK
  <1>7. NotesOK'
    BY <1>1, <1>3 DEF IndInv, NotesOK
  <1> QED
    BY <1>5, <1>6, <1>7 DEF IndInv

LEMMA StartReconcileInv ==
  ASSUME IndInv, StartReconcile PROVE IndInv'
  <1>1. /\ pc = "rest" /\ pc' \in {"pods", "status"} /\ pending' = FALSE
        /\ UNCHANGED <<now, idler, icache, owners, hosted, sent, due, changes, faults>>
        /\ retimed' \in {now, retimed}
    BY DEF StartReconcile
  <1>2. /\ icache \in IdlerObject /\ idler \in IdlerObject /\ pods \in [Pods -> Pod]
        /\ icache.timeout \in Int
    <2>1. icache \in IdlerObject /\ idler \in IdlerObject /\ pods \in [Pods -> Pod]
      BY DEF IndInv, TypeOK
    <2> QED
      BY <2>1, IdlerAssumption DEF IdlerObject
  <1> DEFINE current == icache = idler
             todo == IF icache.timeout > 0 THEN {p \in Pods : Present(p)} ELSE {}
             reason == IF icache.timeout = 0 THEN "NoDeactivation"
                       ELSE IF icache.timeout < 0 THEN "UnableToEnsureIdling"
                       ELSE "Running"
  <1>3. work' = [copy |-> icache, current |-> current, list |-> pods, todo |-> todo,
                 tried |-> {}, after |-> icache.timeout, failed |-> FALSE,
                 pod |-> "none", tree |-> <<>>, attempted |-> FALSE,
                 top |-> FALSE, err |-> "none", reason |-> reason]
    BY DEF StartReconcile
  <1>4. /\ todo \in SUBSET Pods /\ current \in BOOLEAN /\ reason \in Reasons
        /\ reason = "Running" => icache.timeout >= 0
        /\ pc' = "pods" => icache.timeout >= 0
    BY <1>2 DEF StartReconcile, Reasons
  <1>5. <<>> \in Seq([owner: Owners, deleting: BOOLEAN])
    OBVIOUS
  <1>6. current => icache = idler
    OBVIOUS
  <1> HIDE DEF todo, current, reason
  <1>7. work' \in Work
    BY <1>2, <1>3, <1>4, <1>5 DEF Work
  <1>8. pods' \in [Pods -> Pod]
    <2>1. pods' = [p \in Pods |-> [pods[p] EXCEPT !.unseen = pods[p].unseen /\ icache.timeout <= 0]]
      BY DEF StartReconcile
    <2>2. ASSUME NEW p \in Pods
          PROVE [pods[p] EXCEPT !.unseen = pods[p].unseen /\ icache.timeout <= 0] \in Pod
      <3> DEFINE u == pods[p].unseen /\ icache.timeout <= 0
      <3>1. u \in BOOLEAN
        OBVIOUS
      <3>2. pods[p] \in Pod
        BY <1>2
      <3> HIDE DEF u
      <3>3. [pods[p] EXCEPT !.unseen = u] \in Pod
        BY <3>1, <3>2 DEF Pod
      <3> QED
        BY <3>3 DEF u
    <2> QED
      BY <2>1, <2>2
  <1>9. TypeOK'
    BY <1>1, <1>8 DEF IndInv, TypeOK
  <1>10. WorkOK'
    <2>1. /\ work'.copy = icache /\ work'.current = current
          /\ work'.after = icache.timeout /\ work'.reason = reason
      BY <1>3
    <2> QED
      BY <1>1, <1>4, <1>6, <1>7, <2>1 DEF WorkOK
  <1>11. NotesOK'
    <2>1. work'.copy = icache
      BY <1>3
    <2> QED
      BY <1>1, <2>1 DEF IndInv, NotesOK
  <1> QED
    BY <1>9, <1>10, <1>11 DEF IndInv

LEMMA SetStatusInv ==
  ASSUME IndInv, SetStatus PROVE IndInv'
  <1>1. /\ pc = "status" /\ pc' = "rest" /\ work' = NoWork
        /\ UNCHANGED <<now, icache, pods, owners, hosted, sent>>
    BY DEF SetStatus
  <1>2. /\ work \in Work /\ (work.reason = "Running" => work.after >= 0)
        /\ now \in Nat /\ due \in Nat \cup {NotScheduled}
        /\ idler \in IdlerObject /\ pending \in BOOLEAN
    BY <1>1, IdlerAssumption DEF IndInv, WorkOK, TypeOK
  <1>3. work.after \in Int /\ work.reason \in Reasons
    BY <1>2 DEF Work
  <1>4. idler' = idler \/ idler' = [idler EXCEPT !.ready = work.reason]
    BY DEF SetStatus
  <1>5. idler' \in IdlerObject /\ idler'.note = idler.note
    BY <1>2, <1>3, <1>4 DEF IdlerObject
  <1>6. due' \in Nat \cup {NotScheduled}
    <2>1. due' = due \/ (work.reason = "Running" /\ AddAfter(work.after))
      BY DEF SetStatus
    <2>2. CASE work.reason = "Running" /\ AddAfter(work.after)
      <3>1. due' = due \/ due' = now + work.after
        BY <2>2 DEF AddAfter
      <3> QED
        BY <1>2, <1>3, <2>2, <3>1
    <2> QED
      BY <1>2, <2>1, <2>2
  <1>7. pending' \in BOOLEAN
    BY <1>2 DEF SetStatus
  <1>8. faults' \in 0..MaxFaults /\ UNCHANGED <<retimed, changes>>
    <2>1. UNCHANGED others \/ Fault
      BY DEF SetStatus
    <2>2. TypeOK /\ faults \in 0..MaxFaults
      BY DEF IndInv, TypeOK
    <2> QED
      BY <2>1, <2>2, FaultType
  <1>9. TypeOK'
    BY <1>1, <1>5, <1>6, <1>7, <1>8 DEF IndInv, TypeOK
  <1>10. WorkOK'
    BY <1>1 DEF WorkOK
  <1>11. NotesOK'
    BY <1>1, <1>5 DEF IndInv, NotesOK
  <1> QED
    BY <1>9, <1>10, <1>11 DEF IndInv

LEMMA ReconcileInv ==
  ASSUME IndInv, Reconcile PROVE IndInv'
  <1>1. ASSUME NEW p \in Pods, NEW n \in 0..Len(Chain[p]), FetchOwners(p, n) PROVE IndInv'
    <2>1. n \in Nat
      BY IdlerAssumption
    <2> QED
      BY <1>1, <2>1, FetchOwnersInv
  <1> QED
    BY <1>1, StartReconcileInv, EndPodsInv, SetStatusInv, ListFailsInv, PassPodInv,
       SkipOwnerInv, IdleOwnerInv, OwnersFailedInv, DeletePodInv,
       CreateNotificationInv, RecordNotificationInv DEF Reconcile

-----------------------------------------------------------------------------
(* So does every step of the environment.                                  *)

LEMMA RestartInv ==
  ASSUME IndInv, Restart PROVE IndInv'
  <1>1. /\ pc' = "rest" /\ work' = NoWork /\ icache' = idler
        /\ pending' = TRUE /\ due' = NotScheduled
        /\ UNCHANGED <<now, idler, pods, owners, hosted, sent>>
    BY DEF Restart
  <1>2. faults' \in 0..MaxFaults /\ UNCHANGED <<retimed, changes>>
    BY FaultType DEF IndInv, Restart
  <1>3. TypeOK'
    BY <1>1, <1>2 DEF IndInv, TypeOK
  <1>4. WorkOK' /\ NotesOK'
    BY <1>1 DEF IndInv, WorkOK, NotesOK
  <1> QED
    BY <1>3, <1>4 DEF IndInv

LEMMA ClockInv ==
  ASSUME IndInv, Tick \/ RequestDue PROVE IndInv'
  <1>1. TypeOK'
    <2>1. CASE Tick
      <3>1. now' \in 0..MaxNow
        BY <2>1, IdlerAssumption DEF IndInv, TypeOK, Tick
      <3> QED
        BY <2>1, <3>1 DEF IndInv, TypeOK, Tick
    <2>2. CASE RequestDue
      BY <2>2 DEF IndInv, TypeOK, RequestDue
    <2> QED
      BY <2>1, <2>2
  <1>2. WorkOK' /\ NotesOK'
    BY DEF IndInv, WorkOK, NotesOK, Tick, RequestDue
  <1> QED
    BY <1>1, <1>2 DEF IndInv

LEMMA ChangeType ==
  ASSUME TypeOK, Change
  PROVE  changes' \in 0..MaxChanges /\ UNCHANGED <<retimed, faults>>
  BY IdlerAssumption DEF TypeOK, Change

LEMMA HostSetsTimeoutInv ==
  ASSUME IndInv, NEW t \in Timeouts, HostSetsTimeout(t) PROVE IndInv'
  <1>1. /\ UNCHANGED <<now, icache, pods, owners, hosted, sent, pending, due, pc, faults>>
        /\ idler' = [idler EXCEPT !.timeout = t] /\ retimed' = now
        /\ changes < MaxChanges /\ changes' = changes + 1
        /\ work' = IF pc = "rest" THEN work ELSE [work EXCEPT !.current = FALSE]
    BY DEF HostSetsTimeout
  <1>2. idler' \in IdlerObject /\ idler'.note = idler.note
    <2>1. idler \in IdlerObject
      BY DEF IndInv, TypeOK
    <2> QED
      BY <1>1, <2>1 DEF IdlerObject
  <1>3. changes' \in 0..MaxChanges
    BY <1>1, IdlerAssumption DEF IndInv, TypeOK
  <1>4. TypeOK'
    BY <1>1, <1>2, <1>3 DEF IndInv, TypeOK
  <1>5. pc # "rest" => /\ work \in Work /\ work' \in Work /\ work'.current = FALSE
                       /\ work'.copy = work.copy /\ work'.after = work.after
                       /\ work'.pod = work.pod /\ work'.reason = work.reason
    <2>1. pc # "rest" => work \in Work
      BY DEF IndInv, WorkOK
    <2> QED
      BY <1>1, <2>1 DEF Work
  <1>6. WorkOK'
    BY <1>1, <1>5 DEF IndInv, WorkOK
  <1>7. NotesOK'
    BY <1>1, <1>2, <1>5 DEF IndInv, NotesOK
  <1> QED
    BY <1>4, <1>6, <1>7 DEF IndInv

LEMMA SyncIdlerInv ==
  ASSUME IndInv, SyncIdler PROVE IndInv'
  <1>1. /\ icache' = idler
        /\ UNCHANGED <<now, idler, pods, owners, hosted, sent, due, pc, work, others>>
    BY DEF SyncIdler
  <1>2. pending' \in BOOLEAN
    <2>1. pending' = (pending \/ icache.timeout # idler.timeout)
      BY DEF SyncIdler
    <2>2. CASE pending \/ icache.timeout # idler.timeout
      BY <2>1, <2>2
    <2>3. CASE ~ (pending \/ icache.timeout # idler.timeout)
      BY <2>1, <2>3
    <2> QED
      BY <2>2, <2>3
  <1>3. TypeOK'
    BY <1>1, <1>2 DEF IndInv, TypeOK
  <1>4. WorkOK' /\ NotesOK'
    BY <1>1 DEF IndInv, WorkOK, NotesOK
  <1> QED
    BY <1>3, <1>4 DEF IndInv

(* The host removes a Notification only after everybody knows of it.       *)
LEMMA HostRemovesNotificationInv ==
  ASSUME IndInv, HostRemovesNotification PROVE IndInv'
  <1>1. /\ hosted /\ idler.note = "Created" /\ icache = idler /\ pc = "rest"
        /\ hosted' = FALSE
        /\ UNCHANGED <<now, idler, icache, pods, owners, sent, pending, due, pc, work>>
    BY DEF HostRemovesNotification
  <1>2. changes' \in 0..MaxChanges /\ UNCHANGED <<retimed, faults>>
    BY ChangeType DEF IndInv, HostRemovesNotification
  <1>3. TypeOK'
    BY <1>1, <1>2 DEF IndInv, TypeOK
  <1>4. WorkOK' /\ NotesOK'
    BY <1>1 DEF IndInv, WorkOK, NotesOK
  <1> QED
    BY <1>3, <1>4 DEF IndInv

(* Pods and owners come and go while Reconcile works on its list.          *)
LEMMA CountersType ==
  ASSUME TypeOK, UNCHANGED others \/ Fault \/ Change
  PROVE  /\ faults' \in 0..MaxFaults /\ changes' \in 0..MaxChanges
         /\ retimed' \in 0..MaxNow
  <1>1. CASE UNCHANGED others
    BY <1>1 DEF TypeOK
  <1>2. CASE Fault
    BY <1>2, FaultType DEF TypeOK
  <1>3. CASE Change
    BY <1>3, ChangeType DEF TypeOK
  <1> QED
    BY <1>1, <1>2, <1>3

LEMMA SetPodInv ==
  ASSUME IndInv, NEW p \in Pods, NEW pod \in Pod, NEW enqueue \in BOOLEAN,
         SetPod(p, pod, enqueue), UNCHANGED others \/ Fault \/ Change
  PROVE  IndInv'
  <1>1. /\ pods' = [pods EXCEPT ![p] = pod] /\ pending' = (pending \/ enqueue)
        /\ UNCHANGED <<now, idler, icache, owners, hosted, sent, due, pc, work>>
    BY DEF SetPod
  <1>2. pending' \in BOOLEAN
    <2>1. CASE pending \/ enqueue
      BY <1>1, <2>1
    <2>2. CASE ~ (pending \/ enqueue)
      BY <1>1, <2>2
    <2> QED
      BY <2>1, <2>2
  <1>3. pods' \in [Pods -> Pod]
    BY <1>1 DEF IndInv, TypeOK
  <1>4. /\ faults' \in 0..MaxFaults /\ changes' \in 0..MaxChanges
        /\ retimed' \in 0..MaxNow
    BY CountersType DEF IndInv
  <1>5. TypeOK'
    BY <1>1, <1>2, <1>3, <1>4 DEF IndInv, TypeOK
  <1>6. WorkOK' /\ NotesOK'
    BY <1>1 DEF IndInv, WorkOK, NotesOK
  <1> QED
    BY <1>5, <1>6 DEF IndInv

LEMMA PodsInv ==
  ASSUME IndInv, NEW p \in Pods,
         \/ CreatePod(p) \/ StartPod(p) \/ AppearPod(p)
         \/ RestartPod(p) \/ FinishPod(p) \/ RemovePod(p)
  PROVE  IndInv'
  <1>1. pods[p] \in Pod /\ now \in 0..MaxNow
    BY DEF IndInv, TypeOK
  <1>2. pods[p].loops \in BOOLEAN
    BY <1>1 DEF Pod
  <1>3. NoPod \in Pod
    BY IdlerAssumption DEF NoPod, Pod, Phases
  <1>4. /\ [NoPod EXCEPT !.phase = "Pending"] \in Pod
        /\ [pods[p] EXCEPT !.phase = "Running", !.start = now] \in Pod
        /\ [NoPod EXCEPT !.phase = "Running", !.start = now, !.unseen = TRUE] \in Pod
        /\ [pods[p] EXCEPT !.loops = TRUE] \in Pod
        /\ \A phase \in {"Completed", "Evicted"} : [pods[p] EXCEPT !.phase = phase] \in Pod
    BY <1>1, <1>3 DEF Pod, Phases
  <1>5. \E pod \in Pod, enqueue \in BOOLEAN : SetPod(p, pod, enqueue)
    <2>1. CASE CreatePod(p)
      BY <1>4, <2>1 DEF CreatePod
    <2>2. CASE StartPod(p)
      BY <1>4, <2>2 DEF StartPod
    <2>3. CASE AppearPod(p)
      BY <1>4, <2>3 DEF AppearPod
    <2>4. CASE RestartPod(p)
      BY <1>4, <2>4 DEF RestartPod
    <2>5. CASE FinishPod(p)
      <3>1. PICK phase \in {"Completed", "Evicted"} :
                SetPod(p, [pods[p] EXCEPT !.phase = phase], pods[p].loops)
        BY <2>5 DEF FinishPod
      <3> QED
        BY <1>2, <1>4, <3>1
    <2>6. CASE RemovePod(p)
      BY <1>3, <2>6 DEF RemovePod
    <2> QED
      BY <2>1, <2>2, <2>3, <2>4, <2>5, <2>6
  <1>6. UNCHANGED others \/ Fault \/ Change
    BY DEF CreatePod, StartPod, AppearPod, RestartPod, FinishPod, RemovePod
  <1> QED
    BY <1>5, <1>6, SetPodInv

LEMMA OwnersInv ==
  ASSUME IndInv, NEW o \in Owners,
         ReviveOwner(o) \/ DeleteOwner(o) \/ RestoreOwner(o) \/ OwnerGone(o)
  PROVE  IndInv'
  <1>1. PICK state \in {"up", "down", "deleting", "gone"} : SetOwner(o, state)
    BY DEF ReviveOwner, DeleteOwner, RestoreOwner, OwnerGone
  <1>2. /\ owners' = [owners EXCEPT ![o] = [state |-> state, since |-> now]]
        /\ UNCHANGED <<now, idler, icache, pods, hosted, sent, pending, due, pc, work>>
    BY <1>1 DEF SetOwner
  <1>3. UNCHANGED others \/ Fault \/ Change
    BY DEF ReviveOwner, DeleteOwner, RestoreOwner, OwnerGone
  <1>4. /\ faults' \in 0..MaxFaults /\ changes' \in 0..MaxChanges
        /\ retimed' \in 0..MaxNow
    BY <1>3, CountersType DEF IndInv
  <1>5. owners' \in [Owners -> OwnerState]
    <2>1. owners \in [Owners -> OwnerState] /\ now \in 0..MaxNow
      BY DEF IndInv, TypeOK
    <2>2. [state |-> state, since |-> now] \in OwnerState
      BY <2>1 DEF OwnerState
    <2> QED
      BY <1>2, <2>1, <2>2
  <1>6. TypeOK'
    BY <1>2, <1>4, <1>5 DEF IndInv, TypeOK
  <1>7. WorkOK' /\ NotesOK'
    BY <1>2 DEF IndInv, WorkOK, NotesOK
  <1> QED
    BY <1>6, <1>7 DEF IndInv

LEMMA EnvironmentInv ==
  ASSUME IndInv, Environment PROVE IndInv'
  BY ClockInv, RestartInv, SyncIdlerInv, HostRemovesNotificationInv,
     HostSetsTimeoutInv, PodsInv, OwnersInv DEF Environment

-----------------------------------------------------------------------------
LEMMA InitInv == Init => IndInv
  <1> SUFFICES ASSUME Init PROVE IndInv
    OBVIOUS
  <1>1. idler \in IdlerObject /\ icache \in IdlerObject
    BY DEF Init, IdlerObject, Reasons, Notes
  <1>2. NoPod \in Pod
    BY IdlerAssumption DEF NoPod, Pod, Phases
  <1>3. pods \in [Pods -> Pod]
    BY <1>2 DEF Init
  <1>4. [state |-> "up", since |-> 0] \in OwnerState
    BY IdlerAssumption DEF OwnerState
  <1>5. owners \in [Owners -> OwnerState]
    BY <1>4 DEF Init
  <1>6. TypeOK
    <2>1. /\ now \in 0..MaxNow /\ retimed \in 0..MaxNow /\ sent \in Nat
          /\ changes \in 0..MaxChanges /\ faults \in 0..MaxFaults
      BY IdlerAssumption DEF Init
    <2> QED
      BY <1>1, <1>3, <1>5, <2>1 DEF Init, TypeOK
  <1>7. WorkOK /\ NotesOK
    BY DEF Init, WorkOK, NotesOK
  <1> QED
    BY <1>6, <1>7 DEF IndInv

LEMMA NextInv == IndInv /\ [Next]_vars => IndInv'
  <1> SUFFICES ASSUME IndInv, [Next]_vars PROVE IndInv'
    OBVIOUS
  <1>1. CASE Next
    BY <1>1, ReconcileInv, EnvironmentInv DEF Next
  <1>2. CASE UNCHANGED vars
    BY <1>2 DEF IndInv, TypeOK, WorkOK, NotesOK, vars
  <1> QED
    BY <1>1, <1>2

(* IndInv is an invariant: Reconcile works on an Idler that is the stored  *)
(* one unless the host has changed it, asks for no check in the past, and  *)
(* creates a Notification only when there has been none                    *)
(* (idler_controller.go:279), whatever fails and whenever the operator is  *)
(* restarted.                                                              *)
THEOREM Invariance == Spec => []IndInv
  BY InitInv, NextInv, PTL DEF Spec

(* The user gets at most one Notification, however often pods are idled:   *)
(* it is created only while the condition is not set and the host has none *)
(* of that name (idler_controller.go:279-309).                             *)
THEOREM ToldOnce == Spec => []NotifiedOnce
  <1>1. IndInv => NotifiedOnce
    BY DEF IndInv, NotesOK, NotifiedOnce
  <1> QED
    BY <1>1, Invariance, PTL

-----------------------------------------------------------------------------
(* Pods are idled in time.                                                 *)

(* The last change of an owner of a pod is not before any of them.         *)
TouchedOK ==
    \A p \in Pods :
        /\ Touched(p) \in Nat
        /\ \A i \in DOMAIN Chain[p] : Touched(p) >= owners[Chain[p][i]].since

LEMMA TouchedLast == TypeOK => TouchedOK
  <1> SUFFICES ASSUME TypeOK, NEW p \in Pods
               PROVE  /\ Touched(p) \in Nat
                      /\ \A i \in DOMAIN Chain[p] : Touched(p) >= owners[Chain[p][i]].since
    BY DEF TouchedOK
  <1> DEFINE S == {owners[Chain[p][i]].since : i \in DOMAIN Chain[p]} \cup {0}
  <1>1. \A i \in DOMAIN Chain[p] : Chain[p][i] \in Owners
    BY IdlerAssumption
  <1>2. \A o \in Owners : owners[o].since \in 0..MaxNow
    BY DEF TypeOK, OwnerState
  <1>3. S \subseteq 0..MaxNow /\ S # {}
    BY <1>1, <1>2, IdlerAssumption
  <1>4. \A i \in DOMAIN Chain[p] : owners[Chain[p][i]].since \in S
    OBVIOUS
  <1>5. Touched(p) = Max(S)
    BY DEF Touched
  <1> HIDE DEF S
  <1>6. Max(S) \in S /\ \A y \in S : y <= Max(S)
    BY <1>3, IdlerAssumption, MaxBelow
  <1>7. Max(S) \in Nat
    <2>1. Max(S) \in 0..MaxNow
      BY <1>3, <1>6
    <2> QED
      BY <2>1, IdlerAssumption
  <1>8. \A i \in DOMAIN Chain[p] : Max(S) >= owners[Chain[p][i]].since
    <2> TAKE i \in DOMAIN Chain[p]
    <2>1. owners[Chain[p][i]].since \in Nat
      BY <1>1, <1>2
    <2>2. owners[Chain[p][i]].since <= Max(S)
      BY <1>4, <1>6
    <2> QED
      BY <1>7, <2>1, <2>2
  <1> QED
    BY <1>5, <1>7, <1>8

(* What a step does to the owners of a pod: an idled one stays idled, or   *)
(* somebody has just changed one.                                          *)
OwnersKept(p) ==
    \/ (IdleOwned(p) => IdleOwned(p)') /\ Touched(p)' = Touched(p)
    \/ Touched(p)' >= now

LEMMA SameOwners ==
  ASSUME UNCHANGED owners, NEW p \in Pods
  PROVE  OwnersKept(p)
  <1>1. IdleOwned(p)' = IdleOwned(p)
    BY DEF IdleOwned
  <1>2. Touched(p)' = Touched(p)
    BY DEF Touched
  <1> QED
    BY <1>1, <1>2 DEF OwnersKept

LEMMA OwnerSet ==
  ASSUME TypeOK, TypeOK', NEW o \in Owners, NEW state, SetOwner(o, state), NEW p \in Pods
  PROVE  OwnersKept(p)
  <1>1. /\ owners \in [Owners -> OwnerState]
        /\ owners' = [owners EXCEPT ![o] = [state |-> state, since |-> now]]
    BY DEF SetOwner, TypeOK
  <1>2. \A i \in DOMAIN Chain[p] : Chain[p][i] \in Owners
    BY IdlerAssumption
  <1>3. CASE \E i \in DOMAIN Chain[p] : Chain[p][i] = o
    <2>1. PICK i \in DOMAIN Chain[p] : Chain[p][i] = o
      BY <1>3
    <2>2. owners'[Chain[p][i]].since = now
      BY <1>1, <2>1
    <2>3. TouchedOK'
      BY TouchedLast, PTL
    <2> QED
      BY <2>1, <2>2, <2>3 DEF OwnersKept, TouchedOK
  <1>4. CASE \A i \in DOMAIN Chain[p] : Chain[p][i] # o
    <2>1. \A i \in DOMAIN Chain[p] : owners'[Chain[p][i]] = owners[Chain[p][i]]
      BY <1>1, <1>2, <1>4
    <2>2. IdleOwned(p) => IdleOwned(p)'
      BY <2>1 DEF IdleOwned
    <2>3. {owners'[Chain[p][i]].since : i \in DOMAIN Chain[p]}
            = {owners[Chain[p][i]].since : i \in DOMAIN Chain[p]}
      BY <2>1
    <2>4. Touched(p)' = Touched(p)
      BY <2>3 DEF Touched
    <2> QED
      BY <2>2, <2>4 DEF OwnersKept
  <1> QED
    BY <1>3, <1>4

(* A check that is in time stays so, and so is an earlier one.             *)
LEMMA InTimeStays ==
  ASSUME TypeOK, TypeOK', NEW t \in Int, NEW p \in Pods, NEW a \in Int, NEW b \in Int,
         OwnersKept(p), now' >= now, b <= a,
         pods'[p].start = pods[p].start, pods'[p].unseen = pods[p].unseen,
         pods'[p].loops = pods[p].loops,
         InTime(t, p, a)
  PROVE  InTime(t, p, b)'
  <1>1. getTimeout(t, p) \in Int /\ Percent(5, getTimeout(t, p)) \in Int
    BY TimeoutType
  <1>2. pods[p] \in Pod /\ now \in Int /\ now' \in Int
    BY DEF TypeOK
  <1>3. pods[p].start \in Int
    BY <1>2 DEF Pod
  <1>4. TouchedOK /\ TouchedOK'
    BY TouchedLast, PTL
  <1>5. Touched(p) \in Nat /\ Touched(p)' \in Nat
    BY <1>4 DEF TouchedOK
  <1>6. FirstCheck(t, p)' = FirstCheck(t, p) /\ FirstCheck(t, p) \in Int
    BY <1>1 DEF FirstCheck
  <1>7. NextCheck(t, p)' = NextCheck(t, p) /\ NextCheck(t, p) \in Int
    BY <1>1 DEF NextCheck
  <1>8. CASE a <= pods[p].start + FirstCheck(t, p) + 1
    <2>1. b <= pods'[p].start + FirstCheck(t, p)' + 1
      BY <1>3, <1>6, <1>8
    <2> QED
      BY <2>1 DEF InTime
  <1>9. CASE /\ a <= now + NextCheck(t, p)
             /\ IdleOwned(p) \/ a <= Touched(p) + NextCheck(t, p) + 1
    <2>1. b <= now' + NextCheck(t, p)'
      BY <1>2, <1>7, <1>9
    <2>2. IdleOwned(p)' \/ b <= Touched(p)' + NextCheck(t, p)' + 1
      <3>1. CASE Touched(p)' >= now
        BY <1>2, <1>5, <1>7, <1>9, <3>1
      <3>2. CASE (IdleOwned(p) => IdleOwned(p)') /\ Touched(p)' = Touched(p)
        BY <1>2, <1>5, <1>7, <1>9, <3>2
      <3> QED
        BY <3>1, <3>2 DEF OwnersKept
    <2> QED
      BY <2>1, <2>2 DEF InTime
  <1> QED
    BY <1>8, <1>9 DEF InTime

(* What Reconcile reads of a pod stays the same; or the pod is new, and    *)
(* its start was missed by the watch.                                      *)
PodKept(p) ==
    /\ pods'[p].start = pods[p].start /\ pods'[p].loops = pods[p].loops
    /\ pods'[p].unseen = pods[p].unseen
    /\ Started(pods'[p]) <=> Started(pods[p])
    /\ Present(p)' <=> Present(p)
    /\ pods[p].deleted => pods'[p].deleted
NewPod(p) ==
    /\ ~ Present(p)
    /\ Started(pods'[p]) => pods'[p].unseen /\ pods'[p].start = now

LEMMA StillInTime ==
  ASSUME TypeOK, TypeOK', NEW t \in Int, NEW p \in Pods, NEW a \in Int, NEW b \in Int,
         OwnersKept(p), PodKept(p) \/ NewPod(p), now' >= now, b <= a, a <= now + t,
         Aged(p) => InTime(t, p, a), Aged(p)'
  PROVE  InTime(t, p, b)'
  <1>1. CASE PodKept(p)
    <2>1. Aged(p)
      BY <1>1 DEF PodKept, Aged
    <2>2. /\ pods'[p].start = pods[p].start /\ pods'[p].unseen = pods[p].unseen
          /\ pods'[p].loops = pods[p].loops
      BY <1>1 DEF PodKept
    <2> QED
      BY <2>1, <2>2, InTimeStays
  <1>2. CASE NewPod(p)
    <2>1. pods'[p].unseen /\ pods'[p].start = now
      BY <1>2 DEF NewPod, Aged
    <2>2. FirstCheck(t, p)' = t
      BY <2>1 DEF FirstCheck
    <2>3. now \in Int
      BY DEF TypeOK
    <2>4. b <= pods'[p].start + FirstCheck(t, p)' + 1
      BY <2>1, <2>2, <2>3
    <2> QED
      BY <2>4 DEF InTime
  <1> QED
    BY <1>1, <1>2

(* A step within the loop, or of the environment meanwhile: pods are done, *)
(* with a check in time for them, and the check is not put off.            *)
LoopStep ==
    /\ pc # "rest" /\ pc' # "rest" /\ now' = now
    /\ ~ pending' => ~ pending /\ icache'.timeout = icache.timeout
    /\ work'.copy.timeout = work.copy.timeout /\ work'.list = work.list
    /\ work'.todo \subseteq work.todo /\ work'.after <= work.after
    /\ ~ work'.failed => ~ work.failed /\ work'.tried = work.tried
    /\ \A p \in Pods : OwnersKept(p) /\ (~ pending' => PodKept(p) \/ NewPod(p))
    /\ ~ pending' /\ work.copy.timeout > 0 =>
         /\ work'.after > 0
         /\ pc' = "status" /\ ~ work'.failed => work'.reason = "Running" /\ work'.todo = {}
         /\ ~ work'.failed => \A p \in work.todo \ work'.todo :
                Aged(p)' => InTime(work.copy.timeout, p, now + work.after)'

LEMMA WorkNumbers ==
  ASSUME NEW w \in Work
  PROVE  w.copy.timeout \in Int /\ w.after \in Int
  <1>1. w.copy \in IdlerObject /\ w.after \in Int
    BY DEF Work
  <1> QED
    BY <1>1, IdlerAssumption DEF IdlerObject

LEMMA LoopStays ==
  ASSUME TimeInv, IndInv', LoopStep
  PROVE  LoopOK'
  <1> SUFFICES ASSUME ~ pending' PROVE LoopOK'
    BY DEF LoopOK
  <1>1. /\ TypeOK /\ TypeOK' /\ LoopOK /\ ~ pending
        /\ pc # "rest" /\ pc' # "rest" /\ now' = now
    BY DEF TimeInv, IndInv, LoopStep
  <1>2. work \in Work /\ work' \in Work
    BY <1>1 DEF TimeInv, IndInv, WorkOK
  <1>3. /\ work.copy.timeout \in Int /\ work.after \in Int /\ work'.after \in Int
        /\ now \in Int
    BY <1>1, <1>2, WorkNumbers DEF TypeOK
  <1>4. work'.copy.timeout = work.copy.timeout /\ work'.copy.timeout = icache'.timeout
    BY <1>1 DEF LoopStep, LoopOK
  <1> SUFFICES ASSUME work.copy.timeout > 0 PROVE LoopOK'
    BY <1>4 DEF LoopOK
  <1>5. work'.after > 0 /\ work'.after <= work.copy.timeout
    <2>1. work.after <= work.copy.timeout
      BY <1>1 DEF LoopOK
    <2>2. work'.after <= work.after /\ work'.after > 0
      BY DEF LoopStep
    <2> QED
      BY <1>3, <2>1, <2>2
  <1>6. pc' = "status" /\ ~ work'.failed => work'.reason = "Running" /\ work'.todo = {}
    BY DEF LoopStep
  <1>7. ASSUME NEW p \in work'.todo
        PROVE  /\ Present(p)' /\ ~ pods'[p].unseen
               /\ work'.list[p].start = pods'[p].start
               /\ work'.list[p].loops = pods'[p].loops
               /\ Started(work'.list[p]) <=> Started(pods'[p])
    <2>1. p \in Pods /\ p \in work.todo /\ work'.list = work.list
      BY <1>2, <1>7 DEF LoopStep, Work
    <2>2. /\ Present(p) /\ ~ pods[p].unseen
          /\ work.list[p].start = pods[p].start
          /\ work.list[p].loops = pods[p].loops
          /\ Started(work.list[p]) <=> Started(pods[p])
      BY <1>1, <2>1 DEF LoopOK
    <2>3. PodKept(p)
      BY <2>1, <2>2 DEF LoopStep, NewPod
    <2> QED
      BY <2>1, <2>2, <2>3 DEF PodKept
  <1>8. ASSUME ~ work'.failed, NEW p \in Pods, Aged(p)', p \notin work'.todo
        PROVE  InTime(work.copy.timeout, p, now + work.after)'
    <2>1. CASE p \in work.todo
      BY <1>8, <2>1 DEF LoopStep
    <2>2. CASE p \notin work.todo
      <3>1. PICK t \in Int : t = work.copy.timeout
        BY <1>3
      <3>2. PICK a \in Int : a = now + work.after
        BY <1>3
      <3>3. PICK b \in Int : b = now' + work'.after
        BY <1>1, <1>3
      <3>4. b <= a /\ a <= now + t /\ now' >= now
        <4>1. work'.after <= work.after /\ work.after <= work.copy.timeout
          BY <1>1 DEF LoopStep, LoopOK
        <4> QED
          BY <1>1, <1>3, <3>1, <3>2, <3>3, <4>1
      <3>5. Aged(p) => InTime(t, p, a)
        <4>1. ~ work.failed
          BY <1>8 DEF LoopStep
        <4>2. Aged(p) => InTime(work.copy.timeout, p, now + work.after)
          BY <1>1, <1>8, <2>2, <4>1 DEF LoopOK
        <4> QED
          BY <3>1, <3>2, <4>2
      <3>6. OwnersKept(p) /\ (PodKept(p) \/ NewPod(p))
        BY DEF LoopStep
      <3>7. InTime(t, p, b)'
        BY <1>1, <1>8, <3>4, <3>5, <3>6, StillInTime
      <3> QED
        BY <1>4, <3>1, <3>3, <3>7 DEF InTime, FirstCheck, NextCheck
    <2> QED
      BY <2>1, <2>2
  <1>9. ~ work'.failed => work'.tried = {}
    BY <1>1 DEF LoopStep, LoopOK
  <1> QED
    BY <1>1, <1>4, <1>5, <1>6, <1>7, <1>8, <1>9 DEF LoopOK

LEMMA SettledStays ==
  ASSUME NEW p, Settled(p), OwnersKept(p), now' = now
  PROVE  Settled(p)'
  BY DEF Settled, OwnersKept

(* A step of the environment: Reconcile stays where it is, and a request   *)
(* is put into the queue unless the pods it knows of stay the same.        *)
Quiet ==
    /\ pc' = pc /\ now' >= now
    /\ pc # "rest" =>
         /\ now' = now
         /\ work'.copy = work.copy /\ work'.list = work.list
         /\ work'.todo = work.todo /\ work'.tried = work.tried
         /\ work'.after = work.after /\ work'.failed = work.failed
         /\ work'.pod = work.pod /\ work'.tree = work.tree
         /\ work'.top = work.top /\ work'.err = work.err /\ work'.reason = work.reason
    /\ ~ pending' => ~ pending /\ icache'.timeout = icache.timeout /\ due' = due
    /\ \A p \in Pods : OwnersKept(p) /\ (~ pending' => PodKept(p) \/ NewPod(p))

LEMMA QuietRest ==
  ASSUME TimeInv, IndInv', Quiet
  PROVE  RestOK'
  <1> SUFFICES ASSUME pc' = "rest", ~ pending', icache'.timeout > 0 PROVE RestOK'
    BY DEF RestOK
  <1>1. /\ TypeOK /\ TypeOK' /\ RestOK /\ pc = "rest" /\ ~ pending
        /\ icache'.timeout = icache.timeout /\ due' = due /\ now' >= now
    BY DEF TimeInv, IndInv, Quiet
  <1>2. icache.timeout \in Int /\ now \in Int /\ now' \in Int
    <2>1. icache \in IdlerObject /\ now \in Int /\ now' \in Int
      BY <1>1 DEF TypeOK
    <2> QED
      BY <2>1, IdlerAssumption DEF IdlerObject
  <1>3. due # NotScheduled /\ due <= now + icache.timeout
    BY <1>1 DEF RestOK
  <1>4. due \in Int
    BY <1>1, <1>3 DEF TypeOK
  <1>5. ASSUME NEW p \in Pods, Aged(p)' PROVE InTime(icache.timeout, p, due)'
    <2>1. PICK t \in Int : t = icache.timeout
      BY <1>2
    <2>2. PICK a \in Int : a = due
      BY <1>4
    <2>3. Aged(p) => InTime(t, p, a)
      BY <1>1, <2>1, <2>2 DEF RestOK
    <2>4. OwnersKept(p) /\ (PodKept(p) \/ NewPod(p))
      BY DEF Quiet
    <2>5. a <= now + t /\ a <= a
      BY <1>3, <2>1, <2>2
    <2>6. InTime(t, p, a)'
      BY <1>1, <1>5, <2>3, <2>4, <2>5, StillInTime
    <2> QED
      BY <1>1, <2>1, <2>2, <2>6 DEF InTime, FirstCheck, NextCheck
  <1>6. due' <= now' + icache'.timeout
    BY <1>1, <1>2, <1>3, <1>4
  <1> QED
    BY <1>1, <1>3, <1>5, <1>6 DEF RestOK

LEMMA QuietStep ==
  ASSUME TimeInv, Quiet, pc # "rest"
  PROVE  LoopStep
  <1>1. work \in Work
    BY DEF TimeInv, IndInv, WorkOK
  <1>2. work.after <= work.after
    BY <1>1, WorkNumbers
  <1>3. ~ pending' /\ work.copy.timeout > 0 =>
          /\ work.after > 0
          /\ pc = "status" /\ ~ work.failed => work.reason = "Running" /\ work.todo = {}
    BY DEF TimeInv, LoopOK, Quiet
  <1> QED
    BY <1>2, <1>3 DEF Quiet, LoopStep

LEMMA QuietLoop ==
  ASSUME TimeInv, IndInv', Quiet
  PROVE  LoopOK'
  <1>1. CASE pc = "rest"
    BY <1>1 DEF Quiet, LoopOK
  <1>2. CASE pc # "rest"
    BY <1>2, QuietStep, LoopStays
  <1> QED
    BY <1>1, <1>2

LEMMA QuietOwners ==
  ASSUME TimeInv, IndInv', Quiet
  PROVE  OwnersOK'
  <1>1. CASE pc \notin {"owners", "notify", "record"}
    BY <1>1 DEF TimeInv, OwnersOK, Quiet
  <1>2. CASE pc \in {"owners", "notify", "record"}
    <2>1. /\ work.pod \in Pods /\ work.pod \in work.todo /\ work.copy.timeout > 0
          /\ OwnersOK /\ LoopOK
      BY <1>2 DEF TimeInv, IndInv, WorkOK, OwnersOK
    <2>2. /\ pc' = pc /\ now' = now /\ work'.copy = work.copy /\ work'.pod = work.pod
          /\ work'.todo = work.todo /\ work'.tree = work.tree
          /\ work'.top = work.top /\ work'.err = work.err
          /\ OwnersKept(work.pod)
      BY <1>2, <2>1 DEF Quiet
    <2>3. PICK p \in Pods : p = work.pod
      BY <2>1
    <2>4. Settled(p) => Settled(p)'
      BY <2>2, <2>3, SettledStays
    <2>5. pods[p].deleted => pods'[p].deleted \/ pending'
      <3> SUFFICES ASSUME ~ pending', pods[p].deleted PROVE pods'[p].deleted
        OBVIOUS
      <3>1. Present(p)
        BY <1>2, <2>1, <2>3 DEF LoopOK, Quiet
      <3> QED
        BY <3>1 DEF Quiet, PodKept, NewPod
    <2>6. pending => pending'
      BY DEF Quiet
    <2>7. Settled(work.pod)' <=> Settled(p)'
      BY <2>2, <2>3 DEF Settled, IdleOwned, Touched
    <2> QED
      BY <2>1, <2>2, <2>3, <2>4, <2>5, <2>6, <2>7 DEF OwnersOK
  <1> QED
    BY <1>1, <1>2

LEMMA QuietInv ==
  ASSUME TimeInv, IndInv', Quiet
  PROVE  TimeInv'
  BY QuietRest, QuietLoop, QuietOwners DEF TimeInv

LEMMA SamePods ==
  ASSUME UNCHANGED pods, NEW p \in Pods
  PROVE  PodKept(p)
  BY DEF PodKept, Present

LEMMA ClockQuiet ==
  ASSUME TimeInv, IndInv', Tick \/ RequestDue
  PROVE  Quiet
  <1>1. now \in Int
    BY DEF TimeInv, IndInv, TypeOK
  <1>2. /\ pc' = pc /\ work' = work /\ icache' = icache
        /\ UNCHANGED owners /\ UNCHANGED pods
    BY DEF Tick, RequestDue
  <1>3. now' >= now /\ (pc # "rest" => now' = now)
    BY <1>1 DEF Tick, RequestDue
  <1>4. ~ pending' => ~ pending /\ due' = due
    BY DEF Tick, RequestDue
  <1>5. \A p \in Pods : OwnersKept(p) /\ PodKept(p)
    BY <1>2, SameOwners, SamePods
  <1> QED
    BY <1>2, <1>3, <1>4, <1>5 DEF Quiet

LEMMA IdlerQuiet ==
  ASSUME TimeInv, IndInv',
         SyncIdler \/ HostRemovesNotification \/ \E t \in Timeouts : HostSetsTimeout(t)
  PROVE  Quiet
  <1>1. /\ pc' = pc /\ now' = now /\ due' = due
        /\ UNCHANGED owners /\ UNCHANGED pods
    BY DEF SyncIdler, HostRemovesNotification, HostSetsTimeout
  <1>2. ~ pending' => ~ pending /\ icache'.timeout = icache.timeout
    BY DEF SyncIdler, HostRemovesNotification, HostSetsTimeout
  <1>3. now \in Int /\ (pc # "rest" => work \in Work)
    BY DEF TimeInv, IndInv, TypeOK, WorkOK
  <1>4. work' = work \/ (pc # "rest" /\ work' = [work EXCEPT !.current = FALSE])
    BY DEF SyncIdler, HostRemovesNotification, HostSetsTimeout
  <1>5. pc # "rest" =>
         /\ work'.copy = work.copy /\ work'.list = work.list
         /\ work'.todo = work.todo /\ work'.tried = work.tried
         /\ work'.after = work.after /\ work'.failed = work.failed
         /\ work'.pod = work.pod /\ work'.tree = work.tree
         /\ work'.top = work.top /\ work'.err = work.err /\ work'.reason = work.reason
    BY <1>3, <1>4 DEF Work
  <1>6. \A p \in Pods : OwnersKept(p) /\ PodKept(p)
    BY <1>1, SameOwners, SamePods
  <1>7. now' >= now
    BY <1>1, <1>3
  <1> QED
    BY <1>1, <1>2, <1>5, <1>6, <1>7 DEF Quiet

LEMMA OwnersQuiet ==
  ASSUME TimeInv, IndInv', NEW o \in Owners,
         ReviveOwner(o) \/ DeleteOwner(o) \/ RestoreOwner(o) \/ OwnerGone(o)
  PROVE  Quiet
  <1>1. PICK state \in {"up", "deleting", "gone"} : SetOwner(o, state)
    BY DEF ReviveOwner, DeleteOwner, RestoreOwner, OwnerGone
  <1>2. TypeOK /\ TypeOK' /\ now \in Int
    BY DEF TimeInv, IndInv, TypeOK
  <1>3. /\ UNCHANGED <<pc, work, now, icache, pending, due>> /\ UNCHANGED pods
    BY <1>1 DEF SetOwner
  <1>4. \A p \in Pods : OwnersKept(p) /\ PodKept(p)
    BY <1>1, <1>2, <1>3, OwnerSet, SamePods
  <1>5. now' >= now
    BY <1>2, <1>3
  <1> QED
    BY <1>3, <1>4, <1>5 DEF Quiet

(* The pod is seen by the watch, is new, or is the same to Reconcile.      *)
LEMMA PodsQuiet ==
  ASSUME TimeInv, IndInv', NEW p \in Pods,
         \/ CreatePod(p) \/ StartPod(p) \/ AppearPod(p)
         \/ RestartPod(p) \/ FinishPod(p) \/ RemovePod(p)
  PROVE  Quiet
  <1>1. /\ UNCHANGED <<pc, work, now, icache, due>> /\ UNCHANGED owners
        /\ pending => pending'
    BY DEF CreatePod, StartPod, AppearPod, RestartPod, FinishPod, RemovePod, SetPod
  <1>2. \E pod : pods' = [pods EXCEPT ![p] = pod]
    BY DEF CreatePod, StartPod, AppearPod, RestartPod, FinishPod, RemovePod, SetPod
  <1>3. now \in Int /\ pods \in [Pods -> Pod]
    BY DEF TimeInv, IndInv, TypeOK
  <1>4. pending' \/ PodKept(p) \/ NewPod(p)
    <2>1. CASE StartPod(p) \/ RestartPod(p) \/ RemovePod(p)
      BY <2>1 DEF StartPod, RestartPod, RemovePod, SetPod
    <2>2. CASE CreatePod(p)
      <3>1. ~ Present(p) /\ pods'[p] = [NoPod EXCEPT !.phase = "Pending"]
        BY <1>3, <2>2 DEF CreatePod, SetPod
      <3>2. pods'[p].phase = "Pending"
        BY <3>1 DEF NoPod
      <3> QED
        BY <3>1, <3>2 DEF NewPod, Started
    <2>3. CASE AppearPod(p)
      <3>1. /\ ~ Present(p)
            /\ pods'[p] = [NoPod EXCEPT !.phase = "Running", !.start = now, !.unseen = TRUE]
        BY <1>3, <2>3 DEF AppearPod, SetPod
      <3>2. pods'[p].unseen /\ pods'[p].start = now
        BY <3>1 DEF NoPod
      <3> QED
        BY <3>1, <3>2 DEF NewPod
    <2>4. CASE FinishPod(p)
      <3>1. PICK phase \in {"Completed", "Evicted"} :
                SetPod(p, [pods[p] EXCEPT !.phase = phase], pods[p].loops)
        BY <2>4 DEF FinishPod
      <3>2. pods'[p] = [pods[p] EXCEPT !.phase = phase] /\ pods[p] \in Pod
        BY <1>3, <3>1 DEF SetPod
      <3>3. pods[p].phase = "Running"
        BY <2>4 DEF FinishPod
      <3>4. /\ pods'[p].phase = phase
            /\ pods'[p].start = pods[p].start /\ pods'[p].loops = pods[p].loops
            /\ pods'[p].unseen = pods[p].unseen /\ pods'[p].deleted = pods[p].deleted
        BY <3>2 DEF Pod
      <3> QED
        BY <3>3, <3>4 DEF PodKept, Started, Present
    <2> QED
      BY <2>1, <2>2, <2>3, <2>4
  <1>5. \A q \in Pods : q # p => PodKept(q)
    <2> SUFFICES ASSUME NEW q \in Pods, q # p PROVE PodKept(q)
      OBVIOUS
    <2>1. pods'[q] = pods[q]
      BY <1>2, <1>3
    <2> QED
      BY <2>1 DEF PodKept, Present
  <1>6. \A q \in Pods : OwnersKept(q) /\ (~ pending' => PodKept(q) \/ NewPod(q))
    BY <1>1, <1>4, <1>5, SameOwners
  <1>7. now' >= now
    BY <1>1, <1>3
  <1> QED
    BY <1>1, <1>6, <1>7 DEF Quiet

LEMMA EnvironmentTime ==
  ASSUME TimeInv, IndInv', Environment PROVE TimeInv'
  <1>1. ASSUME Restart PROVE TimeInv'
    <2>1. pc' = "rest" /\ pending'
      BY <1>1 DEF Restart
    <2> QED
      BY <2>1 DEF TimeInv, RestOK, LoopOK, OwnersOK
  <1> QED
    BY <1>1, QuietInv, ClockQuiet, IdlerQuiet, PodsQuiet, OwnersQuiet DEF Environment

-----------------------------------------------------------------------------
(* Reconcile keeps its promises.                                           *)

LEMMA StartReconcileTime ==
  ASSUME TimeInv, IndInv', StartReconcile PROVE TimeInv'
  <1>1. /\ pc' = IF icache.timeout > 0 THEN "pods" ELSE "status"
        /\ icache' = icache
        /\ pods' = [p \in Pods |-> [pods[p] EXCEPT !.unseen = @ /\ icache.timeout <= 0]]
        /\ work'.copy = icache /\ work'.list = pods /\ work'.tried = {}
        /\ work'.todo = IF icache.timeout > 0 THEN {p \in Pods : Present(p)} ELSE {}
        /\ work'.after = icache.timeout
    BY DEF StartReconcile
  <1>2. pc' # "rest" /\ RestOK'
    BY <1>1 DEF RestOK
  <1>3. icache.timeout \in Int /\ pods \in [Pods -> Pod]
    <2>1. icache \in IdlerObject /\ pods \in [Pods -> Pod]
      BY DEF TimeInv, IndInv, TypeOK
    <2> QED
      BY <2>1, IdlerAssumption DEF IdlerObject
  <1>4. OwnersOK'
    BY <1>1 DEF OwnersOK
  <1>5. CASE ~ (icache.timeout > 0)
    <2>1. LoopOK'
      BY <1>1, <1>2, <1>5 DEF LoopOK
    <2> QED
      BY <1>2, <1>4, <2>1 DEF TimeInv
  <1>6. CASE icache.timeout > 0
    <2>1. ASSUME NEW p \in Pods
          PROVE /\ pods'[p].phase = pods[p].phase /\ ~ pods'[p].unseen
                /\ pods'[p].start = pods[p].start /\ pods'[p].loops = pods[p].loops
      <3>1. pods[p] \in Pod /\ ~ (icache.timeout <= 0)
        BY <1>3, <1>6
      <3>2. pods'[p] = [pods[p] EXCEPT !.unseen = pods[p].unseen /\ icache.timeout <= 0]
        BY <1>1
      <3> QED
        BY <3>1, <3>2 DEF Pod
    <2>2. ASSUME NEW p \in work'.todo
          PROVE  /\ Present(p)' /\ ~ pods'[p].unseen
                 /\ work'.list[p].start = pods'[p].start
                 /\ work'.list[p].loops = pods'[p].loops
                 /\ Started(work'.list[p]) <=> Started(pods'[p])
      <3>1. p \in Pods /\ Present(p)
        BY <1>1, <1>6, <2>2
      <3> QED
        BY <1>1, <2>1, <3>1 DEF Present, Started
    <2>3. ASSUME NEW p \in Pods, Aged(p)' PROVE p \in work'.todo
      <3>1. Present(p)
        BY <2>1, <2>3 DEF Aged, Started, Present
      <3> QED
        BY <1>1, <1>6, <3>1
    <2>4. work'.after > 0 /\ work'.after <= work'.copy.timeout
      BY <1>1, <1>3, <1>6
    <2>5. LoopOK'
      BY <1>1, <1>2, <1>6, <2>2, <2>3, <2>4 DEF LoopOK
    <2> QED
      BY <1>2, <1>4, <2>5 DEF TimeInv
  <1> QED
    BY <1>5, <1>6

(* The number of seconds until the next check.                             *)
LEMMA Shorter ==
  ASSUME NEW a \in Int, NEW b \in Int, a > 0, b > 0
  PROVE  /\ shorterDuration(a, b) \in Int /\ shorterDuration(a, b) > 0
         /\ shorterDuration(a, b) <= a /\ shorterDuration(a, b) <= b
  BY DEF shorterDuration

LEMMA LongEnough ==
  ASSUME LongTimeouts, NEW t \in Timeouts, t > 0, NEW p \in Pods
  PROVE  /\ getTimeout(t, p) \in Int /\ getTimeout(t, p) > 0
         /\ Percent(5, getTimeout(t, p)) \in Int /\ Percent(5, getTimeout(t, p)) > 0
  <1>1. t \in Int /\ Percent(5, getTimeout(t, p)) > 0
    BY IdlerAssumption DEF LongTimeouts
  <1>2. getTimeout(t, p) \in Int /\ Percent(5, getTimeout(t, p)) \in Int
    BY <1>1, TimeoutType
  <1>3. ASSUME NEW g \in Int, Percent(5, g) > 0 PROVE g > 0
    BY <1>3 DEF Percent
  <1> QED
    BY <1>1, <1>2, <1>3

LEMMA InLoop ==
  ASSUME TimeInv, pc \in {"pods", "owners", "notify", "record"}
  PROVE  /\ TypeOK /\ LoopOK /\ OwnersOK
         /\ work \in Work /\ work.copy.timeout \in Timeouts
         /\ work.copy.timeout \in Int /\ work.after \in Int /\ now \in Int
         /\ work.copy.timeout > 0
         /\ ~ pending => work.after > 0 /\ work.after <= work.copy.timeout
         /\ pc # "pods" => work.pod \in Pods /\ work.pod \in work.todo
  <1>1. /\ IndInv /\ TypeOK /\ LoopOK /\ OwnersOK /\ work \in Work
        /\ pc # "pods" => work.pod \in Pods
    BY DEF TimeInv, IndInv, WorkOK
  <1>2. work.copy.timeout \in Int /\ work.after \in Int /\ now \in Int
    BY <1>1, WorkNumbers DEF TypeOK
  <1>3. work.copy.timeout \in Timeouts
    <2>1. work.copy \in IdlerObject
      BY <1>1 DEF Work
    <2> QED
      BY <2>1 DEF IdlerObject
  <1>4. work.copy.timeout > 0 /\ (pc # "pods" => work.pod \in work.todo)
    BY <1>1 DEF OwnersOK
  <1>5. ~ pending => work.after > 0 /\ work.after <= work.copy.timeout
    BY <1>1, <1>4 DEF LoopOK
  <1> QED
    BY <1>1, <1>2, <1>3, <1>4, <1>5

LEMMA PassPodLoop ==
  ASSUME LongTimeouts, TimeInv, NEW p \in Pods, PassPod(p)
  PROVE  LoopStep /\ work'.todo = work.todo \ {p}
  <1>1. /\ pc = "pods" /\ p \in work.todo
        /\ UNCHANGED <<now, icache, pods, owners, pending, pc>>
    BY DEF PassPod
  <1>2. /\ TypeOK /\ LoopOK /\ OwnersOK
        /\ work \in Work /\ work.copy.timeout \in Timeouts
        /\ work.copy.timeout \in Int /\ work.after \in Int /\ now \in Int
        /\ work.copy.timeout > 0
        /\ ~ pending => work.after > 0 /\ work.after <= work.copy.timeout
    BY <1>1, InLoop
  <1> DEFINE timeout == getTimeout(work.copy.timeout, p)
             next == IF Started(work.list[p])
                     THEN work.list[p].start + timeout + 1 - now ELSE timeout
             after == shorterDuration(work.after, next)
  <1>3. timeout \in Int /\ timeout > 0
    BY <1>2, LongEnough
  <1>4. work.list[p].start \in Int
    BY <1>2 DEF Work, Pod
  <1>5. Started(work.list[p]) => ~ (now > work.list[p].start + timeout)
    BY DEF PassPod, TimedOut
  <1>6. work' = [work EXCEPT !.after = after, !.todo = work.todo \ {p}]
    BY DEF PassPod
  <1>7. next \in Int /\ next > 0
    <2> HIDE DEF timeout
    <2> QED
      BY <1>2, <1>3, <1>4, <1>5
  <1> HIDE DEF next
  <1>8. after \in Int /\ (work.after >= 0 => after <= work.after)
    BY <1>2, <1>7, Durations DEF shorterDuration
  <1>9. ~ pending => after > 0 /\ after <= next
    BY <1>2, <1>7, Shorter
  <1>10. work.after >= 0
    BY <1>1 DEF TimeInv, IndInv, WorkOK
  <1> HIDE DEF after
  <1>11. /\ work'.copy = work.copy /\ work'.list = work.list
         /\ work'.todo = work.todo \ {p} /\ work'.after = after
         /\ work'.failed = work.failed /\ work'.tried = work.tried
    BY <1>2, <1>6 DEF Work
  <1>12. ASSUME ~ pending, Aged(p)'
         PROVE  InTime(work.copy.timeout, p, now + work.after)'
    <2>1. /\ work.list[p].start = pods[p].start /\ ~ pods[p].unseen
          /\ Started(work.list[p]) <=> Started(pods[p])
      BY <1>1, <1>2, <1>12 DEF LoopOK
    <2>2. Started(work.list[p])
      BY <1>1, <1>12, <2>1 DEF Aged
    <2>3. next = pods[p].start + timeout + 1 - now
      BY <2>1, <2>2 DEF next
    <2>4. now + after <= pods[p].start + timeout + 1
      <3> HIDE DEF timeout
      <3> QED
        BY <1>2, <1>3, <1>4, <1>8, <1>9, <1>12, <2>1, <2>3
    <2>5. FirstCheck(work.copy.timeout, p)' = timeout
      BY <1>1, <1>11, <2>1 DEF FirstCheck
    <2> QED
      BY <1>1, <1>11, <2>4, <2>5 DEF InTime
  <1>13. \A q \in Pods : OwnersKept(q) /\ PodKept(q)
    BY <1>1, SameOwners, SamePods
  <1>14. LoopStep
    BY <1>1, <1>8, <1>9, <1>10, <1>11, <1>12, <1>13 DEF LoopStep
  <1> QED
    BY <1>11, <1>14

LEMMA PassPodTime ==
  ASSUME LongTimeouts, TimeInv, IndInv', NEW p \in Pods, PassPod(p) PROVE TimeInv'
  <1>1. pc = "pods" /\ pc' = "pods"
    BY DEF PassPod
  <1>2. LoopStep
    BY PassPodLoop
  <1>3. LoopOK'
    BY <1>2, LoopStays
  <1>4. RestOK' /\ OwnersOK'
    BY <1>1, <1>2, InLoop DEF RestOK, OwnersOK, LoopStep
  <1> QED
    BY <1>3, <1>4 DEF TimeInv

(* The owners that are found are owners of the pod.                        *)
LEMMA PartOf ==
  ASSUME NEW S, NEW s \in Seq(S), NEW m \in Nat, NEW i \in DOMAIN SubSeq(s, m + 1, Len(s))
  PROVE  m + i \in DOMAIN s /\ SubSeq(s, m + 1, Len(s))[i] = s[m + i]
  <1>1. Len(s) \in Nat /\ DOMAIN s = 1..Len(s)
    OBVIOUS
  <1> QED
    BY <1>1

LEMMA ReachableIn ==
  ASSUME NEW p \in Pods, NEW i \in DOMAIN Reachable(p)
  PROVE  \E j \in DOMAIN Chain[p] : Reachable(p)[i] = Chain[p][j]
  <1> DEFINE lost == {k \in 1..Len(Chain[p]) : owners[Chain[p][k]].state = "gone"}
             m == Max(lost \cup {0})
  <1>1. Chain[p] \in Seq(Owners) /\ Len(Chain[p]) \in Nat
    BY IdlerAssumption
  <1>2. m \in Nat
    <2>1. lost \cup {0} \subseteq 0..Len(Chain[p])
      BY <1>1
    <2> HIDE DEF lost
    <2>2. m \in 0..Len(Chain[p])
      BY <1>1, <2>1, MaxBelow
    <2> QED
      BY <1>1, <2>2
  <1>3. Reachable(p) = SubSeq(Chain[p], 1 + m, Len(Chain[p]))
    BY DEF Reachable
  <1> HIDE DEF m
  <1>4. Reachable(p) = SubSeq(Chain[p], m + 1, Len(Chain[p]))
    BY <1>2, <1>3
  <1> QED
    BY <1>1, <1>2, <1>4, PartOf

(* The steps that leave the loop over the pods where it is.                *)
SamePass ==
    /\ UNCHANGED <<now, icache, pending>>
    /\ pc' \in {"pods", "owners", "notify", "record"}
    /\ work'.copy.timeout = work.copy.timeout /\ work'.list = work.list
    /\ work'.todo = work.todo /\ work'.after = work.after
    /\ work'.failed = work.failed /\ work'.tried = work.tried
    /\ \A p \in Pods : OwnersKept(p) /\ PodKept(p)

LEMMA SamePassLoop ==
  ASSUME TimeInv, pc \in {"pods", "owners", "notify", "record"}, SamePass
  PROVE  LoopStep
  <1>1. work.after \in Int /\ (~ pending => work.after > 0)
    BY InLoop
  <1>2. work'.after <= work.after
    BY <1>1 DEF SamePass
  <1> QED
    BY <1>1, <1>2 DEF SamePass, LoopStep

LEMMA SamePassTime ==
  ASSUME TimeInv, IndInv', pc \in {"pods", "owners", "notify", "record"}, SamePass, OwnersOK'
  PROVE  TimeInv'
  <1>1. LoopOK' /\ RestOK'
    BY SamePassLoop, LoopStays DEF RestOK, LoopStep
  <1> QED
    BY <1>1 DEF TimeInv

LEMMA FetchOwnersStep ==
  ASSUME TimeInv, NEW p \in Pods, NEW n \in Nat, FetchOwners(p, n)
  PROVE  /\ pc = "pods" /\ pc' = "owners" /\ SamePass /\ OwnersOK'
         /\ work'.pod = p /\ work'.top = FALSE /\ work'.err = "none"
  <1> DEFINE found == Reachable(p)
             kept == SubSeq(found, n + 1, Len(found))
             tree == [i \in 1..Len(kept) |->
                         [owner |-> kept[i], deleting |-> Deleting(kept[i])]]
  <1>1. /\ pc = "pods" /\ pc' = "owners" /\ p \in work.todo
        /\ UNCHANGED <<now, icache, pods, owners, pending>>
    BY DEF FetchOwners
  <1>2. work \in Work /\ work.copy.timeout > 0
    BY <1>1, InLoop
  <1>3. work' = [work EXCEPT !.pod = p, !.tree = tree, !.attempted = FALSE,
                             !.top = FALSE, !.err = "none"]
    BY DEF FetchOwners
  <1>4. found \in Seq(Owners)
    BY ReachableOwners
  <1>5. \A i \in DOMAIN tree :
            \E j \in DOMAIN Chain[p] : tree[i].owner = Chain[p][j]
    <2> SUFFICES ASSUME NEW i \in DOMAIN tree
                 PROVE  \E j \in DOMAIN Chain[p] : tree[i].owner = Chain[p][j]
      OBVIOUS
    <2>1. kept \in Seq(Owners)
      <3> HIDE DEF found
      <3>1. \A k \in n + 1 .. Len(found) : found[k] \in Owners
        BY <1>4
      <3>2. Len(found) \in Nat
        BY <1>4
      <3> QED
        BY <1>4, <3>1, <3>2, SubSeqProperties
    <2>2. i \in DOMAIN kept /\ tree[i].owner = kept[i]
      <3> HIDE DEF kept
      <3> QED
        BY <2>1
    <2>3. n + i \in DOMAIN found /\ kept[i] = found[n + i]
      <3> HIDE DEF found
      <3> QED
        BY <1>4, <2>2, PartOf
    <2> QED
      BY <2>2, <2>3, ReachableIn
  <1> HIDE DEF tree
  <1>6. /\ work'.copy = work.copy /\ work'.list = work.list
        /\ work'.todo = work.todo /\ work'.after = work.after
        /\ work'.failed = work.failed /\ work'.tried = work.tried
        /\ work'.pod = p /\ work'.tree = tree /\ work'.top = FALSE /\ work'.err = "none"
    BY <1>2, <1>3 DEF Work
  <1>7. OwnersOK'
    BY <1>1, <1>2, <1>5, <1>6 DEF OwnersOK
  <1>8. \A q \in Pods : OwnersKept(q) /\ PodKept(q)
    BY <1>1, SameOwners, SamePods
  <1>9. SamePass
    BY <1>1, <1>6, <1>8 DEF SamePass
  <1> QED
    BY <1>1, <1>6, <1>7, <1>9

LEMMA FetchOwnersTime ==
  ASSUME TimeInv, IndInv', NEW p \in Pods, NEW n \in Nat, FetchOwners(p, n) PROVE TimeInv'
  BY FetchOwnersStep, SamePassTime

LEMMA TailOwners ==
  ASSUME NEW s \in Seq([owner: Owners, deleting: BOOLEAN]), s # <<>>, NEW p,
         \A i \in DOMAIN s : \E j \in DOMAIN Chain[p] : s[i].owner = Chain[p][j]
  PROVE  /\ \A i \in DOMAIN Tail(s) : \E j \in DOMAIN Chain[p] : Tail(s)[i].owner = Chain[p][j]
         /\ \E j \in DOMAIN Chain[p] : Head(s).owner = Chain[p][j]
  <1>1. /\ Len(s) \in Nat /\ Len(s) >= 1 /\ DOMAIN s = 1..Len(s) /\ Head(s) = s[1]
        /\ Tail(s) \in Seq([owner: Owners, deleting: BOOLEAN])
        /\ Len(Tail(s)) = Len(s) - 1 /\ DOMAIN Tail(s) = 1 .. Len(s) - 1
        /\ \A i \in 1 .. Len(s) - 1 : Tail(s)[i] = s[i + 1]
    BY HeadTailProperties
  <1>2. 1 \in DOMAIN s /\ \A i \in DOMAIN Tail(s) : i + 1 \in DOMAIN s
    BY <1>1
  <1> QED
    BY <1>1, <1>2

LEMMA SkipOwnerStep ==
  ASSUME TimeInv, SkipOwner
  PROVE  /\ pc = "owners" /\ pc' = "owners" /\ SamePass /\ OwnersOK'
         /\ work'.pod = work.pod /\ work'.tree = Tail(work.tree)
         /\ work'.top = work.top /\ work'.err = work.err
  <1>1. /\ pc = "owners" /\ pc' = "owners" /\ work.tree # <<>>
        /\ UNCHANGED <<now, icache, pods, owners, pending>>
    BY DEF SkipOwner
  <1>2. work \in Work /\ OwnersOK /\ work.pod \in Pods
    BY <1>1, InLoop
  <1>3. work' = [work EXCEPT !.tree = Tail(work.tree),
                     !.attempted = work.attempted /\ ~ Head(work.tree).deleting]
    BY DEF SkipOwner
  <1>4. /\ work'.copy = work.copy /\ work'.list = work.list
        /\ work'.todo = work.todo /\ work'.after = work.after
        /\ work'.failed = work.failed /\ work'.tried = work.tried
        /\ work'.pod = work.pod /\ work'.tree = Tail(work.tree)
        /\ work'.top = work.top /\ work'.err = work.err
    BY <1>2, <1>3 DEF Work
  <1>5. work.tree \in Seq([owner: Owners, deleting: BOOLEAN])
    BY <1>2 DEF Work
  <1>6. \A i \in DOMAIN work.tree :
            \E j \in DOMAIN Chain[work.pod] : work.tree[i].owner = Chain[work.pod][j]
    BY <1>1, <1>2 DEF OwnersOK
  <1>7. \A i \in DOMAIN Tail(work.tree) :
            \E j \in DOMAIN Chain[work.pod] : Tail(work.tree)[i].owner = Chain[work.pod][j]
    BY <1>1, <1>5, <1>6, TailOwners
  <1>8. Settled(work.pod)' <=> Settled(work.pod)
    BY <1>1, <1>4 DEF Settled, IdleOwned, Touched
  <1>9. OwnersOK'
    BY <1>1, <1>2, <1>4, <1>7, <1>8 DEF OwnersOK
  <1>10. \A q \in Pods : OwnersKept(q) /\ PodKept(q)
    BY <1>1, SameOwners, SamePods
  <1>11. SamePass
    BY <1>1, <1>4, <1>10 DEF SamePass
  <1> QED
    BY <1>1, <1>4, <1>9, <1>11

LEMMA SkipOwnerTime ==
  ASSUME TimeInv, IndInv', SkipOwner PROVE TimeInv'
  BY SkipOwnerStep, SamePassTime

(* Idling an owner leaves no other one less idled.                         *)
LEMMA IdleKeeps ==
  ASSUME TypeOK, NEW o \in Owners, owners' = [owners EXCEPT ![o] = Idled(o)], NEW p \in Pods
  PROVE  OwnersKept(p)
  <1>1. owners \in [Owners -> OwnerState] /\ \A i \in DOMAIN Chain[p] : Chain[p][i] \in Owners
    BY IdlerAssumption DEF TypeOK
  <1>2. Idled(o).since = owners[o].since /\ (owners[o].state # "up" => Idled(o).state # "up")
    BY <1>1 DEF Idled, OwnerState
  <1>3. \A i \in DOMAIN Chain[p] :
            /\ owners'[Chain[p][i]].since = owners[Chain[p][i]].since
            /\ owners[Chain[p][i]].state # "up" => owners'[Chain[p][i]].state # "up"
    BY <1>1, <1>2
  <1>4. IdleOwned(p) => IdleOwned(p)'
    BY <1>3 DEF IdleOwned
  <1>5. {owners'[Chain[p][i]].since : i \in DOMAIN Chain[p]}
          = {owners[Chain[p][i]].since : i \in DOMAIN Chain[p]}
    BY <1>3
  <1>6. Touched(p)' = Touched(p)
    BY <1>5 DEF Touched
  <1> QED
    BY <1>4, <1>6 DEF OwnersKept

LEMMA AfterOwnerFields ==
  ASSUME work \in Work, work.tree # <<>>, NEW err \in {"none", "missing", "failed"}, AfterOwner(err)
  PROVE  /\ work'.list = work.list /\ work'.todo = work.todo
         /\ work'.failed = work.failed /\ work'.tried = work.tried
         /\ work'.tree \in {<<>>, Tail(work.tree)}
         /\ work'.top = TRUE /\ work'.err = Join(work.err, err)
  <1> DEFINE started == work.list[work.pod].start
             timeout == getTimeout(work.copy.timeout, work.pod)
             enough == work.top \/ (err = "none" /\ ~ (now > started + Percent(105, timeout)))
             tree == IF enough THEN <<>> ELSE Tail(work.tree)
             error == Join(work.err, err)
  <1>1. work' = [work EXCEPT !.tree = tree, !.attempted = TRUE, !.top = TRUE, !.err = error]
    BY DEF AfterOwner
  <1>2. tree \in {<<>>, Tail(work.tree)}
    <2> HIDE DEF enough
    <2> QED
      OBVIOUS
  <1> HIDE DEF tree, error
  <1>3. /\ work'.list = work.list /\ work'.todo = work.todo
        /\ work'.failed = work.failed /\ work'.tried = work.tried
        /\ work'.tree = tree /\ work'.top = TRUE /\ work'.err = error
    BY <1>1 DEF Work
  <1> QED
    BY <1>2, <1>3 DEF error

(* After a call that did not fail, an owner of the pod is idled.           *)
LEMMA IdleOwnerStep ==
  ASSUME NoServingRuntime, TimeInv, IdleOwner
  PROVE  pc = "owners" /\ pc' = "owners" /\ SamePass /\ OwnersOK' /\ work'.pod = work.pod
  <1>1. /\ pc = "owners" /\ pc' = "owners" /\ work.tree # <<>>
        /\ Known(Head(work.tree).owner)
        /\ UNCHANGED <<now, icache, pending>> /\ UNCHANGED pods
    BY DEF IdleOwner
  <1>2. /\ TypeOK /\ work \in Work /\ OwnersOK /\ work.pod \in Pods
        /\ work.copy.timeout > 0 /\ work.pod \in work.todo
    BY <1>1, InLoop
  <1>3. work.tree \in Seq([owner: Owners, deleting: BOOLEAN])
    BY <1>2 DEF Work
  <1>4. PICK o : o = Head(work.tree).owner
    OBVIOUS
  <1>5. o \in Owners
    <2>1. Head(work.tree) \in [owner: Owners, deleting: BOOLEAN]
      BY <1>1, <1>3, HeadTailProperties
    <2> QED
      BY <1>4, <2>1
  <1>6. PICK p \in Pods : p = work.pod
    BY <1>2
  <1>7. PICK err \in {"none", "missing", "failed"} :
            /\ AfterOwner(err)
            /\ \/ err = "missing" /\ owners[o].state = "gone" /\ UNCHANGED owners
               \/ err = "none" /\ owners' = [owners EXCEPT ![o] = Idled(o)]
               \/ err = "failed" /\ UNCHANGED owners
    BY <1>4 DEF IdleOwner
  <1>8. /\ work'.list = work.list /\ work'.todo = work.todo
        /\ work'.failed = work.failed /\ work'.tried = work.tried
        /\ work'.tree \in {<<>>, Tail(work.tree)}
        /\ work'.top = TRUE /\ work'.err = Join(work.err, err)
    BY <1>1, <1>2, <1>7, AfterOwnerFields
  <1>9. work'.after = work.after /\ work'.pod = work.pod /\ work'.copy = work.copy
    BY <1>1, <1>2, <1>7, AfterOwnerType
  <1>10. \A q \in Pods : OwnersKept(q) /\ PodKept(q)
    BY <1>1, <1>2, <1>5, <1>7, SameOwners, SamePods, IdleKeeps
  <1>11. \A i \in DOMAIN work.tree :
            \E j \in DOMAIN Chain[p] : work.tree[i].owner = Chain[p][j]
    BY <1>1, <1>2, <1>6 DEF OwnersOK
  <1>12. /\ \A i \in DOMAIN Tail(work.tree) :
                \E j \in DOMAIN Chain[p] : Tail(work.tree)[i].owner = Chain[p][j]
         /\ \E j \in DOMAIN Chain[p] : o = Chain[p][j]
    BY <1>1, <1>3, <1>4, <1>11, TailOwners
  <1>13. \A i \in DOMAIN work'.tree :
            \E j \in DOMAIN Chain[p] : work'.tree[i].owner = Chain[p][j]
    <2>1. CASE work'.tree = <<>>
      <3>1. DOMAIN work'.tree = {}
        BY <2>1
      <3> QED
        BY <3>1
    <2>2. CASE work'.tree = Tail(work.tree)
      BY <1>12, <2>2
    <2> QED
      BY <1>8, <2>1, <2>2
  <1>14. err # "failed" => Settled(p)'
    <2> SUFFICES ASSUME err # "failed" PROVE IdleOwned(p)'
      BY DEF Settled
    <2>1. PICK j \in DOMAIN Chain[p] : o = Chain[p][j]
      BY <1>12
    <2>2. owners'[o].state # "up"
      <3>1. owners \in [Owners -> OwnerState] /\ Kind[o] # "ServingRuntime"
        BY <1>2, <1>5 DEF TypeOK, NoServingRuntime
      <3>2. Idled(o).state # "up"
        BY <1>5, <3>1 DEF Idled, OwnerState
      <3> QED
        BY <1>5, <1>7, <3>1, <3>2
    <2>3. Known(o)
      BY <1>1, <1>4
    <2> QED
      BY <2>1, <2>2, <2>3 DEF IdleOwned
  <1>15. work'.err # "failed" => Settled(p)'
    <2>1. CASE work.err = "none"
      BY <1>8, <1>14, <2>1 DEF Join
    <2>2. CASE work.err = "missing"
      <3>1. Settled(p)
        BY <1>1, <1>2, <1>6, <2>2 DEF OwnersOK
      <3> QED
        BY <1>1, <1>10, <3>1, SettledStays
    <2>3. CASE work.err = "failed"
      BY <1>8, <2>3 DEF Join
    <2> QED
      BY <1>2, <2>1, <2>2, <2>3 DEF Work
  <1>16. Settled(work.pod)' <=> Settled(p)'
    BY <1>6, <1>9 DEF Settled, IdleOwned, Touched
  <1>17. OwnersOK'
    BY <1>1, <1>2, <1>6, <1>8, <1>9, <1>13, <1>15, <1>16 DEF OwnersOK
  <1>18. SamePass
    BY <1>1, <1>8, <1>9, <1>10 DEF SamePass
  <1> QED
    BY <1>1, <1>9, <1>17, <1>18

LEMMA IdleOwnerTime ==
  ASSUME NoServingRuntime, TimeInv, IndInv', IdleOwner PROVE TimeInv'
  BY IdleOwnerStep, SamePassTime

(* A pod is done: deleted, or its owners are idled.                        *)
LEMMA KilledFields ==
  ASSUME work \in Work, work.pod \in Pods
  PROVE  /\ Killed.list = work.list /\ Killed.todo = work.todo \ {work.pod}
         /\ Killed.tried = work.tried /\ Killed.failed = work.failed
         /\ Killed.after = IF Restarting(work.pod) THEN work.after
                           ELSE shorterDuration(work.after,
                                    Percent(5, getTimeout(work.copy.timeout, work.pod)))
  <1> DEFINE after == IF Restarting(work.pod) THEN work.after
                      ELSE shorterDuration(work.after,
                               Percent(5, getTimeout(work.copy.timeout, work.pod)))
  <1>1. Killed = [work EXCEPT !.todo = work.todo \ {work.pod}, !.after = after]
    BY DEF Killed
  <1> HIDE DEF after
  <1>2. /\ Killed.list = work.list /\ Killed.todo = work.todo \ {work.pod}
        /\ Killed.tried = work.tried /\ Killed.failed = work.failed
        /\ Killed.after = after
    BY <1>1 DEF Work
  <1> QED
    BY <1>2 DEF after

KilledStep ==
    /\ pc \in {"owners", "notify", "record"} /\ pc' = "pods"
    /\ UNCHANGED <<now, icache, owners, pending>> /\ \A p \in Pods : PodKept(p)
    /\ work'.copy.timeout = Killed.copy.timeout /\ work'.list = Killed.list
    /\ work'.todo = Killed.todo /\ work'.tried = Killed.tried
    /\ work'.failed = Killed.failed /\ work'.after = Killed.after
    /\ Settled(work.pod) \/ pods'[work.pod].deleted \/ pending

LEMMA KilledLoop ==
  ASSUME LongTimeouts, TimeInv, IndInv', KilledStep
  PROVE  /\ LoopStep /\ work'.todo = work.todo \ {work.pod}
         /\ ~ pending /\ ~ Restarting(work.pod) =>
                work'.after <= Percent(5, getTimeout(work.copy.timeout, work.pod))
  <1>1. /\ pc # "rest" /\ pc \in {"pods", "owners", "notify", "record"} /\ pc' = "pods"
        /\ now' = now /\ icache' = icache /\ pending' = pending /\ UNCHANGED owners
    BY DEF KilledStep
  <1>2. /\ TypeOK /\ LoopOK /\ OwnersOK
        /\ work \in Work /\ work.copy.timeout \in Timeouts
        /\ work.copy.timeout \in Int /\ work.after \in Int /\ now \in Int
        /\ work.copy.timeout > 0
        /\ ~ pending => work.after > 0 /\ work.after <= work.copy.timeout
        /\ work.pod \in Pods /\ work.pod \in work.todo
    BY <1>1, InLoop DEF KilledStep
  <1>3. PICK p \in Pods : p = work.pod
    BY <1>2
  <1> DEFINE soon == Percent(5, getTimeout(work.copy.timeout, p))
  <1>4. soon \in Int /\ soon > 0
    BY <1>2, LongEnough
  <1>5. work.after >= 0
    BY <1>1 DEF TimeInv, IndInv, WorkOK, KilledStep
  <1>6. /\ work'.copy.timeout = work.copy.timeout /\ work'.list = work.list
        /\ work'.todo = work.todo \ {p} /\ work'.tried = work.tried
        /\ work'.failed = work.failed
        /\ work'.after = IF Restarting(p) THEN work.after ELSE shorterDuration(work.after, soon)
    <2>1. Killed.copy = work.copy
      BY <1>2, <1>5, Kills
    <2> QED
      BY <1>2, <1>3, <2>1, KilledFields DEF KilledStep
  <1> HIDE DEF soon
  <1>7. work'.after \in Int /\ work'.after <= work.after
    <2>1. shorterDuration(work.after, soon) \in Int /\ shorterDuration(work.after, soon) <= work.after
      BY <1>2, <1>4, <1>5 DEF shorterDuration
    <2> QED
      BY <1>2, <1>6, <2>1
  <1>8. ~ pending => work'.after > 0 /\ (~ Restarting(p) => work'.after <= soon)
    <2> SUFFICES ASSUME ~ pending
                 PROVE  work'.after > 0 /\ (~ Restarting(p) => work'.after <= soon)
      OBVIOUS
    <2>1. shorterDuration(work.after, soon) > 0 /\ shorterDuration(work.after, soon) <= soon
      BY <1>2, <1>4, Shorter
    <2> QED
      BY <1>2, <1>6, <2>1
  <1>9. ASSUME ~ pending, ~ work'.failed, Aged(p)'
        PROVE  InTime(work.copy.timeout, p, now + work.after)'
    <2>1. work.list[p].loops = pods[p].loops /\ work.tried = {}
      BY <1>1, <1>2, <1>3, <1>6, <1>9 DEF LoopOK
    <2>2. Restarting(p) <=> pods'[p].loops
      BY <2>1 DEF Restarting, restartThresholdExceeded, KilledStep, PodKept
    <2>3. NextCheck(work.copy.timeout, p)' = IF pods'[p].loops THEN work.copy.timeout ELSE soon
      BY <1>6 DEF NextCheck, soon
    <2>4. PICK y \in Int : y = NextCheck(work.copy.timeout, p)'
      BY <1>2, <1>4, <2>3
    <2>5. work'.after <= y
      <3>1. CASE pods'[p].loops
        BY <1>2, <1>7, <1>9, <2>3, <2>4, <3>1
      <3>2. CASE ~ pods'[p].loops
        BY <1>8, <1>9, <2>2, <2>3, <2>4, <3>2
      <3> QED
        BY <3>1, <3>2
    <2>6. Settled(p)'
      <3>1. Settled(p)
        BY <1>3, <1>9 DEF KilledStep, Aged
      <3> QED
        BY <1>1, <3>1, SameOwners, SettledStays
    <2>7. Touched(p)' \in Nat
      <3>1. TouchedOK'
        BY TouchedLast, PTL DEF IndInv
      <3> QED
        BY <3>1 DEF TouchedOK
    <2>8. now' + work'.after <= now' + y
      BY <1>1, <1>2, <1>7, <2>5
    <2>9. IdleOwned(p)' \/ now' + work'.after <= Touched(p)' + y + 1
      <3>1. IdleOwned(p)' \/ Touched(p)' >= now'
        BY <2>6 DEF Settled
      <3> QED
        BY <1>1, <1>2, <1>7, <2>5, <2>7, <3>1
    <2> QED
      BY <2>4, <2>8, <2>9 DEF InTime
  <1>10. \A q \in Pods : OwnersKept(q) /\ PodKept(q)
    BY <1>1, SameOwners DEF KilledStep
  <1>11. LoopStep
    BY <1>1, <1>6, <1>7, <1>8, <1>9, <1>10 DEF LoopStep
  <1> QED
    BY <1>3, <1>6, <1>8, <1>11 DEF soon

LEMMA KilledTime ==
  ASSUME LongTimeouts, TimeInv, IndInv', KilledStep PROVE TimeInv'
  <1>1. LoopStep /\ pc' = "pods" /\ work.copy.timeout > 0
    BY KilledLoop, InLoop DEF KilledStep
  <1>2. LoopOK'
    BY <1>1, LoopStays
  <1>3. RestOK' /\ OwnersOK'
    BY <1>1 DEF RestOK, OwnersOK, LoopStep
  <1> QED
    BY <1>2, <1>3 DEF TimeInv

(* A failure: the request will be put back into the queue.                 *)
FailedStep ==
    /\ pc \in {"pods", "owners"} /\ pc' = "pods"
    /\ UNCHANGED <<now, icache, owners, pods, pending>>
    /\ work'.copy = work.copy /\ work'.list = work.list
    /\ work'.todo \subseteq work.todo /\ work'.after = work.after /\ work'.failed = TRUE

LEMMA FailedLoop ==
  ASSUME TimeInv, FailedStep PROVE LoopStep
  <1>1. /\ pc # "rest" /\ pc \in {"pods", "owners", "notify", "record"} /\ pc' = "pods"
        /\ UNCHANGED pods /\ UNCHANGED owners
    BY DEF FailedStep
  <1>2. /\ work.after \in Int /\ work.copy.timeout > 0
        /\ ~ pending => work.after > 0
    BY <1>1, InLoop
  <1>3. work'.after <= work.after
    BY <1>2 DEF FailedStep
  <1>4. \A p \in Pods : OwnersKept(p) /\ PodKept(p)
    BY <1>1, SameOwners, SamePods
  <1> QED
    BY <1>1, <1>2, <1>3, <1>4 DEF FailedStep, LoopStep

LEMMA FailedTime ==
  ASSUME TimeInv, IndInv', FailedStep PROVE TimeInv'
  <1>1. LoopStep /\ pc' = "pods" /\ work.copy.timeout > 0
    BY FailedLoop, InLoop DEF FailedStep
  <1>2. LoopOK'
    BY <1>1, LoopStays
  <1>3. RestOK' /\ OwnersOK'
    BY <1>1 DEF RestOK, OwnersOK, LoopStep
  <1> QED
    BY <1>2, <1>3 DEF TimeInv

LEMMA NotKilledFields ==
  ASSUME work \in Work, work.pod \in Pods
  PROVE  /\ NotKilled.copy = work.copy /\ NotKilled.list = work.list
         /\ NotKilled.todo \subseteq work.todo /\ NotKilled.after = work.after
         /\ NotKilled.failed = TRUE
  BY DEF NotKilled, Work

LEMMA ListFailsStep ==
  ASSUME TimeInv, ListFails PROVE FailedStep
  <1>1. /\ pc = "pods" /\ pc' = "pods"
        /\ UNCHANGED <<now, icache, owners, pods, pending>>
        /\ work' = [work EXCEPT !.todo = {}, !.failed = TRUE]
    BY DEF ListFails
  <1>2. work \in Work
    BY <1>1, InLoop
  <1> QED
    BY <1>1, <1>2 DEF FailedStep, Work

LEMMA OwnersFailedStep ==
  ASSUME TimeInv, OwnersFailed
  PROVE  \/ FailedStep
         \/ KilledStep /\ pc = "owners" /\ work.err = "missing" /\ UNCHANGED pods
  <1>1. /\ pc = "owners" /\ pc' = "pods" /\ work.err # "none"
        /\ UNCHANGED <<now, icache, owners, pending>> /\ UNCHANGED pods
    BY DEF OwnersFailed, OwnersDone
  <1>2. work \in Work /\ work.pod \in Pods /\ OwnersOK
    BY <1>1, InLoop
  <1>3. CASE work.err = "missing"
    <2>1. work' = Killed
      BY <1>3 DEF OwnersFailed
    <2>2. Settled(work.pod)
      BY <1>1, <1>2, <1>3 DEF OwnersOK
    <2>3. \A p \in Pods : PodKept(p)
      BY <1>1, SamePods
    <2> QED
      BY <1>1, <1>3, <2>1, <2>2, <2>3 DEF KilledStep
  <1>4. CASE work.err # "missing"
    <2>1. work' = NotKilled
      BY <1>4 DEF OwnersFailed
    <2> QED
      BY <1>1, <1>2, <2>1, NotKilledFields DEF FailedStep
  <1> QED
    BY <1>3, <1>4

(* A pod is left to its owners only if one of them was tried.              *)
LEMMA DeletePodStep ==
  ASSUME TimeInv, DeletePod
  PROVE  /\ pc = "owners" /\ work.err = "none" /\ UNCHANGED owners
         /\ \/ FailedStep
            \/ KilledStep /\ pods'[work.pod].deleted
            \/ /\ SamePass /\ OwnersOK' /\ pc' = "notify" /\ work' = work
               /\ pods'[work.pod].deleted \/ (Managed /\ UNCHANGED pods)
  <1>1. /\ pc = "owners" /\ work.err = "none"
        /\ UNCHANGED <<now, icache, owners, pending>>
    BY DEF DeletePod, OwnersDone
  <1>2. /\ TypeOK /\ work \in Work /\ work.pod \in Pods /\ OwnersOK
        /\ work.copy.timeout > 0 /\ work.pod \in work.todo
    BY <1>1, InLoop
  <1>3. PICK p \in Pods : p = work.pod
    BY <1>2
  <1>4. \/ /\ pods' = [pods EXCEPT ![p].deleted = TRUE]
           /\ (pc' = "notify" /\ work' = work) \/ (pc' = "pods" /\ work' = Killed)
        \/ work' = NotKilled /\ pc' = "pods" /\ UNCHANGED pods
        \/ Managed /\ pc' = "notify" /\ work' = work /\ UNCHANGED pods
    BY <1>3 DEF DeletePod
  <1>5. CASE work' = NotKilled /\ pc' = "pods" /\ UNCHANGED pods
    <2>1. FailedStep
      BY <1>1, <1>2, <1>5, NotKilledFields DEF FailedStep
    <2> QED
      BY <1>1, <2>1
  <1>6. CASE /\ pods' = [pods EXCEPT ![p].deleted = TRUE]
             /\ (pc' = "notify" /\ work' = work) \/ (pc' = "pods" /\ work' = Killed)
    <2>1. pods \in [Pods -> Pod]
      BY <1>2 DEF TypeOK
    <2>2. pods'[p] = [pods[p] EXCEPT !.deleted = TRUE] /\ pods[p] \in Pod
      BY <1>6, <2>1
    <2>3. /\ pods'[p].phase = pods[p].phase /\ pods'[p].start = pods[p].start
          /\ pods'[p].loops = pods[p].loops /\ pods'[p].unseen = pods[p].unseen
          /\ pods'[p].deleted
      BY <2>2 DEF Pod
    <2>4. ASSUME NEW q \in Pods PROVE PodKept(q)
      <3>1. CASE q = p
        BY <2>3, <3>1 DEF PodKept, Started, Present
      <3>2. CASE q # p
        <4>1. pods'[q] = pods[q]
          BY <1>6, <2>1, <3>2
        <4> QED
          BY <4>1 DEF PodKept, Present
      <3> QED
        BY <3>1, <3>2
    <2>5. CASE pc' = "pods" /\ work' = Killed
      <3>1. KilledStep
        BY <1>1, <1>3, <2>3, <2>4, <2>5 DEF KilledStep
      <3> QED
        BY <1>1, <1>3, <2>3, <3>1
    <2>6. CASE pc' = "notify" /\ work' = work
      <3>1. OwnersOK'
        BY <1>2, <1>3, <2>3, <2>6 DEF OwnersOK
      <3>2. \A q \in Pods : OwnersKept(q)
        BY <1>1, SameOwners
      <3>3. SamePass
        BY <1>1, <2>4, <2>6, <3>2 DEF SamePass
      <3> QED
        BY <1>1, <1>3, <2>3, <2>6, <3>1, <3>3
    <2> QED
      BY <1>6, <2>5, <2>6
  <1>7. CASE Managed /\ pc' = "notify" /\ work' = work /\ UNCHANGED pods
    <2>1. Settled(work.pod)
      BY <1>1, <1>2, <1>7 DEF Managed, OwnersOK
    <2>2. Settled(work.pod)'
      BY <1>1, <1>7, <2>1 DEF Settled, IdleOwned, Touched
    <2>3. OwnersOK'
      BY <1>2, <1>7, <2>2 DEF OwnersOK
    <2>4. \A q \in Pods : OwnersKept(q) /\ PodKept(q)
      BY <1>1, <1>7, SameOwners, SamePods
    <2>5. SamePass
      BY <1>1, <1>7, <2>4 DEF SamePass
    <2> QED
      BY <1>1, <1>7, <2>3, <2>5
  <1> QED
    BY <1>4, <1>5, <1>6, <1>7

(* Telling the user does not delay the next check.                         *)
LEMMA NotedFields ==
  ASSUME work \in Work, work.pod \in Pods, work.after >= 0, NEW note \in Notes, Noted(note)
  PROVE  /\ work'.copy.timeout = Killed.copy.timeout /\ work'.list = Killed.list
         /\ work'.todo = Killed.todo /\ work'.tried = Killed.tried
         /\ work'.failed = Killed.failed /\ work'.after = Killed.after /\ pc' = "pods"
  <1>1. Killed \in Work
    BY Kills
  <1>2. work' = [Killed EXCEPT !.copy.note = note] /\ pc' = "pods"
    BY DEF Noted
  <1>3. Killed.copy \in IdlerObject
    BY <1>1 DEF Work
  <1>4. work'.copy = [Killed.copy EXCEPT !.note = note]
    BY <1>1, <1>2 DEF Work
  <1>5. work'.copy.timeout = Killed.copy.timeout
    BY <1>3, <1>4 DEF IdlerObject
  <1> QED
    BY <1>1, <1>2, <1>5 DEF Work

LEMMA NotificationStep ==
  ASSUME TimeInv, (\E n \in EmailCounts : CreateNotification(n)) \/ RecordNotification
  PROVE  /\ pc \in {"notify", "record"} /\ UNCHANGED owners /\ UNCHANGED pods
         /\ \/ KilledStep
            \/ SamePass /\ OwnersOK' /\ pc' = "record" /\ work' = work
  <1>1. /\ pc \in {"notify", "record"}
        /\ UNCHANGED <<now, icache, owners, pending>> /\ UNCHANGED pods
    BY DEF CreateNotification, RecordNotification
  <1>2. /\ work \in Work /\ work.pod \in Pods /\ work.after >= 0
        /\ OwnersOK /\ work.copy.timeout > 0 /\ work.pod \in work.todo
    BY <1>1, InLoop DEF TimeInv, IndInv, WorkOK
  <1>3. \A q \in Pods : OwnersKept(q) /\ PodKept(q)
    BY <1>1, SameOwners, SamePods
  <1>4. Settled(work.pod) \/ pods[work.pod].deleted \/ pending
    BY <1>1, <1>2 DEF OwnersOK
  <1>5. \/ work' = Killed /\ pc' = "pods"
        \/ \E note \in Notes : Noted(note)
        \/ pc' = "record" /\ work' = work
    BY DEF CreateNotification, RecordNotification, Notes
  <1>6. CASE (work' = Killed /\ pc' = "pods") \/ \E note \in Notes : Noted(note)
    <2>1. /\ work'.copy.timeout = Killed.copy.timeout /\ work'.list = Killed.list
          /\ work'.todo = Killed.todo /\ work'.tried = Killed.tried
          /\ work'.failed = Killed.failed /\ work'.after = Killed.after /\ pc' = "pods"
      BY <1>2, <1>6, NotedFields
    <2>2. KilledStep
      BY <1>1, <1>3, <1>4, <2>1 DEF KilledStep
    <2> QED
      BY <1>1, <2>2
  <1>7. CASE pc' = "record" /\ work' = work
    <2>1. Settled(work.pod)' <=> Settled(work.pod)
      BY <1>1, <1>7 DEF Settled, IdleOwned, Touched
    <2>2. OwnersOK'
      BY <1>1, <1>2, <1>4, <1>7, <2>1 DEF OwnersOK
    <2>3. SamePass
      BY <1>1, <1>3, <1>7 DEF SamePass
    <2> QED
      BY <1>1, <1>7, <2>2, <2>3
  <1> QED
    BY <1>5, <1>6, <1>7

LEMMA EndPodsLoop ==
  ASSUME TimeInv, EndPods
  PROVE  LoopStep /\ pc' = "status" /\ work'.todo = work.todo
  <1>1. /\ pc = "pods" /\ pc' = "status" /\ work.todo = {}
        /\ UNCHANGED <<now, icache, owners, pending>> /\ UNCHANGED pods
        /\ work' = [work EXCEPT !.reason =
                        IF work.failed THEN "UnableToEnsureIdling" ELSE "Running"]
    BY DEF EndPods
  <1>2. work \in Work /\ work.after \in Int /\ (~ pending => work.after > 0)
    BY <1>1, InLoop
  <1>3. /\ work'.copy = work.copy /\ work'.list = work.list /\ work'.todo = work.todo
        /\ work'.after = work.after /\ work'.failed = work.failed
        /\ work'.tried = work.tried /\ (~ work.failed => work'.reason = "Running")
    BY <1>1, <1>2 DEF Work
  <1>4. \A q \in Pods : OwnersKept(q) /\ PodKept(q)
    BY <1>1, SameOwners, SamePods
  <1>5. work'.after <= work.after
    BY <1>2, <1>3
  <1>6. LoopStep
    BY <1>1, <1>2, <1>3, <1>4, <1>5 DEF LoopStep
  <1> QED
    BY <1>1, <1>3, <1>6

LEMMA EndPodsTime ==
  ASSUME TimeInv, IndInv', EndPods PROVE TimeInv'
  <1>1. LoopStep /\ pc' = "status"
    BY EndPodsLoop
  <1>2. LoopOK'
    BY <1>1, LoopStays
  <1>3. RestOK' /\ OwnersOK'
    BY <1>1 DEF RestOK, OwnersOK
  <1> QED
    BY <1>2, <1>3 DEF TimeInv

(* The check that is asked for, or an earlier one, is due.                 *)
LEMMA SetStatusTime ==
  ASSUME TimeInv, IndInv', SetStatus PROVE TimeInv'
  <1>1. /\ pc = "status" /\ pc' = "rest" /\ now' = now /\ icache' = icache
        /\ UNCHANGED pods /\ UNCHANGED owners
    BY DEF SetStatus
  <1>2. LoopOK' /\ OwnersOK'
    BY <1>1 DEF LoopOK, OwnersOK
  <1>3. /\ TypeOK /\ TypeOK' /\ LoopOK /\ work \in Work
    BY <1>1 DEF TimeInv, IndInv, WorkOK
  <1>4. ASSUME ~ pending', icache'.timeout > 0 PROVE RestOK'
    <2>1. ~ pending /\ ~ work.failed
      BY <1>4 DEF SetStatus
    <2>2. /\ work.copy.timeout = icache.timeout /\ work.after > 0
          /\ work.after <= work.copy.timeout /\ work.reason = "Running" /\ work.todo = {}
          /\ \A p \in Pods : Aged(p) => InTime(work.copy.timeout, p, now + work.after)
      BY <1>1, <1>3, <1>4, <2>1 DEF LoopOK
    <2>3. AddAfter(work.after)
      BY <1>4, <2>1, <2>2 DEF SetStatus
    <2>4. /\ work.copy.timeout \in Int /\ work.after \in Int /\ now \in Nat
          /\ due \in Nat \cup {NotScheduled}
      BY <1>3, WorkNumbers DEF TypeOK
    <2>5. due' # NotScheduled /\ due' <= now + work.after /\ due' \in Int
      BY <2>2, <2>3, <2>4 DEF AddAfter, NotScheduled
    <2>6. due' <= now' + icache'.timeout
      BY <1>1, <2>2, <2>4, <2>5
    <2>7. ASSUME NEW p \in Pods, Aged(p)' PROVE InTime(icache.timeout, p, due)'
      <3>1. PICK t \in Int : t = work.copy.timeout
        BY <2>4
      <3>2. PICK a \in Int : a = now + work.after
        BY <2>4
      <3>3. PICK b \in Int : b = due'
        BY <2>5
      <3>4. OwnersKept(p) /\ PodKept(p)
        BY <1>1, SameOwners, SamePods
      <3>5. b <= a /\ a <= now + t /\ now' >= now
        BY <1>1, <2>2, <2>4, <2>5, <3>1, <3>2, <3>3
      <3>6. Aged(p) => InTime(t, p, a)
        BY <2>2, <3>1, <3>2
      <3>7. InTime(t, p, b)'
        BY <1>3, <2>7, <3>4, <3>5, <3>6, StillInTime
      <3> QED
        BY <1>1, <2>2, <3>1, <3>3, <3>7 DEF InTime, FirstCheck, NextCheck
    <2> QED
      BY <2>5, <2>6, <2>7 DEF RestOK
  <1>5. RestOK'
    BY <1>4 DEF RestOK
  <1> QED
    BY <1>2, <1>5 DEF TimeInv

LEMMA ReconcileTime ==
  ASSUME LongTimeouts, NoServingRuntime, TimeInv, IndInv', Reconcile PROVE TimeInv'
  <1> DEFINE Kill == OwnersFailed \/ DeletePod \/ RecordNotification
                        \/ (\E n \in EmailCounts : CreateNotification(n))
  <1>1. ASSUME NEW p \in Pods, NEW n \in 0..Len(Chain[p]), FetchOwners(p, n) PROVE TimeInv'
    <2>1. n \in Nat
      BY IdlerAssumption
    <2> QED
      BY <1>1, <2>1, FetchOwnersTime
  <1>2. ASSUME Kill PROVE TimeInv'
    <2>1. \/ FailedStep \/ KilledStep
          \/ pc \in {"pods", "owners", "notify", "record"} /\ SamePass /\ OwnersOK'
      BY <1>2, OwnersFailedStep, DeletePodStep, NotificationStep
    <2> QED
      BY <2>1, FailedTime, KilledTime, SamePassTime
  <1>3. ASSUME ListFails PROVE TimeInv'
    BY <1>3, ListFailsStep, FailedTime
  <1> QED
    BY <1>1, <1>2, <1>3, StartReconcileTime, EndPodsTime, SetStatusTime, PassPodTime,
       SkipOwnerTime, IdleOwnerTime
    DEF Reconcile

LEMMA NextTime ==
  ASSUME LongTimeouts, NoServingRuntime
  PROVE  TimeInv /\ [Next]_vars => TimeInv'
  <1> SUFFICES ASSUME TimeInv, [Next]_vars PROVE TimeInv'
    OBVIOUS
  <1>1. IndInv'
    BY NextInv DEF TimeInv
  <1>2. CASE Next
    BY <1>1, <1>2, ReconcileTime, EnvironmentTime DEF Next
  <1>3. CASE UNCHANGED vars
    <2>1. /\ UNCHANGED <<pc, work, now, icache, due, pending>>
          /\ UNCHANGED owners /\ UNCHANGED pods
      BY <1>3 DEF vars
    <2>2. \A p \in Pods : OwnersKept(p) /\ PodKept(p)
      BY <2>1, SameOwners, SamePods
    <2>3. now' >= now
      BY <2>1 DEF TimeInv, IndInv, TypeOK
    <2>4. Quiet
      BY <2>1, <2>2, <2>3 DEF Quiet
    <2> QED
      BY <1>1, <2>4, QuietInv
  <1> QED
    BY <1>2, <1>3

LEMMA InitTime == Init => TimeInv
  <1> SUFFICES ASSUME Init PROVE TimeInv
    OBVIOUS
  <1>1. IndInv
    BY InitInv
  <1>2. pc = "rest" /\ pending = TRUE
    BY DEF Init
  <1> QED
    BY <1>1, <1>2 DEF TimeInv, RestOK, LoopOK, OwnersOK

LEMMA TimeIdles == TimeInv => IdledInTime
  <1> SUFFICES ASSUME TimeInv, AtRest, NEW p \in Pods, Ageing(p),
                      now > Later(pods[p].start + (IF pods[p].unseen THEN idler.timeout ELSE Timeout(p)),
                                  Touched(p) + (IF pods[p].loops THEN idler.timeout ELSE Again(p)))
               PROVE  IdleOwned(p)
    BY DEF IdledInTime, IdleOwned
  <1>1. /\ pc = "rest" /\ ~ pending /\ icache = idler /\ idler.timeout > 0
        /\ Aged(p) /\ ~ (due # NotScheduled /\ now >= due)
    BY DEF AtRest, Ageing, Aged
  <1>2. due # NotScheduled /\ InTime(idler.timeout, p, due)
    BY <1>1 DEF TimeInv, RestOK
  <1>3. /\ TypeOK /\ now \in Int /\ due \in Int /\ pods[p] \in Pod /\ idler \in IdlerObject
    BY <1>2 DEF TimeInv, IndInv, TypeOK
  <1>4. idler.timeout \in Int
    BY <1>3, IdlerAssumption DEF IdlerObject
  <1>5. pods[p].start \in Int /\ Touched(p) \in Int
    BY <1>3, TouchedLast DEF Pod, TouchedOK
  <1> DEFINE first == FirstCheck(idler.timeout, p)
             again == NextCheck(idler.timeout, p)
  <1>6. first \in Int /\ again \in Int
    BY <1>4, TimeoutType DEF FirstCheck, NextCheck
  <1>7. now > Later(pods[p].start + first, Touched(p) + again)
    BY DEF FirstCheck, NextCheck, Timeout, Again
  <1>8. \/ due <= pods[p].start + first + 1
        \/ IdleOwned(p) \/ due <= Touched(p) + again + 1
    BY <1>2 DEF InTime
  <1> HIDE DEF first, again
  <1>9. now > pods[p].start + first /\ now > Touched(p) + again
    BY <1>3, <1>5, <1>6, <1>7 DEF Later
  <1>10. now < due
    BY <1>1, <1>2, <1>3
  <1> QED
    BY <1>3, <1>5, <1>6, <1>8, <1>9, <1>10

(* TimeInv is an invariant: at every place of Reconcile, and whatever the  *)
(* host, the users and the watch do meanwhile, the check that is or will   *)
(* be asked for (idler_controller.go:186) comes in time for every pod that *)
(* is not on the list any more, and the list is right about the others, or *)
(* a request is waiting.                                                   *)
THEOREM TimeInvariance ==
  ASSUME LongTimeouts, NoServingRuntime
  PROVE  Spec => []TimeInv
  BY InitTime, NextTime, PTL DEF Spec

(* No pod outlives its timeout unnoticed: whenever the operator has        *)
(* nothing to do, a pod that is too old was deleted or an owner of it was  *)
(* idled, whatever calls fail and whenever the operator is restarted, for  *)
(* timeouts of which 5% is not zero and owners of every kind but           *)
(* ServingRuntime (owners.go:46, idler_controller.go:186).                 *)
THEOREM InTimeIdled ==
  ASSUME LongTimeouts, NoServingRuntime
  PROVE  Spec => []IdledInTime
  BY TimeInvariance, TimeIdles, PTL

-----------------------------------------------------------------------------
(* The second owner is idled and the pod deleted in time.                  *)

(* How many owners were idled by deleting them.                            *)
ClearedAt(p) == {i \in DOMAIN Chain[p] :
                    /\ Kind[Chain[p][i]] \in DeletedKinds
                    /\ owners[Chain[p][i]].state \in {"deleting", "gone"}}

LEMMA Counted ==
  ASSUME NEW p \in Pods, NEW S, S \subseteq DOMAIN Chain[p]
  PROVE  IsFiniteSet(S) /\ Cardinality(S) \in Nat
  <1>1. DOMAIN Chain[p] = 1..Len(Chain[p]) /\ Len(Chain[p]) \in Nat
    BY IdlerAssumption
  <1>2. IsFiniteSet(DOMAIN Chain[p])
    BY <1>1, FS_Interval
  <1>3. IsFiniteSet(S)
    BY <1>2, FS_Subset
  <1> QED
    BY <1>3, FS_CardinalityType

LEMMA MoreCleared ==
  ASSUME NEW p \in Pods, ClearedAt(p) \subseteq ClearedAt(p)'
  PROVE  /\ Cleared(p) \in Nat /\ Cleared(p)' \in Nat /\ Cleared(p) <= Cleared(p)'
         /\ ClearedAt(p) # ClearedAt(p)' => Cleared(p) + 1 <= Cleared(p)'
  <1>1. PICK S : S = ClearedAt(p)
    OBVIOUS
  <1>2. PICK T : T = ClearedAt(p)'
    OBVIOUS
  <1>3. S \subseteq DOMAIN Chain[p] /\ T \subseteq DOMAIN Chain[p] /\ S \subseteq T
    BY <1>1, <1>2 DEF ClearedAt
  <1>4. Cleared(p) = Cardinality(S) /\ Cleared(p)' = Cardinality(T)
    BY <1>1, <1>2 DEF Cleared, ClearedAt
  <1>5. /\ IsFiniteSet(T) /\ Cardinality(T) \in Nat /\ Cardinality(S) \in Nat
    BY <1>3, Counted
  <1>6. Cardinality(S) <= Cardinality(T) /\ (Cardinality(T) = Cardinality(S) => T = S)
    BY <1>3, <1>5, FS_Subset
  <1>7. S # T => Cardinality(S) + 1 <= Cardinality(T)
    BY <1>5, <1>6
  <1> QED
    BY <1>1, <1>2, <1>4, <1>5, <1>6, <1>7

(* A check later, for every reason to grant one.                           *)
LEMMA Products ==
  ASSUME NEW a \in Int, a > 0, NEW j \in Nat, NEW k \in Nat, j <= k
  PROVE  /\ (1 + j) * a \in Int /\ (1 + j) * a >= a
         /\ (1 + k) * a >= (1 + j) * a
         /\ j + 1 <= k => (1 + k) * a >= (1 + j) * a + a
  <1>1. j * a \in Int /\ j * a >= 0 /\ (1 + j) * a = a + j * a
    OBVIOUS
  <1>2. (1 + k) * a = (1 + j) * a + (k - j) * a
    OBVIOUS
  <1>3. (k - j) * a \in Int /\ (k - j) * a >= 0
    OBVIOUS
  <1>4. j + 1 <= k => (k - j) * a >= a
    <2> SUFFICES ASSUME j + 1 <= k PROVE (k - j) * a >= a
      OBVIOUS
    <2>1. PICK d \in Nat : k = j + 1 + d
      <3>1. k - j - 1 \in Nat /\ k = j + 1 + (k - j - 1)
        OBVIOUS
      <3> QED
        BY <3>1
    <2>2. (k - j) * a = a + d * a
      <3>1. k - j = 1 + d
        BY <2>1
      <3> QED
        BY <3>1
    <2>3. d * a \in Int /\ d * a >= 0
      OBVIOUS
    <2> QED
      BY <2>2, <2>3
  <1>5. (1 + j) * a \in Int
    OBVIOUS
  <1> QED
    BY <1>1, <1>2, <1>3, <1>4, <1>5

LEMMA Percentages ==
  ASSUME NEW g \in Int, g > 0, NEW n \in {105, 110}
  PROVE  Percent(n, g) \in Int /\ Percent(n, g) >= g /\ Percent(110, g) >= Percent(105, g)
  <1>1. Percent(105, g) \in Int /\ Percent(105, g) >= g
    BY DEF Percent
  <1>2. Percent(110, g) \in Int /\ Percent(110, g) >= Percent(105, g)
    BY DEF Percent
  <1> QED
    BY <1>1, <1>2

(* What the deadlines are made of.                                         *)
TimesOK ==
    \A p \in Pods :
        /\ pods[p].start \in Nat /\ Disturbed(p) \in Nat /\ Cleared(p) \in Nat
        /\ Disturbed(p) >= Touched(p) /\ Disturbed(p) >= retimed

LEMMA Times == TypeOK => TimesOK
  <1> SUFFICES ASSUME TypeOK, NEW p \in Pods
               PROVE  /\ pods[p].start \in Nat /\ Disturbed(p) \in Nat /\ Cleared(p) \in Nat
                      /\ Disturbed(p) >= Touched(p) /\ Disturbed(p) >= retimed
    BY DEF TimesOK
  <1>1. pods[p].start \in Nat
    <2>1. pods[p].start \in 0..MaxNow
      BY DEF TypeOK, Pod
    <2> QED
      BY <2>1, IdlerAssumption
  <1>2. Touched(p) \in Nat
    BY TouchedLast DEF TouchedOK
  <1>3. retimed \in Nat
    <2>1. retimed \in 0..MaxNow
      BY DEF TypeOK
    <2> QED
      BY <2>1, IdlerAssumption
  <1>4. /\ Disturbed(p) \in Nat
        /\ Disturbed(p) >= Touched(p) /\ Disturbed(p) >= retimed
    BY <1>2, <1>3 DEF Disturbed, Later
  <1>5. Cleared(p) \in Nat
    <2>1. ClearedAt(p) \subseteq DOMAIN Chain[p] /\ Cleared(p) = Cardinality(ClearedAt(p))
      BY DEF ClearedAt, Cleared
    <2> QED
      BY <2>1, Counted
  <1> QED
    BY <1>1, <1>4, <1>5

(* A deadline leaves time for one check more.                              *)
DeadlinesOK ==
    \A t \in Timeouts, p \in Pods, n \in {105, 110} : t > 0 =>
        LET again == Percent(5, getTimeout(t, p))
            age == Percent(n, getTimeout(t, p))
        IN  /\ Deadline(t, p, n) \in Int
            /\ Deadline(t, p, n) >= pods[p].start + age + again
            /\ Deadline(t, p, n) >= Disturbed(p) + again

LEMMA Deadlines ==
  ASSUME LongTimeouts PROVE TypeOK => DeadlinesOK
  <1> SUFFICES ASSUME TypeOK, NEW t \in Timeouts, NEW p \in Pods, NEW n \in {105, 110}, t > 0
               PROVE  LET again == Percent(5, getTimeout(t, p))
                          age == Percent(n, getTimeout(t, p))
                      IN  /\ Deadline(t, p, n) \in Int
                          /\ Deadline(t, p, n) >= pods[p].start + age + again
                          /\ Deadline(t, p, n) >= Disturbed(p) + again
    BY DEF DeadlinesOK
  <1>1. PICK g \in Int : g = getTimeout(t, p) /\ g > 0
    BY LongEnough
  <1>2. PICK a \in Int : a = Percent(5, g) /\ a > 0
    BY <1>1, LongEnough
  <1>3. PICK age \in Int : age = Percent(n, g)
    BY <1>1, Percentages
  <1>4. /\ pods[p].start \in Nat /\ Disturbed(p) \in Nat /\ Cleared(p) \in Nat
    BY Times DEF TimesOK
  <1>5. faults \in Nat
    <2>1. faults \in 0..MaxFaults
      BY DEF TypeOK
    <2> QED
      BY <2>1, IdlerAssumption
  <1>6. PICK k \in Nat : k = faults + Cleared(p)
    BY <1>4, <1>5
  <1>7. (1 + k) * a \in Int /\ (1 + k) * a >= a
    BY <1>2, Products
  <1>8. Deadline(t, p, n) = Later(pods[p].start + age, Disturbed(p)) + (1 + k) * a
    <2>1. 1 + faults + Cleared(p) = 1 + k
      BY <1>4, <1>5, <1>6
    <2> QED
      BY <1>1, <1>2, <1>3, <2>1 DEF Deadline
  <1>9. /\ Later(pods[p].start + age, Disturbed(p)) \in Int
        /\ Later(pods[p].start + age, Disturbed(p)) >= pods[p].start + age
        /\ Later(pods[p].start + age, Disturbed(p)) >= Disturbed(p)
    BY <1>3, <1>4 DEF Later
  <1>10. /\ Deadline(t, p, n) \in Int
         /\ Deadline(t, p, n) >= pods[p].start + age + a
         /\ Deadline(t, p, n) >= Disturbed(p) + a
    BY <1>2, <1>3, <1>4, <1>7, <1>8, <1>9
  <1> QED
    BY <1>1, <1>2, <1>3, <1>10

(* A check that is in time for a young pod, or for one whose owners were   *)
(* changed right now, is not late.                                         *)
Fresh(p) == Disturbed(p) >= now \/ pods[p].start >= now
EarlyOK ==
    \A t \in Timeouts, p \in Pods, a \in Int :
        /\ t > 0 /\ Watched(p)
        /\ Fresh(p) \/ now <= pods[p].start + Percent(105, getTimeout(t, p))
        => /\ InTime(t, p, a) => NotLate(t, p, a)
           /\ a <= now + Percent(5, getTimeout(t, p)) => NotLate(t, p, a)

LEMMA Early ==
  ASSUME LongTimeouts PROVE TypeOK => EarlyOK
  <1> SUFFICES ASSUME TypeOK, NEW t \in Timeouts, NEW p \in Pods, NEW a \in Int,
                      t > 0, Watched(p),
                      Fresh(p) \/ now <= pods[p].start + Percent(105, getTimeout(t, p)),
                      InTime(t, p, a) \/ a <= now + Percent(5, getTimeout(t, p))
               PROVE  NotLate(t, p, a)
    BY DEF EarlyOK
  <1>1. PICK g \in Int : g = getTimeout(t, p) /\ g > 0
    BY LongEnough
  <1>2. PICK again \in Int : again = Percent(5, g) /\ again > 0
    BY <1>1, LongEnough
  <1>3. PICK first \in Int : first = Percent(105, g) /\ first >= g
    BY <1>1, Percentages
  <1>4. PICK last \in Int : last = Percent(110, g) /\ last >= first
    BY <1>1, <1>3, Percentages
  <1>5. pods[p].start \in Nat /\ Disturbed(p) \in Nat /\ now \in Nat
    <2>1. now \in 0..MaxNow
      BY DEF TypeOK
    <2> QED
      BY <2>1, Times, IdlerAssumption DEF TimesOK
  <1>6. /\ Deadline(t, p, 105) \in Int /\ Deadline(t, p, 110) \in Int
        /\ Deadline(t, p, 105) >= pods[p].start + first + again
        /\ Deadline(t, p, 110) >= pods[p].start + last + again
        /\ Deadline(t, p, 105) >= Disturbed(p) + again
        /\ Deadline(t, p, 110) >= Disturbed(p) + again
    <2>1. DeadlinesOK
      BY Deadlines
    <2> QED
      BY <1>1, <1>2, <1>3, <1>4, <2>1 DEF DeadlinesOK
  <1>7. a <= pods[p].start + g + 1 \/ a <= now + again
    BY <1>1, <1>2 DEF InTime, FirstCheck, NextCheck, Watched
  <1>8. Disturbed(p) >= now \/ now <= pods[p].start + first
    BY <1>1, <1>3, <1>5 DEF Fresh
  <1>9. a <= Deadline(t, p, 105) + 1
    BY <1>1, <1>2, <1>3, <1>5, <1>6, <1>7, <1>8
  <1>10. a <= Deadline(t, p, 110) + 1
    BY <1>1, <1>2, <1>3, <1>4, <1>5, <1>6, <1>7, <1>8
  <1> QED
    BY <1>9, <1>10 DEF NotLate

(* What is left of a pod that nobody disturbs: its deadlines are not moved *)
(* up, and what was reached stays so.                                      *)
StepKeeps(p) ==
    /\ pods'[p].start = pods[p].start /\ Disturbed(p)' >= Disturbed(p)
    /\ faults' >= faults /\ ClearedAt(p) \subseteq ClearedAt(p)'
LateKept(p) ==
    StepKeeps(p) /\ (BothDown(p) => BothDown(p)') /\ (Stable(p) => Stable(p)')

LEMMA DeadlineGrows ==
  ASSUME LongTimeouts, TypeOK, TypeOK', NEW t \in Timeouts, NEW p \in Pods,
         NEW n \in {105, 110}, t > 0, StepKeeps(p)
  PROVE  /\ Deadline(t, p, n) \in Int /\ Deadline(t, p, n)' \in Int
         /\ Deadline(t, p, n)' >= Deadline(t, p, n)
         /\ faults' > faults \/ ClearedAt(p) # ClearedAt(p)' =>
                Deadline(t, p, n)' >= Deadline(t, p, n) + Percent(5, getTimeout(t, p))
  <1>1. PICK g \in Int : g = getTimeout(t, p) /\ g > 0
    BY LongEnough
  <1>2. PICK a \in Int : a = Percent(5, g) /\ a > 0
    BY <1>1, LongEnough
  <1>3. PICK age \in Int : age = Percent(n, g)
    BY <1>1, Percentages
  <1>4. TimesOK /\ TimesOK'
    BY Times, PTL
  <1>5. /\ pods[p].start \in Nat /\ Disturbed(p) \in Nat /\ Cleared(p) \in Nat
        /\ Disturbed(p)' \in Nat /\ Cleared(p)' \in Nat /\ pods'[p].start = pods[p].start
    BY <1>4 DEF TimesOK, StepKeeps
  <1>6. faults \in Nat /\ faults' \in Nat
    <2>1. faults \in 0..MaxFaults /\ faults' \in 0..MaxFaults
      BY DEF TypeOK
    <2> QED
      BY <2>1, IdlerAssumption
  <1>7. PICK k \in Nat : k = faults + Cleared(p)
    BY <1>5, <1>6
  <1>8. PICK l \in Nat : l = faults' + Cleared(p)'
    BY <1>5, <1>6
  <1>9. k <= l /\ (faults' > faults \/ ClearedAt(p) # ClearedAt(p)' => k + 1 <= l)
    <2>1. /\ Cleared(p) <= Cleared(p)' /\ faults <= faults'
          /\ ClearedAt(p) # ClearedAt(p)' => Cleared(p) + 1 <= Cleared(p)'
      BY <1>6, MoreCleared DEF StepKeeps
    <2> QED
      BY <1>5, <1>6, <1>7, <1>8, <2>1
  <1>10. /\ (1 + k) * a \in Int /\ (1 + l) * a \in Int /\ (1 + l) * a >= (1 + k) * a
         /\ k + 1 <= l => (1 + l) * a >= (1 + k) * a + a
    BY <1>2, <1>9, Products
  <1>11. /\ Deadline(t, p, n) = Later(pods[p].start + age, Disturbed(p)) + (1 + k) * a
         /\ Deadline(t, p, n)' = Later(pods[p].start + age, Disturbed(p)') + (1 + l) * a
    <2>1. 1 + faults + Cleared(p) = 1 + k /\ 1 + faults' + Cleared(p)' = 1 + l
      BY <1>5, <1>6, <1>7, <1>8
    <2> QED
      BY <1>1, <1>2, <1>3, <1>5, <2>1 DEF Deadline, Later
  <1>12. /\ Later(pods[p].start + age, Disturbed(p)) \in Int
         /\ Later(pods[p].start + age, Disturbed(p)') \in Int
         /\ Later(pods[p].start + age, Disturbed(p)') >= Later(pods[p].start + age, Disturbed(p))
    BY <1>3, <1>5 DEF Later, StepKeeps
  <1> QED
    BY <1>1, <1>2, <1>9, <1>10, <1>11, <1>12

LEMMA LateStays ==
  ASSUME LongTimeouts, TypeOK, TypeOK', NEW t \in Timeouts, NEW p \in Pods, t > 0,
         NEW a \in Int, NEW b \in Int, b <= a, LateKept(p), NotLate(t, p, a)
  PROVE  NotLate(t, p, b)'
  <1>1. /\ Deadline(t, p, 105) \in Int /\ Deadline(t, p, 105)' \in Int
        /\ Deadline(t, p, 105)' >= Deadline(t, p, 105)
    BY DeadlineGrows DEF LateKept
  <1>2. /\ Deadline(t, p, 110) \in Int /\ Deadline(t, p, 110)' \in Int
        /\ Deadline(t, p, 110)' >= Deadline(t, p, 110)
    BY DeadlineGrows DEF LateKept
  <1>3. b <= Deadline(t, p, 105)' + 1 \/ BothDown(p)'
    BY <1>1 DEF NotLate, LateKept
  <1>4. b <= Deadline(t, p, 110)' + 1 \/ Stable(p)'
    BY <1>2 DEF NotLate, LateKept
  <1> QED
    BY <1>3, <1>4 DEF NotLate

(* A step that leaves the owners of a pod alone.                           *)
ChainSame(p) == \A i \in DOMAIN Chain[p] : owners'[Chain[p][i]] = owners[Chain[p][i]]

LEMMA SameChain ==
  ASSUME NEW p \in Pods, ChainSame(p)
  PROVE  /\ \A i \in DOMAIN Chain[p] :
              /\ InReach(p, i)' <=> InReach(p, i)
              /\ LiveAt(p, i)' <=> LiveAt(p, i)
              /\ FirstTwo(p, i)' <=> FirstTwo(p, i)
         /\ (BothDown(p) => BothDown(p)') /\ (Stable(p) => Stable(p)')
         /\ ClearedAt(p)' = ClearedAt(p) /\ Touched(p)' = Touched(p)
  <1>1. DOMAIN Chain[p] = 1..Len(Chain[p]) /\ Len(Chain[p]) \in Nat
    BY IdlerAssumption
  <1>2. \A i \in 1..Len(Chain[p]) : owners'[Chain[p][i]] = owners[Chain[p][i]]
    BY <1>1 DEF ChainSame
  <1>3. ASSUME NEW i \in DOMAIN Chain[p]
        PROVE  InReach(p, i)' <=> InReach(p, i)
    <2>1. \A j \in i..Len(Chain[p]) : j \in 1..Len(Chain[p])
      BY <1>1
    <2> QED
      BY <1>2, <2>1 DEF InReach
  <1>4. ASSUME NEW i \in DOMAIN Chain[p]
        PROVE  LiveAt(p, i)' <=> LiveAt(p, i)
    <2>1. Deleting(Chain[p][i])' <=> Deleting(Chain[p][i])
      BY <1>1, <1>2 DEF Deleting
    <2> QED
      BY <1>3, <2>1 DEF LiveAt, Known
  <1>5. ASSUME NEW i \in DOMAIN Chain[p]
        PROVE  FirstTwo(p, i)' <=> FirstTwo(p, i)
    <2>1. \A j \in 1..(i - 1) : j \in DOMAIN Chain[p]
      BY <1>1
    <2> QED
      BY <1>4, <2>1 DEF FirstTwo
  <1>6. BothDown(p) => BothDown(p)'
    BY <1>1, <1>2, <1>5 DEF BothDown
  <1>7. Handled(p) => Handled(p)'
    <2> SUFFICES ASSUME Handled(p) PROVE Handled(p)'
      OBVIOUS
    <2>1. PICK i \in DOMAIN Chain[p] :
            /\ LiveAt(p, i)
            /\ \/ \E k \in DOMAIN Chain[p] : k # i /\ LiveAt(p, k)
               \/ \A j \in (i + 1)..Len(Chain[p]) : ~ Deleting(Chain[p][j])
      BY DEF Handled
    <2>2. \A j \in (i + 1)..Len(Chain[p]) : j \in 1..Len(Chain[p])
      BY <1>1
    <2>3. \A j \in (i + 1)..Len(Chain[p]) : Deleting(Chain[p][j])' <=> Deleting(Chain[p][j])
      BY <1>2, <2>2 DEF Deleting
    <2> QED
      BY <1>4, <2>1, <2>3 DEF Handled
  <1>8. Stable(p) => Stable(p)'
    BY <1>5, <1>7 DEF Stable
  <1>9. ClearedAt(p)' = ClearedAt(p)
    BY <1>1, <1>2 DEF ClearedAt
  <1>10. Touched(p)' = Touched(p)
    <2>1. {owners'[Chain[p][i]].since : i \in DOMAIN Chain[p]}
            = {owners[Chain[p][i]].since : i \in DOMAIN Chain[p]}
      BY <1>1, <1>2
    <2> QED
      BY <2>1 DEF Touched
  <1> QED
    BY <1>3, <1>4, <1>5, <1>6, <1>8, <1>9, <1>10

(* A pod that is watched after the step is fresh, or what is known of it   *)
(* stays true; or even its owners stay the same.                           *)
Mild(p) == Watched(p)' => Fresh(p)' \/ (Watched(p) /\ LateKept(p))
Calm(p) == Watched(p)' =>
              \/ Fresh(p)'
              \/ /\ Watched(p) /\ ChainSame(p) /\ pods'[p].start = pods[p].start
                 /\ Disturbed(p)' >= Disturbed(p) /\ faults' >= faults

LEMMA CalmIsMild ==
  ASSUME NEW p \in Pods, Calm(p)
  PROVE  Mild(p)
  BY SameChain DEF Calm, Mild, LateKept, StepKeeps

LEMMA Undisturbed ==
  ASSUME TypeOK, NEW p \in Pods, UNCHANGED owners, retimed' = retimed,
         faults' >= faults, PodKept(p)
  PROVE  Calm(p)
  <1> SUFFICES ASSUME Watched(p)'
               PROVE  /\ Watched(p) /\ ChainSame(p) /\ pods'[p].start = pods[p].start
                      /\ Disturbed(p)' >= Disturbed(p)
    BY DEF Calm
  <1>1. Watched(p) /\ pods'[p].start = pods[p].start
    BY DEF PodKept, Watched, Aged
  <1>2. ChainSame(p)
    BY DEF ChainSame
  <1>3. Disturbed(p)' = Disturbed(p) /\ Disturbed(p) \in Nat
    BY Times DEF Disturbed, Touched, TimesOK
  <1> QED
    BY <1>1, <1>2, <1>3

LEMMA Retimed ==
  ASSUME TypeOK', retimed' >= now', NEW p \in Pods
  PROVE  Calm(p)
  <1>1. TimesOK'
    BY Times, PTL
  <1>2. Disturbed(p)' >= retimed' /\ Disturbed(p)' \in Nat
    BY <1>1 DEF TimesOK
  <1>3. retimed' \in Int /\ now' \in Int
    BY DEF TypeOK
  <1>4. Disturbed(p)' >= now'
    BY <1>2, <1>3
  <1> QED
    BY <1>4 DEF Calm, Fresh

-----------------------------------------------------------------------------
(* The steps of the environment.                                           *)

LEMMA CacheTypes ==
  ASSUME TypeOK
  PROVE  /\ icache.timeout \in Timeouts /\ icache.timeout \in Int
         /\ idler.timeout \in Timeouts /\ idler.timeout \in Int /\ now \in Int /\ retimed \in Int
  <1>1. icache \in IdlerObject /\ idler \in IdlerObject /\ now \in Int /\ retimed \in Int
    BY DEF TypeOK
  <1> QED
    BY <1>1, IdlerAssumption DEF IdlerObject

(* No moment becomes late but by the clock.                                *)
LEMMA NowStays ==
  ASSUME LongTimeouts, LateInv, TypeOK', now' = now, \A p \in Pods : Mild(p),
         icache'.timeout = icache.timeout \/ retimed' >= now
  PROVE  NowNotLate'
  <1> SUFFICES ASSUME icache'.timeout > 0, NEW p \in Pods, Watched(p)'
               PROVE  NotLate(icache.timeout, p, now)'
    BY DEF NowNotLate
  <1>1. TypeOK /\ NowNotLate
    BY DEF LateInv, TimeInv, IndInv
  <1>2. icache.timeout \in Timeouts /\ now \in Int
    BY <1>1, CacheTypes
  <1>3. icache'.timeout \in Timeouts /\ icache'.timeout \in Int
    <2>1. icache' \in IdlerObject
      BY DEF TypeOK
    <2> QED
      BY <2>1, IdlerAssumption DEF IdlerObject
  <1>4. PICK t \in Timeouts : t = icache'.timeout /\ t > 0
    BY <1>3
  <1>5. PICK a \in Int : a = now
    BY <1>2
  <1>6. CASE Fresh(p)'
    <2>1. EarlyOK'
      BY Early, PTL
    <2>2. Percent(5, getTimeout(t, p)) \in Int /\ Percent(5, getTimeout(t, p)) > 0
      BY <1>4, LongEnough
    <2>3. a <= now' + Percent(5, getTimeout(t, p))
      BY <1>2, <1>5, <2>2
    <2>4. NotLate(t, p, a)'
      BY <1>4, <1>6, <2>1, <2>3 DEF EarlyOK
    <2> QED
      BY <1>4, <1>5, <2>4 DEF NotLate, Deadline
  <1>7. CASE ~ Fresh(p)'
    <2>1. Watched(p) /\ LateKept(p)
      BY <1>7 DEF Mild
    <2>2. icache'.timeout = icache.timeout
      <3> SUFFICES ASSUME retimed' >= now PROVE Fresh(p)'
        BY <1>7
      <3>1. TimesOK'
        BY Times, PTL
      <3>2. Disturbed(p)' >= retimed' /\ Disturbed(p)' \in Nat
        BY <3>1 DEF TimesOK
      <3>3. retimed' \in Int
        BY DEF TypeOK
      <3>4. Disturbed(p)' >= now'
        BY <1>2, <3>2, <3>3
      <3> QED
        BY <3>4 DEF Fresh
    <2>3. NotLate(t, p, a)
      BY <1>1, <1>4, <1>5, <2>1, <2>2 DEF NowNotLate
    <2>4. NotLate(t, p, a)'
      BY <1>1, <1>4, <2>1, <2>3, LateStays
    <2> QED
      BY <1>4, <1>5, <2>4 DEF NotLate, Deadline
  <1> QED
    BY <1>6, <1>7

(* The next check stays one that is not late.                              *)
LEMMA RestStays ==
  ASSUME LongTimeouts, LateInv, TimeInv', Quiet, \A p \in Pods : Mild(p)
  PROVE  RestNotLate'
  <1> SUFFICES ASSUME pc' = "rest", ~ pending', icache'.timeout > 0, NEW p \in Pods, Watched(p)'
               PROVE  NotLate(icache.timeout, p, due)'
    BY DEF RestNotLate
  <1>1. /\ TypeOK /\ TypeOK' /\ RestNotLate /\ RestOK /\ RestOK' /\ pc = "rest" /\ ~ pending
        /\ icache'.timeout = icache.timeout /\ due' = due
    BY DEF LateInv, TimeInv, IndInv, Quiet
  <1>2. PICK t \in Timeouts : t = icache.timeout /\ t > 0
    BY <1>1, CacheTypes
  <1>3. PICK a \in Int : a = due
    BY <1>1 DEF TypeOK, RestOK
  <1>4. CASE Fresh(p)'
    <2>1. EarlyOK'
      BY <1>1, Early, PTL
    <2>2. InTime(icache.timeout, p, due)'
      BY <1>1 DEF RestOK, Watched
    <2>3. InTime(t, p, a)'
      BY <1>1, <1>2, <1>3, <2>2 DEF InTime, FirstCheck, NextCheck
    <2>4. NotLate(t, p, a)'
      BY <1>2, <1>4, <2>1, <2>3 DEF EarlyOK
    <2> QED
      BY <1>1, <1>2, <1>3, <2>4 DEF NotLate, Deadline
  <1>5. CASE Watched(p) /\ LateKept(p)
    <2>1. NotLate(t, p, a)
      BY <1>1, <1>2, <1>3, <1>5 DEF RestNotLate
    <2>2. NotLate(t, p, a)'
      BY <1>1, <1>2, <1>5, <2>1, LateStays
    <2> QED
      BY <1>1, <1>2, <1>3, <2>2 DEF NotLate, Deadline
  <1> QED
    BY <1>4, <1>5 DEF Mild

(* So does the check that will be asked for, if it is not late for the     *)
(* pods that are done in this step.                                        *)
LEMMA LoopLate ==
  ASSUME LongTimeouts, LateInv, TimeInv', LoopStep, \A p \in Pods : Mild(p),
         ~ pending' /\ ~ work'.failed =>
            \A p \in work.todo \ work'.todo :
                Watched(p)' => NotLate(work.copy.timeout, p, now + work.after)'
  PROVE  LoopNotLate'
  <1> SUFFICES ASSUME ~ pending', work'.copy.timeout > 0, ~ work'.failed,
                      NEW p \in Pods, Watched(p)', p \notin work'.todo
               PROVE  NotLate(work.copy.timeout, p, now + work.after)'
    BY DEF LoopNotLate
  <1>1. /\ TypeOK /\ TypeOK' /\ LoopNotLate /\ LoopOK' /\ ~ pending /\ ~ work.failed
        /\ pc # "rest" /\ pc' # "rest" /\ now' = now
        /\ work'.copy.timeout = work.copy.timeout /\ work'.after <= work.after
    BY DEF LateInv, TimeInv, IndInv, LoopStep
  <1> SUFFICES ASSUME p \notin work.todo
               PROVE  NotLate(work.copy.timeout, p, now + work.after)'
    OBVIOUS
  <1>2. work \in Work /\ work' \in Work
    BY <1>1 DEF LateInv, TimeInv, IndInv, WorkOK
  <1>3. /\ work.copy.timeout \in Timeouts /\ work.copy.timeout \in Int
        /\ work.after \in Int /\ work'.after \in Int /\ now \in Int
    <2>1. work.copy \in IdlerObject
      BY <1>2 DEF Work
    <2> QED
      BY <1>1, <1>2, <2>1, WorkNumbers DEF TypeOK, IdlerObject
  <1>4. PICK t \in Timeouts : t = work.copy.timeout /\ t > 0
    BY <1>1, <1>3
  <1>5. PICK a \in Int : a = now + work.after
    BY <1>3
  <1>6. PICK b \in Int : b = now' + work'.after /\ b <= a
    BY <1>1, <1>3, <1>5
  <1>7. CASE Fresh(p)'
    <2>1. EarlyOK'
      BY <1>1, Early, PTL
    <2>2. InTime(work.copy.timeout, p, now + work.after)'
      BY <1>1 DEF LoopOK, Watched
    <2>3. InTime(t, p, b)'
      BY <1>1, <1>4, <1>6, <2>2 DEF InTime, FirstCheck, NextCheck
    <2>4. NotLate(t, p, b)'
      BY <1>4, <1>7, <2>1, <2>3 DEF EarlyOK
    <2> QED
      BY <1>1, <1>4, <1>6, <2>4 DEF NotLate, Deadline
  <1>8. CASE Watched(p) /\ LateKept(p)
    <2>1. NotLate(t, p, a)
      BY <1>1, <1>4, <1>5, <1>8 DEF LoopNotLate
    <2>2. NotLate(t, p, b)'
      BY <1>1, <1>4, <1>6, <1>8, <2>1, LateStays
    <2> QED
      BY <1>1, <1>4, <1>6, <2>2 DEF NotLate, Deadline
  <1> QED
    BY <1>7, <1>8 DEF Mild

(* A pod that was treated stays so; one that is disturbed right now, is.   *)
LEMMA TreatedStays ==
  ASSUME LongTimeouts, LateInv, TypeOK', pc \in {"owners", "notify", "record"}, now' = now,
         work'.copy.timeout = work.copy.timeout, work'.pod = work.pod, Watched(work.pod)',
         Fresh(work.pod)' \/ (LateKept(work.pod) /\ Treated(work.pod))
  PROVE  Treated(work.pod)'
  <1>1. /\ TypeOK /\ work.copy.timeout \in Timeouts /\ work.copy.timeout > 0
        /\ work.pod \in Pods /\ now \in Int
    BY InLoop DEF LateInv
  <1>2. PICK p \in Pods : p = work.pod
    BY <1>1
  <1>3. PICK t \in Timeouts : t = work.copy.timeout /\ t > 0
    BY <1>1
  <1>4. Percent(5, getTimeout(t, p)) \in Int
    BY <1>3, LongEnough
  <1>5. PICK a \in Int : a = now + Percent(5, getTimeout(t, p))
    BY <1>1, <1>4
  <1>6. Watched(p)' /\ (Fresh(p)' \/ (LateKept(p) /\ NotLate(t, p, a)))
    <2>1. Treated(work.pod) <=> NotLate(t, p, a)
      BY <1>2, <1>3, <1>5 DEF Treated
    <2>2. LateKept(work.pod) <=> LateKept(p)
      BY <1>2
    <2>3. (Watched(work.pod)' <=> Watched(p)') /\ (Fresh(work.pod)' <=> Fresh(p)')
      BY <1>2 DEF Watched, Aged, Fresh, Disturbed, Touched
    <2> QED
      BY <2>1, <2>2, <2>3
  <1>7. NotLate(t, p, a)'
    <2>1. CASE Fresh(p)'
      <3>1. EarlyOK'
        BY Early, PTL
      <3>2. a <= now' + Percent(5, getTimeout(t, p))
        BY <1>5
      <3> QED
        BY <1>3, <1>6, <2>1, <3>1, <3>2 DEF EarlyOK
    <2>2. CASE LateKept(p) /\ NotLate(t, p, a)
      <3>1. a <= a
        OBVIOUS
      <3> QED
        BY <1>1, <1>3, <2>2, <3>1, LateStays
    <2> QED
      BY <1>6, <2>1, <2>2
  <1>8. /\ work'.pod = p /\ work'.copy.timeout = t
        /\ a = now' + Percent(5, getTimeout(work'.copy.timeout, work'.pod))
    BY <1>2, <1>3, <1>5
  <1> QED
    BY <1>7, <1>8 DEF Treated, NotLate, Deadline

LEMMA WalkedStays ==
  ASSUME NEW p \in Pods, ChainSame(p), work \in Work, work'.tree = work.tree,
         work'.top = work.top, work'.attempted = work.attempted, work'.err = work.err, Walked(p)
  PROVE  Walked(p)'
  <1>1. DOMAIN Chain[p] = 1..Len(Chain[p]) /\ Len(Chain[p]) \in Nat
    BY IdlerAssumption
  <1>2. PICK m \in 0..Len(Chain[p]) : WalkedTo(p, m)
    BY DEF Walked
  <1>3. Len(work.tree) = Len(Chain[p]) - m /\ DOMAIN work.tree = 1..Len(work.tree)
    <2>1. work.tree \in Seq([owner: Owners, deleting: BOOLEAN])
      BY DEF Work
    <2> QED
      BY <1>2, <2>1 DEF WalkedTo
  <1>4. \A i \in DOMAIN work.tree : m + i \in DOMAIN Chain[p]
    BY <1>1, <1>2, <1>3
  <1>5. \A k \in 1..m : k \in DOMAIN Chain[p]
    BY <1>1, <1>2
  <1>6. \A i \in DOMAIN Chain[p] :
            /\ owners'[Chain[p][i]] = owners[Chain[p][i]]
            /\ InReach(p, i)' <=> InReach(p, i)
            /\ LiveAt(p, i)' <=> LiveAt(p, i)
            /\ Deleting(Chain[p][i])' <=> Deleting(Chain[p][i])
    BY SameChain DEF ChainSame, Deleting
  <1>7. \A i \in DOMAIN work'.tree :
          /\ work'.tree[i].owner = Chain[p][m + i] /\ InReach(p, m + i)'
          /\ work'.tree[i].deleting <=> Deleting(Chain[p][m + i])'
    BY <1>2, <1>4, <1>6 DEF WalkedTo
  <1>8. CASE work.top
    <2>1. PICK j \in 1..m :
              /\ LiveAt(p, j) /\ owners[Chain[p][j]].state = "down"
              /\ \A k \in 1..m : LiveAt(p, k) => k = j
              /\ work.attempted => \A k \in (j + 1)..m : ~ Deleting(Chain[p][k])
      BY <1>2, <1>8 DEF WalkedTo
    <2>2. \A k \in (j + 1)..m : k \in DOMAIN Chain[p]
      BY <1>1, <1>2
    <2>3. /\ LiveAt(p, j)' /\ owners'[Chain[p][j]].state = "down"
          /\ \A k \in 1..m : LiveAt(p, k)' => k = j
          /\ work'.attempted => \A k \in (j + 1)..m : ~ Deleting(Chain[p][k])'
      BY <1>5, <1>6, <2>1, <2>2
    <2>4. WalkedTo(p, m)'
      BY <1>3, <1>7, <1>8, <2>3 DEF WalkedTo
    <2> QED
      BY <1>2, <2>4 DEF Walked
  <1>9. CASE ~ work.top
    <2>1. \A k \in 1..m : ~ LiveAt(p, k)'
      BY <1>2, <1>5, <1>6, <1>9 DEF WalkedTo
    <2>2. WalkedTo(p, m)'
      BY <1>3, <1>7, <1>9, <2>1 DEF WalkedTo
    <2> QED
      BY <1>2, <2>2 DEF Walked
  <1> QED
    BY <1>8, <1>9

(* A step of the environment but the clock.                                *)
Aside ==
    /\ Quiet /\ now' = now
    /\ pc # "rest" => work'.attempted = work.attempted
    /\ \A p \in Pods : Calm(p)
    /\ icache'.timeout = icache.timeout \/ retimed' >= now
    /\ RetimedOK' /\ DownOK'

LEMMA AsidePod ==
  ASSUME LongTimeouts, LateInv, TimeInv', Aside
  PROVE  PodNotLate'
  <1> SUFFICES ASSUME pc' \in {"owners", "notify", "record"}, ~ pending', Watched(work.pod)',
                      pc' = "owners" => work'.err # "failed"
               PROVE  Treated(work.pod)' \/ (pc' = "owners" /\ Walked(work.pod)')
    BY DEF PodNotLate
  <1>1. /\ pc' = pc /\ ~ pending /\ now' = now
        /\ work'.copy = work.copy /\ work'.pod = work.pod /\ work'.tree = work.tree
        /\ work'.top = work.top /\ work'.err = work.err /\ work'.attempted = work.attempted
    BY DEF Aside, Quiet
  <1>2. work \in Work /\ work.pod \in Pods /\ TypeOK /\ TypeOK'
    BY <1>1, InLoop DEF LateInv, TimeInv, IndInv
  <1>3. PICK p \in Pods : p = work.pod
    BY <1>2
  <1>4. /\ Watched(p)' <=> Watched(work.pod)'
        /\ Fresh(p)' <=> Fresh(work.pod)'
        /\ Walked(p)' <=> Walked(work.pod)'
    BY <1>1, <1>3 DEF Watched, Aged, Fresh, Disturbed, Touched, Walked, WalkedTo, LiveAt, InReach
  <1>5. CASE Fresh(p)'
    <2>1. Treated(work.pod)'
      BY <1>1, <1>2, <1>4, <1>5, TreatedStays
    <2> QED
      BY <2>1
  <1>6. CASE ~ Fresh(p)'
    <2>1. Watched(p) /\ ChainSame(p)
      BY <1>4, <1>6 DEF Aside, Calm
    <2>2. LateKept(p)
      BY <1>4, <1>6, CalmIsMild DEF Aside, Mild
    <2>3. Treated(p) \/ (pc = "owners" /\ Walked(p))
      BY <1>1, <1>3, <2>1 DEF LateInv, PodNotLate
    <2>4. CASE Treated(p)
      <3>1. LateKept(work.pod) /\ Treated(work.pod)
        BY <1>3, <2>2, <2>4
      <3>2. Treated(work.pod)'
        BY <1>1, <1>2, <3>1, TreatedStays
      <3> QED
        BY <3>2
    <2>5. CASE pc = "owners" /\ Walked(p)
      <3>1. Walked(p)'
        BY <1>1, <1>2, <2>1, <2>5, WalkedStays
      <3> QED
        BY <1>1, <1>4, <2>5, <3>1
    <2> QED
      BY <2>3, <2>4, <2>5
  <1> QED
    BY <1>5, <1>6

LEMMA AsideLate ==
  ASSUME LongTimeouts, LateInv, TimeInv', Aside
  PROVE  LateInv'
  <1>1. TypeOK' /\ TimeInv
    BY DEF LateInv, TimeInv, IndInv
  <1>2. \A p \in Pods : Mild(p)
    BY CalmIsMild DEF Aside
  <1>3. NowNotLate'
    BY <1>1, <1>2, NowStays DEF Aside
  <1>4. RestNotLate'
    BY <1>2, RestStays DEF Aside
  <1>5. LoopNotLate'
    <2>1. CASE pc = "rest"
      BY <2>1 DEF LoopNotLate, Aside, Quiet
    <2>2. CASE pc # "rest"
      <3>1. LoopStep /\ work'.todo = work.todo
        BY <1>1, <2>2, QuietStep DEF Aside, Quiet
      <3> QED
        BY <1>2, <3>1, LoopLate
    <2> QED
      BY <2>1, <2>2
  <1>6. PodNotLate'
    BY AsidePod
  <1> QED
    BY <1>3, <1>4, <1>5, <1>6 DEF LateInv, Aside

LEMMA CountersKept ==
  ASSUME TypeOK, UNCHANGED others \/ Change \/ Fault
  PROVE  retimed' = retimed /\ faults' >= faults
  <1>1. faults \in Int
    BY DEF TypeOK
  <1> QED
    BY <1>1 DEF Change, Fault

LEMMA SameDown ==
  ASSUME DownOK, UNCHANGED owners PROVE DownOK'
  BY DEF DownOK

LEMMA RequestDueLate ==
  ASSUME LongTimeouts, LateInv, TimeInv', RequestDue
  PROVE  LateInv'
  <1>1. TypeOK /\ TimeInv /\ IndInv' /\ DownOK /\ RetimedOK
    BY DEF LateInv, TimeInv, IndInv
  <1>2. UNCHANGED owners /\ UNCHANGED pods /\ UNCHANGED <<now, idler, icache, work, others>>
    BY DEF RequestDue
  <1>3. retimed' = retimed /\ faults' >= faults
    BY <1>1, <1>2, CountersKept
  <1>4. \A p \in Pods : Calm(p)
    BY <1>1, <1>2, <1>3, SamePods, Undisturbed
  <1>5. Quiet
    BY <1>1, ClockQuiet
  <1>6. RetimedOK' /\ DownOK'
    BY <1>1, <1>2, SameDown DEF RetimedOK
  <1>7. Aside
    BY <1>2, <1>4, <1>5, <1>6 DEF Aside
  <1> QED
    BY <1>7, AsideLate

(* The clock goes on only until the next check.                            *)
LEMMA TickLate ==
  ASSUME LongTimeouts, LateInv, TimeInv', Tick
  PROVE  LateInv'
  <1>1. /\ TypeOK /\ TypeOK' /\ TimeInv /\ IndInv' /\ DownOK /\ RestOK /\ RestNotLate
    BY DEF LateInv, TimeInv, IndInv
  <1>2. /\ UNCHANGED owners /\ UNCHANGED pods /\ UNCHANGED <<idler, icache, work, due, others>>
        /\ pc = "rest" /\ pc' = "rest" /\ ~ pending /\ icache = idler
        /\ now' = now + 1 /\ (due = NotScheduled \/ now < due)
    BY DEF Tick
  <1>3. retimed' = retimed /\ faults' >= faults
    BY <1>1, <1>2, CountersKept
  <1>4. \A p \in Pods : Mild(p)
    BY <1>1, <1>2, <1>3, SamePods, Undisturbed, CalmIsMild
  <1>5. RestNotLate'
    BY <1>1, <1>4, ClockQuiet, RestStays
  <1>6. RetimedOK' /\ DownOK'
    BY <1>1, <1>2, SameDown DEF RetimedOK
  <1>7. LoopNotLate' /\ PodNotLate'
    BY <1>2 DEF LoopNotLate, PodNotLate
  <1>8. NowNotLate'
    <2> SUFFICES ASSUME icache'.timeout > 0, NEW p \in Pods, Watched(p)'
                 PROVE  NotLate(icache.timeout, p, now)'
      BY DEF NowNotLate
    <2>1. PICK t \in Timeouts : t = icache.timeout /\ t > 0
      BY <1>1, <1>2, CacheTypes
    <2>2. Watched(p) /\ LateKept(p)
      <3>1. Watched(p) /\ Calm(p) /\ ChainSame(p)
        BY <1>1, <1>2, <1>3, SamePods, Undisturbed DEF Watched, Aged, ChainSame
      <3>2. Disturbed(p)' >= Disturbed(p)
        <4>1. Disturbed(p)' = Disturbed(p) /\ Disturbed(p) \in Nat
          BY <1>1, <1>2, Times DEF Disturbed, Touched, TimesOK
        <4> QED
          BY <4>1
      <3> QED
        BY <1>2, <1>3, <3>1, <3>2, SameChain DEF LateKept, StepKeeps
    <2>3. PICK a \in Int : a = due /\ now + 1 <= a
      <3>1. due # NotScheduled /\ now < due
        BY <1>1, <1>2, <2>1 DEF RestOK
      <3>2. due \in Int /\ now \in Int
        BY <1>1, <3>1 DEF TypeOK
      <3> QED
        BY <3>1, <3>2
    <2>4. PICK b \in Int : b = now' /\ b <= a
      BY <1>1, <1>2, <2>3, CacheTypes
    <2>5. NotLate(t, p, a)
      BY <1>1, <1>2, <2>1, <2>2, <2>3 DEF RestNotLate
    <2>6. NotLate(t, p, b)'
      BY <1>1, <2>1, <2>2, <2>4, <2>5, LateStays
    <2> QED
      BY <1>2, <2>1, <2>4, <2>6 DEF NotLate, Deadline
  <1> QED
    BY <1>5, <1>6, <1>7, <1>8 DEF LateInv

LEMMA IdlerLate ==
  ASSUME LongTimeouts, LateInv, TimeInv',
         SyncIdler \/ HostRemovesNotification \/ \E t \in Timeouts : HostSetsTimeout(t)
  PROVE  LateInv'
  <1>1. TypeOK /\ TypeOK' /\ TimeInv /\ IndInv' /\ DownOK /\ RetimedOK
    BY DEF LateInv, TimeInv, IndInv
  <1>2. Quiet
    BY <1>1, IdlerQuiet
  <1>3. UNCHANGED owners /\ UNCHANGED pods /\ now' = now
    BY DEF SyncIdler, HostRemovesNotification, HostSetsTimeout
  <1>4. pc # "rest" => work'.attempted = work.attempted
    <2>1. pc # "rest" => work \in Work
      BY <1>1 DEF TimeInv, IndInv, WorkOK
    <2>2. work' = work \/ (pc # "rest" /\ work' = [work EXCEPT !.current = FALSE])
      BY DEF SyncIdler, HostRemovesNotification, HostSetsTimeout
    <2> QED
      BY <2>1, <2>2 DEF Work
  <1>5. DownOK' /\ now \in Int
    BY <1>1, <1>3, SameDown DEF TypeOK
  <1>6. CASE \E t \in Timeouts : HostSetsTimeout(t)
    <2>1. retimed' = now /\ icache' = icache
      BY <1>6 DEF HostSetsTimeout
    <2>2. retimed' >= now' /\ RetimedOK'
      BY <1>3, <1>5, <2>1 DEF RetimedOK
    <2>3. \A p \in Pods : Calm(p)
      BY <1>1, <2>2, Retimed
    <2>4. Aside
      BY <1>2, <1>3, <1>4, <1>5, <2>1, <2>2, <2>3 DEF Aside
    <2> QED
      BY <2>4, AsideLate
  <1>7. CASE SyncIdler \/ HostRemovesNotification
    <2>1. retimed' = retimed /\ faults' >= faults
      BY <1>1, <1>7, CountersKept DEF SyncIdler, HostRemovesNotification
    <2>2. \A p \in Pods : Calm(p)
      BY <1>1, <1>3, <2>1, SamePods, Undisturbed
    <2>3. /\ icache'.timeout = icache.timeout \/ retimed' >= now
          /\ RetimedOK'
      BY <1>1, <1>3, <1>7, <2>1 DEF RetimedOK, SyncIdler, HostRemovesNotification
    <2>4. Aside
      BY <1>2, <1>3, <1>4, <1>5, <2>2, <2>3 DEF Aside
    <2> QED
      BY <2>4, AsideLate
  <1> QED
    BY <1>6, <1>7

LEMMA OwnersLate ==
  ASSUME LongTimeouts, LateInv, TimeInv', NEW o \in Owners,
         ReviveOwner(o) \/ DeleteOwner(o) \/ RestoreOwner(o) \/ OwnerGone(o)
  PROVE  LateInv'
  <1>1. TypeOK /\ TypeOK' /\ TimeInv /\ IndInv' /\ DownOK /\ RetimedOK
    BY DEF LateInv, TimeInv, IndInv
  <1>2. Quiet
    BY <1>1, OwnersQuiet
  <1>3. PICK state \in {"up", "deleting", "gone"} : SetOwner(o, state)
    BY DEF ReviveOwner, DeleteOwner, RestoreOwner, OwnerGone
  <1>4. /\ owners \in [Owners -> OwnerState]
        /\ owners' = [owners EXCEPT ![o] = [state |-> state, since |-> now]]
        /\ UNCHANGED <<now, idler, icache, work>> /\ UNCHANGED pods
    BY <1>1, <1>3 DEF SetOwner, TypeOK
  <1>5. retimed' = retimed /\ faults' >= faults
    BY <1>1, CountersKept DEF ReviveOwner, DeleteOwner, RestoreOwner, OwnerGone
  <1>6. DownOK'
    <2> SUFFICES ASSUME NEW u \in Owners, owners'[u].state = "down"
                 PROVE  Kind[u] \notin DeletedKinds
      BY DEF DownOK
    <2>1. CASE u = o
      BY <1>3, <1>4, <2>1
    <2>2. CASE u # o
      BY <1>1, <1>4, <2>2 DEF DownOK
    <2> QED
      BY <2>1, <2>2
  <1>7. ASSUME NEW p \in Pods PROVE Calm(p)
    <2>1. \A i \in DOMAIN Chain[p] : Chain[p][i] \in Owners
      BY IdlerAssumption
    <2>2. CASE \E i \in DOMAIN Chain[p] : Chain[p][i] = o
      <3>1. PICK i \in DOMAIN Chain[p] : Chain[p][i] = o
        BY <2>2
      <3>2. owners'[Chain[p][i]].since = now
        BY <1>4, <3>1
      <3>3. TouchedOK' /\ TimesOK'
        BY <1>1, TouchedLast, Times, PTL
      <3>4. Touched(p)' \in Nat /\ Touched(p)' >= now /\ Disturbed(p)' \in Nat
        BY <3>1, <3>2, <3>3 DEF TouchedOK, TimesOK
      <3>5. Disturbed(p)' >= Touched(p)' /\ now \in Int /\ now' = now
        BY <1>1, <1>4, <3>3 DEF TimesOK, TypeOK
      <3>6. Disturbed(p)' >= now'
        BY <3>4, <3>5
      <3> QED
        BY <3>6 DEF Calm, Fresh
    <2>3. CASE \A i \in DOMAIN Chain[p] : Chain[p][i] # o
      <3>1. ChainSame(p)
        BY <1>4, <2>1, <2>3 DEF ChainSame
      <3>2. Disturbed(p)' = Disturbed(p) /\ Disturbed(p) \in Nat
        BY <1>1, <1>5, <3>1, SameChain, Times DEF Disturbed, TimesOK
      <3>3. Disturbed(p)' >= Disturbed(p)
        BY <3>2
      <3> QED
        BY <1>4, <1>5, <3>1, <3>3 DEF Calm, Watched, Aged
    <2> QED
      BY <2>2, <2>3
  <1>8. RetimedOK'
    BY <1>1, <1>4, <1>5 DEF RetimedOK
  <1>9. Aside
    BY <1>2, <1>4, <1>6, <1>7, <1>8 DEF Aside
  <1> QED
    BY <1>9, AsideLate

LEMMA PodsLate ==
  ASSUME LongTimeouts, LateInv, TimeInv', NEW p \in Pods,
         \/ CreatePod(p) \/ StartPod(p) \/ AppearPod(p)
         \/ RestartPod(p) \/ FinishPod(p) \/ RemovePod(p)
  PROVE  LateInv'
  <1>1. TypeOK /\ TypeOK' /\ TimeInv /\ IndInv' /\ DownOK /\ RetimedOK
    BY DEF LateInv, TimeInv, IndInv
  <1>2. Quiet
    BY <1>1, PodsQuiet
  <1>3. /\ UNCHANGED <<now, idler, icache, work>> /\ UNCHANGED owners
        /\ \E pod : pods' = [pods EXCEPT ![p] = pod]
    BY DEF CreatePod, StartPod, AppearPod, RestartPod, FinishPod, RemovePod, SetPod
  <1>4. retimed' = retimed /\ faults' >= faults
    BY <1>1, CountersKept
    DEF CreatePod, StartPod, AppearPod, RestartPod, FinishPod, RemovePod
  <1>5. pods \in [Pods -> Pod] /\ now \in Int
    BY <1>1 DEF TypeOK
  <1>6. Calm(p)
    <2>1. CASE StartPod(p)
      <3>1. pods'[p] = [pods[p] EXCEPT !.phase = "Running", !.start = now] /\ pods[p] \in Pod
        BY <1>5, <2>1 DEF StartPod, SetPod
      <3>2. pods'[p].start = now /\ now' = now
        BY <1>3, <3>1 DEF Pod
      <3>3. pods'[p].start >= now'
        BY <1>5, <3>2
      <3> QED
        BY <3>3 DEF Calm, Fresh
    <2>2. CASE CreatePod(p) \/ RemovePod(p)
      <3>1. pods'[p] = [NoPod EXCEPT !.phase = "Pending"] \/ pods'[p] = NoPod
        BY <1>5, <2>2 DEF CreatePod, RemovePod, SetPod
      <3>2. ~ Started(pods'[p])
        BY <3>1 DEF NoPod, Started
      <3> QED
        BY <3>2 DEF Calm, Watched, Aged
    <2>3. CASE AppearPod(p)
      <3>1. pods'[p] = [NoPod EXCEPT !.phase = "Running", !.start = now, !.unseen = TRUE]
        BY <1>5, <2>3 DEF AppearPod, SetPod
      <3>2. pods'[p].unseen
        BY <3>1 DEF NoPod
      <3> QED
        BY <3>2 DEF Calm, Watched
    <2>4. CASE RestartPod(p)
      <3>1. pods'[p] = [pods[p] EXCEPT !.loops = TRUE] /\ pods[p] \in Pod
        BY <1>5, <2>4 DEF RestartPod, SetPod
      <3>2. pods'[p].loops
        BY <3>1 DEF Pod
      <3> QED
        BY <3>2 DEF Calm, Watched
    <2>5. CASE FinishPod(p)
      <3>1. PICK phase \in {"Completed", "Evicted"} :
                SetPod(p, [pods[p] EXCEPT !.phase = phase], pods[p].loops)
        BY <2>5 DEF FinishPod
      <3>2. pods'[p] = [pods[p] EXCEPT !.phase = phase] /\ pods[p] \in Pod
        BY <1>5, <3>1 DEF SetPod
      <3>3. pods[p].phase = "Running"
        BY <2>5 DEF FinishPod
      <3>4. /\ pods'[p].phase = phase
            /\ pods'[p].start = pods[p].start /\ pods'[p].loops = pods[p].loops
            /\ pods'[p].unseen = pods[p].unseen /\ pods'[p].deleted = pods[p].deleted
        BY <3>2 DEF Pod
      <3>5. PodKept(p)
        BY <3>3, <3>4 DEF PodKept, Started, Present
      <3> QED
        BY <1>1, <1>3, <1>4, <3>5, Undisturbed
    <2> QED
      BY <2>1, <2>2, <2>3, <2>4, <2>5
  <1>7. ASSUME NEW q \in Pods, q # p PROVE Calm(q)
    <2>1. pods'[q] = pods[q]
      BY <1>3, <1>5, <1>7
    <2>2. PodKept(q)
      BY <2>1 DEF PodKept, Present
    <2> QED
      BY <1>1, <1>3, <1>4, <2>2, Undisturbed
  <1>8. RetimedOK' /\ DownOK'
    BY <1>1, <1>3, <1>4, SameDown DEF RetimedOK
  <1>9. Aside
    BY <1>2, <1>3, <1>6, <1>7, <1>8 DEF Aside
  <1> QED
    BY <1>9, AsideLate

(* A restart puts a request into the queue.                                *)
LEMMA RestartLate ==
  ASSUME LongTimeouts, LateInv, TimeInv', Restart
  PROVE  LateInv'
  <1>1. TypeOK /\ TypeOK' /\ DownOK /\ RetimedOK
    BY DEF LateInv, TimeInv, IndInv
  <1>2. /\ pc' = "rest" /\ pending' /\ icache' = idler /\ idler' = idler /\ now' = now
        /\ UNCHANGED owners /\ UNCHANGED pods
    BY DEF Restart
  <1>3. retimed' = retimed /\ faults' >= faults
    BY <1>1, CountersKept DEF Restart
  <1>4. \A p \in Pods : Mild(p)
    BY <1>1, <1>2, <1>3, SamePods, Undisturbed, CalmIsMild
  <1>5. icache'.timeout = icache.timeout \/ retimed' >= now
    BY <1>1, <1>2, <1>3 DEF RetimedOK
  <1>6. NowNotLate'
    BY <1>1, <1>2, <1>4, <1>5, NowStays
  <1>7. RestNotLate' /\ LoopNotLate' /\ PodNotLate'
    BY <1>2 DEF RestNotLate, LoopNotLate, PodNotLate
  <1>8. RetimedOK' /\ DownOK'
    BY <1>1, <1>2, SameDown DEF RetimedOK
  <1> QED
    BY <1>6, <1>7, <1>8 DEF LateInv

LEMMA EnvironmentLate ==
  ASSUME LongTimeouts, LateInv, TimeInv', Environment PROVE LateInv'
  BY TickLate, RequestDueLate, RestartLate, IdlerLate, PodsLate, OwnersLate DEF Environment

-----------------------------------------------------------------------------
(* The steps of Reconcile.                                                 *)

(* The host and the clock stand aside.                                     *)
Plain ==
    /\ now' = now /\ icache' = icache /\ idler'.timeout = idler.timeout /\ retimed' = retimed
    /\ DownOK' /\ \A p \in Pods : Mild(p)

LEMMA PlainPods ==
  ASSUME LateInv, UNCHANGED owners, now' = now, icache' = icache,
         idler'.timeout = idler.timeout, UNCHANGED others \/ Fault, \A p \in Pods : PodKept(p)
  PROVE  Plain
  <1>1. TypeOK /\ DownOK
    BY DEF LateInv, TimeInv, IndInv
  <1>2. retimed' = retimed /\ faults' >= faults
    BY <1>1, CountersKept
  <1>3. \A p \in Pods : Mild(p)
    BY <1>1, <1>2, Undisturbed, CalmIsMild
  <1> QED
    BY <1>1, <1>2, <1>3, SameDown DEF Plain

LEMMA PlainLate ==
  ASSUME LongTimeouts, LateInv, TypeOK', Plain
  PROVE  DownOK' /\ RetimedOK' /\ NowNotLate'
  <1>1. RetimedOK'
    BY DEF LateInv, RetimedOK, Plain
  <1>2. NowNotLate'
    BY NowStays DEF Plain
  <1> QED
    BY <1>1, <1>2 DEF Plain

LEMMA SamePassLate ==
  ASSUME LongTimeouts, LateInv, TimeInv', pc \in {"pods", "owners", "notify", "record"},
         SamePass, Plain, PodNotLate'
  PROVE  LateInv'
  <1>1. TypeOK' /\ TimeInv
    BY DEF LateInv, TimeInv, IndInv
  <1>2. LoopStep /\ work'.todo = work.todo /\ pc' # "rest"
    BY <1>1, SamePassLoop DEF SamePass
  <1>3. LoopNotLate' /\ RestNotLate'
    BY <1>2, LoopLate DEF RestNotLate, Plain
  <1> QED
    BY <1>1, <1>3, PlainLate DEF LateInv

LEMMA FailedLate ==
  ASSUME LongTimeouts, LateInv, TimeInv', FailedStep, Plain
  PROVE  LateInv'
  <1>1. TypeOK'
    BY DEF TimeInv, IndInv
  <1>2. RestNotLate' /\ LoopNotLate' /\ PodNotLate'
    BY DEF FailedStep, RestNotLate, LoopNotLate, PodNotLate
  <1> QED
    BY <1>1, <1>2, PlainLate DEF LateInv

(* A pod that was treated is checked again after 5% of its timeout.        *)
LEMMA KilledLate ==
  ASSUME LongTimeouts, LateInv, TimeInv', KilledStep, Plain,
         \A p \in Pods : p = work.pod /\ ~ pending /\ Watched(p)' => Treated(p)
  PROVE  LateInv'
  <1>1. /\ TypeOK /\ TypeOK' /\ TimeInv /\ IndInv' /\ LoopOK'
        /\ pc \in {"owners", "notify", "record"} /\ pc' = "pods" /\ pending' = pending
    BY DEF LateInv, TimeInv, IndInv, KilledStep
  <1>2. /\ LoopStep /\ work'.todo = work.todo \ {work.pod}
        /\ ~ pending /\ ~ Restarting(work.pod) =>
                work'.after <= Percent(5, getTimeout(work.copy.timeout, work.pod))
    BY <1>1, KilledLoop
  <1>3. /\ LoopOK /\ work \in Work /\ work.copy.timeout \in Timeouts /\ work.copy.timeout > 0
        /\ work.pod \in Pods /\ work.pod \in work.todo /\ now \in Int
    BY <1>1, InLoop
  <1>4. work'.after \in Int
    <2>1. work' \in Work
      BY <1>1 DEF IndInv, WorkOK
    <2> QED
      BY <2>1, WorkNumbers
  <1>5. PICK p \in Pods : p = work.pod
    BY <1>3
  <1>6. PICK t \in Timeouts : t = work.copy.timeout /\ t > 0
    BY <1>3
  <1>7. PICK again \in Int : again = Percent(5, getTimeout(t, p))
    BY <1>6, LongEnough
  <1>8. PICK a \in Int : a = now + again
    BY <1>3, <1>7
  <1>9. PICK b \in Int : b = now' + work'.after
    BY <1>3, <1>4 DEF Plain
  <1>10. ASSUME ~ pending', ~ work'.failed, Watched(p)'
         PROVE  NotLate(work.copy.timeout, p, now + work.after)'
    <2>1. NotLate(t, p, b)'
      <3>1. CASE Fresh(p)'
        <4>1. EarlyOK'
          BY <1>1, Early, PTL
        <4>2. p \notin work'.todo /\ work'.copy.timeout = t /\ pc' # "rest"
          BY <1>1, <1>2, <1>5, <1>6 DEF LoopStep
        <4>3. InTime(work.copy.timeout, p, now + work.after)'
          BY <1>1, <1>6, <1>10, <4>2 DEF LoopOK, Watched
        <4>4. InTime(t, p, b)'
          BY <1>9, <4>2, <4>3 DEF InTime, FirstCheck, NextCheck
        <4> QED
          BY <1>6, <1>10, <3>1, <4>1, <4>4 DEF EarlyOK
      <3>2. CASE ~ Fresh(p)'
        <4>1. Watched(p) /\ LateKept(p)
          BY <1>10, <3>2 DEF Plain, Mild
        <4>2. ~ Restarting(p)
          <5>1. work.list[p].loops = pods[p].loops
            BY <1>1, <1>3, <1>5, <1>10 DEF LoopOK
          <5> QED
            BY <4>1, <5>1 DEF Restarting, restartThresholdExceeded, Watched
        <4>3. b <= a
          <5>1. ~ pending /\ ~ Restarting(work.pod)
            BY <1>1, <1>5, <1>10, <4>2 DEF Restarting
          <5>2. work'.after <= Percent(5, getTimeout(work.copy.timeout, work.pod))
            BY <1>2, <5>1
          <5>3. work'.after <= again
            BY <1>5, <1>6, <1>7, <5>2
          <5> QED
            BY <1>3, <1>4, <1>7, <1>8, <1>9, <5>3 DEF Plain
        <4>4. NotLate(t, p, a)
          <5>1. Treated(p)
            BY <1>1, <1>5, <1>10
          <5> QED
            BY <1>5, <1>6, <1>7, <1>8, <5>1 DEF Treated
        <4> QED
          BY <1>1, <1>6, <4>1, <4>3, <4>4, LateStays
      <3> QED
        BY <3>1, <3>2
    <2>2. work'.copy.timeout = t
      BY <1>2, <1>6 DEF LoopStep
    <2> QED
      BY <1>9, <2>1, <2>2 DEF NotLate, Deadline
  <1>11. LoopNotLate'
    BY <1>2, <1>3, <1>5, <1>10, LoopLate DEF Plain
  <1>12. RestNotLate' /\ PodNotLate'
    BY <1>1 DEF RestNotLate, PodNotLate
  <1> QED
    BY <1>1, <1>11, <1>12, PlainLate DEF LateInv

(* The list of pods is made anew; the start of a pod that was missed by    *)
(* the watch is taken for a disturbance.                                   *)
LEMMA StartReconcileLate ==
  ASSUME LongTimeouts, LateInv, TimeInv', StartReconcile
  PROVE  LateInv'
  <1>1. TypeOK /\ TypeOK' /\ RetimedOK /\ DownOK
    BY DEF LateInv, TimeInv, IndInv
  <1>2. /\ pc' \in {"pods", "status"} /\ now' = now /\ icache' = icache /\ idler' = idler
        /\ faults' = faults /\ UNCHANGED owners
        /\ pods' = [p \in Pods |-> [pods[p] EXCEPT !.unseen = @ /\ icache.timeout <= 0]]
        /\ retimed' = IF icache.timeout > 0 /\ \E p \in Pods : pods[p].unseen
                      THEN now ELSE retimed
        /\ work'.copy = icache
        /\ work'.todo = IF icache.timeout > 0 THEN {p \in Pods : Present(p)} ELSE {}
    BY DEF StartReconcile
  <1>3. pods \in [Pods -> Pod] /\ icache.timeout \in Int /\ faults \in Int /\ now \in Int
    BY <1>1, CacheTypes DEF TypeOK
  <1>4. ASSUME NEW p \in Pods
        PROVE  /\ pods'[p].phase = pods[p].phase /\ pods'[p].start = pods[p].start
               /\ pods'[p].loops = pods[p].loops /\ pods'[p].deleted = pods[p].deleted
               /\ pods'[p].unseen = (pods[p].unseen /\ icache.timeout <= 0)
    <2>1. pods[p] \in Pod
      BY <1>3
    <2> DEFINE u == pods[p].unseen /\ icache.timeout <= 0
    <2>2. pods'[p] = [pods[p] EXCEPT !.unseen = u]
      BY <1>2
    <2> HIDE DEF u
    <2>3. /\ pods'[p].phase = pods[p].phase /\ pods'[p].start = pods[p].start
          /\ pods'[p].loops = pods[p].loops /\ pods'[p].deleted = pods[p].deleted
          /\ pods'[p].unseen = u
      BY <2>1, <2>2 DEF Pod
    <2> QED
      BY <2>3 DEF u
  <1>5. CASE icache.timeout > 0 /\ \E p \in Pods : pods[p].unseen
    <2>1. retimed' = now
      BY <1>2, <1>5
    <2>2. retimed' >= now'
      BY <1>2, <1>3, <2>1
    <2>3. (\A p \in Pods : Mild(p)) /\ RetimedOK'
      BY <1>1, <2>2, Retimed, CalmIsMild DEF RetimedOK
    <2> QED
      BY <1>1, <1>2, <1>3, <1>4, <2>3, NowStays, SameDown
      DEF LateInv, RestNotLate, LoopNotLate, PodNotLate, Watched, Aged, Started, Present
  <1>6. CASE ~ (icache.timeout > 0 /\ \E p \in Pods : pods[p].unseen)
    <2>1. retimed' = retimed /\ faults' >= faults
      BY <1>2, <1>3, <1>6
    <2>2. ASSUME NEW p \in Pods PROVE PodKept(p)
      <3>1. pods[p].unseen \in BOOLEAN
        BY <1>3 DEF Pod
      <3>2. pods'[p].unseen = pods[p].unseen
        BY <1>3, <1>4, <1>6, <3>1
      <3> QED
        BY <1>4, <3>2 DEF PodKept, Started, Present
    <2>3. \A p \in Pods : Mild(p)
      BY <1>1, <1>2, <2>1, <2>2, Undisturbed, CalmIsMild
    <2>4. RetimedOK'
      BY <1>1, <1>2, <2>1 DEF RetimedOK
    <2> QED
      BY <1>1, <1>2, <1>3, <1>4, <2>3, <2>4, NowStays, SameDown
      DEF LateInv, RestNotLate, LoopNotLate, PodNotLate, Watched, Aged, Started, Present
  <1> QED
    BY <1>5, <1>6

(* A pod that may go on is young.                                          *)
LEMMA PassPodLate ==
  ASSUME LongTimeouts, LateInv, TimeInv', NEW p \in Pods, PassPod(p)
  PROVE  LateInv'
  <1>1. /\ TypeOK /\ TypeOK' /\ TimeInv /\ LoopOK'
        /\ pc = "pods" /\ pc' = "pods" /\ p \in work.todo
        /\ UNCHANGED <<now, idler, icache, pending, others>> /\ UNCHANGED owners /\ UNCHANGED pods
    BY DEF LateInv, TimeInv, IndInv, PassPod
  <1>2. Plain
    BY <1>1, SamePods, PlainPods
  <1>3. LoopStep /\ work'.todo = work.todo \ {p}
    BY <1>1, PassPodLoop
  <1>4. /\ LoopOK /\ work \in Work /\ work.copy.timeout \in Timeouts /\ work.copy.timeout > 0
        /\ now \in Int
    BY <1>1, InLoop
  <1>5. ASSUME ~ pending', ~ work'.failed, Watched(p)'
        PROVE  NotLate(work.copy.timeout, p, now + work.after)'
    <2>1. PICK t \in Timeouts : t = work.copy.timeout /\ t > 0 /\ work'.copy.timeout = t
      BY <1>3, <1>4 DEF LoopStep
    <2>2. PICK b \in Int : b = now' + work'.after
      <3>1. work' \in Work
        BY <1>1 DEF TimeInv, IndInv, WorkOK
      <3> QED
        BY <1>1, <1>4, <3>1, WorkNumbers
    <2>3. PICK g \in Int : g = getTimeout(t, p) /\ g > 0
      BY <2>1, LongEnough
    <2>4. PICK first \in Int : first = Percent(105, g) /\ first >= g
      BY <2>3, Percentages
    <2>5. now' <= pods'[p].start + first
      <3>1. /\ work.list[p].start = pods[p].start
            /\ Started(work.list[p]) <=> Started(pods[p])
        BY <1>1, <1>4, <1>5 DEF LoopOK
      <3>2. Started(pods[p])
        BY <1>1, <1>5 DEF Watched, Aged
      <3>3. ~ (now > pods[p].start + g)
        BY <2>1, <2>3, <3>1, <3>2 DEF PassPod, TimedOut
      <3>4. pods[p].start \in Nat
        BY <1>1, Times DEF TimesOK
      <3> QED
        BY <1>1, <1>4, <2>3, <2>4, <3>3, <3>4
    <2>6. EarlyOK'
      BY <1>1, Early, PTL
    <2>7. InTime(work.copy.timeout, p, now + work.after)'
      BY <1>1, <1>3, <1>5, <2>1 DEF LoopOK, Watched
    <2>8. InTime(t, p, b)'
      BY <2>1, <2>2, <2>7 DEF InTime, FirstCheck, NextCheck
    <2>9. now' <= pods'[p].start + Percent(105, getTimeout(t, p))
      BY <2>3, <2>4, <2>5
    <2>10. NotLate(t, p, b)'
      BY <1>5, <2>1, <2>6, <2>8, <2>9 DEF EarlyOK
    <2> QED
      BY <2>1, <2>2, <2>10 DEF NotLate, Deadline
  <1>6. LoopNotLate'
    BY <1>1, <1>2, <1>3, <1>5, LoopLate DEF Plain
  <1>7. RestNotLate' /\ PodNotLate'
    BY <1>1 DEF RestNotLate, PodNotLate
  <1> QED
    BY <1>1, <1>2, <1>6, <1>7, PlainLate DEF LateInv

(* A failure, and an owner that is deleted, grant a check more.            *)
LEMMA OneMore ==
  ASSUME LongTimeouts, LateInv, TypeOK', now' = now, NEW t \in Timeouts, t = icache.timeout, t > 0,
         NEW p \in Pods, Watched(p), LateKept(p), faults' > faults \/ ClearedAt(p) # ClearedAt(p)'
  PROVE  \A a \in Int : a <= now + Percent(5, getTimeout(t, p)) => NotLate(t, p, a)'
  <1>1. TypeOK /\ NowNotLate
    BY DEF LateInv, TimeInv, IndInv
  <1>2. PICK again \in Int : again = Percent(5, getTimeout(t, p))
    BY LongEnough
  <1>3. now \in Int /\ NotLate(t, p, now)
    BY <1>1, CacheTypes DEF NowNotLate
  <1>4. /\ Deadline(t, p, 105) \in Int /\ Deadline(t, p, 105)' \in Int
        /\ Deadline(t, p, 105)' >= Deadline(t, p, 105) + again
    BY <1>1, <1>2, DeadlineGrows DEF LateKept
  <1>5. /\ Deadline(t, p, 110) \in Int /\ Deadline(t, p, 110)' \in Int
        /\ Deadline(t, p, 110)' >= Deadline(t, p, 110) + again
    BY <1>1, <1>2, DeadlineGrows DEF LateKept
  <1> SUFFICES ASSUME NEW a \in Int, a <= now + again PROVE NotLate(t, p, a)'
    BY <1>2
  <1>6. a <= Deadline(t, p, 105)' + 1 \/ BothDown(p)'
    BY <1>2, <1>3, <1>4 DEF NotLate, LateKept
  <1>7. a <= Deadline(t, p, 110)' + 1 \/ Stable(p)'
    BY <1>2, <1>3, <1>5 DEF NotLate, LateKept
  <1> QED
    BY <1>6, <1>7 DEF NotLate

(* So a pod whose owners could not be fetched, or lose one, is treated.    *)
LEMMA OneMoreTreats ==
  ASSUME LongTimeouts, LateInv, TypeOK', pc \in {"pods", "owners"}, SamePass, ~ pending,
         NEW p \in Pods, Watched(p), LateKept(p), faults' > faults \/ ClearedAt(p) # ClearedAt(p)'
  PROVE  Treated(p)'
  <1>1. /\ TimeInv /\ TypeOK /\ now' = now /\ work'.copy.timeout = work.copy.timeout
    BY DEF LateInv, TimeInv, IndInv, SamePass
  <1>2. /\ LoopOK /\ work.copy.timeout \in Timeouts /\ work.copy.timeout > 0 /\ now \in Int
    BY <1>1, InLoop
  <1>3. PICK t \in Timeouts : t = icache.timeout /\ t = work.copy.timeout /\ t > 0
    BY <1>2 DEF LoopOK
  <1>4. PICK a \in Int : a = now + Percent(5, getTimeout(t, p))
    <2>1. Percent(5, getTimeout(t, p)) \in Int
      BY <1>3, LongEnough
    <2> QED
      BY <1>2, <2>1
  <1>5. NotLate(t, p, a)'
    <2>1. a <= now + Percent(5, getTimeout(t, p))
      BY <1>4
    <2> QED
      BY <1>1, <1>3, <2>1, OneMore
  <1> QED
    BY <1>1, <1>3, <1>4, <1>5 DEF Treated, NotLate, Deadline

(* The first owner that is found is the one below the last that is gone.   *)
LEMMA ReachableFrom ==
  ASSUME NEW p \in Pods
  PROVE  \E m \in 0..Len(Chain[p]) :
            /\ Len(Reachable(p)) = Len(Chain[p]) - m
            /\ \A i \in 1..(Len(Chain[p]) - m) :
                  Reachable(p)[i] = Chain[p][m + i] /\ InReach(p, m + i)
            /\ \A k \in 1..m : ~ InReach(p, k)
  <1> DEFINE lost == {i \in 1..Len(Chain[p]) : owners[Chain[p][i]].state = "gone"}
             top == Max(lost \cup {0})
  <1>1. Chain[p] \in Seq(Owners) /\ Len(Chain[p]) \in Nat /\ DOMAIN Chain[p] = 1..Len(Chain[p])
    BY IdlerAssumption
  <1>2. top \in lost \cup {0} /\ \A y \in lost \cup {0} : y <= top
    <2>1. lost \cup {0} \subseteq 0..Len(Chain[p])
      BY <1>1
    <2> HIDE DEF lost
    <2> QED
      BY <1>1, <2>1, MaxBelow
  <1>3. Reachable(p) = SubSeq(Chain[p], 1 + top, Len(Chain[p]))
    BY DEF Reachable
  <1> HIDE DEF top
  <1>4. PICK m \in 0..Len(Chain[p]) : m = top
    BY <1>1, <1>2
  <1>5. \A i \in 1 + m .. Len(Chain[p]) : Chain[p][i] \in Owners
    BY <1>1
  <1>6. /\ Len(Reachable(p)) = IF 1 + m <= Len(Chain[p]) THEN Len(Chain[p]) - (1 + m) + 1 ELSE 0
        /\ \A i \in 1 .. Len(Chain[p]) - (1 + m) + 1 : Reachable(p)[i] = Chain[p][1 + m + i - 1]
    BY <1>1, <1>3, <1>4, <1>5, SubSeqProperties
  <1>7. Len(Reachable(p)) = Len(Chain[p]) - m
    BY <1>1, <1>6
  <1>8. ASSUME NEW i \in 1..(Len(Chain[p]) - m)
        PROVE  Reachable(p)[i] = Chain[p][m + i] /\ InReach(p, m + i)
    <2>1. Reachable(p)[i] = Chain[p][m + i]
      <3>1. i \in 1 .. Len(Chain[p]) - (1 + m) + 1 /\ 1 + m + i - 1 = m + i
        BY <1>1
      <3> QED
        BY <1>6, <3>1
    <2>2. ASSUME NEW j \in (m + i)..Len(Chain[p]) PROVE owners[Chain[p][j]].state # "gone"
      <3>1. j \in 1..Len(Chain[p]) /\ ~ (j <= m)
        BY <1>1
      <3> QED
        BY <1>2, <1>4, <3>1
    <2> QED
      BY <2>1, <2>2 DEF InReach
  <1>9. ASSUME NEW k \in 1..m PROVE ~ InReach(p, k)
    <2>1. m # 0 /\ m \in k..Len(Chain[p])
      BY <1>1
    <2>2. owners[Chain[p][m]].state = "gone"
      BY <1>2, <1>4, <2>1
    <2> QED
      BY <2>1, <2>2 DEF InReach
  <1> QED
    BY <1>7, <1>8, <1>9

LEMMA WalkStarts ==
  ASSUME TimeInv, NEW p \in Pods, FetchOwners(p, 0)
  PROVE  Walked(p)'
  <1> DEFINE found == Reachable(p)
             kept == SubSeq(found, 1, Len(found))
             tree == [i \in 1..Len(kept) |->
                         [owner |-> kept[i], deleting |-> Deleting(kept[i])]]
  <1>1. pc = "pods" /\ UNCHANGED owners
    BY DEF FetchOwners
  <1>2. work \in Work
    BY <1>1, InLoop
  <1>3. work' = [work EXCEPT !.pod = p, !.tree = tree, !.attempted = FALSE,
                             !.top = FALSE, !.err = "none"]
    BY DEF FetchOwners
  <1>4. PICK m \in 0..Len(Chain[p]) :
            /\ Len(found) = Len(Chain[p]) - m
            /\ \A i \in 1..(Len(Chain[p]) - m) :
                  found[i] = Chain[p][m + i] /\ InReach(p, m + i)
            /\ \A k \in 1..m : ~ InReach(p, k)
    BY ReachableFrom
  <1>5. found \in Seq(Owners)
    BY ReachableOwners
  <1> HIDE DEF found
  <1>6. Len(Chain[p]) \in Nat /\ Len(found) \in Nat
    BY <1>5, IdlerAssumption
  <1>7. Len(kept) = Len(found) /\ \A i \in 1..Len(found) : kept[i] = found[i]
    <2>1. \A i \in 1..Len(found) : found[i] \in Owners
      BY <1>5
    <2>2. /\ Len(kept) = IF 1 <= Len(found) THEN Len(found) - 1 + 1 ELSE 0
          /\ \A i \in 1 .. Len(found) - 1 + 1 : kept[i] = found[1 + i - 1]
      BY <1>6, <2>1, SubSeqProperties
    <2> HIDE DEF kept
    <2>3. Len(kept) = Len(found)
      BY <1>6, <2>2
    <2>4. ASSUME NEW i \in 1..Len(found) PROVE kept[i] = found[i]
      <3>1. i \in 1 .. Len(found) - 1 + 1 /\ 1 + i - 1 = i
        BY <1>6
      <3> QED
        BY <2>2, <3>1
    <2> QED
      BY <2>3, <2>4
  <1> HIDE DEF kept
  <1>8. Len(tree) = Len(Chain[p]) - m /\ DOMAIN tree = 1..(Len(Chain[p]) - m)
    BY <1>4, <1>6, <1>7
  <1>9. \A i \in DOMAIN tree :
          /\ tree[i].owner = Chain[p][m + i] /\ InReach(p, m + i)
          /\ tree[i].deleting <=> Deleting(Chain[p][m + i])
    BY <1>4, <1>6, <1>7, <1>8
  <1> HIDE DEF tree
  <1>10. work'.tree = tree /\ work'.top = FALSE /\ work'.err = "none"
    BY <1>2, <1>3 DEF Work
  <1>11. /\ \A i \in DOMAIN work'.tree :
               /\ work'.tree[i].owner = Chain[p][m + i] /\ InReach(p, m + i)'
               /\ work'.tree[i].deleting <=> Deleting(Chain[p][m + i])'
         /\ \A k \in 1..m : ~ LiveAt(p, k)'
    BY <1>1, <1>4, <1>9, <1>10 DEF InReach, Deleting, LiveAt
  <1>12. WalkedTo(p, m)'
    BY <1>8, <1>10, <1>11 DEF WalkedTo
  <1> QED
    BY <1>4, <1>10, <1>12 DEF Walked

LEMMA SameTreated ==
  ASSUME NEW p \in Pods, p = work'.pod
  PROVE  /\ Watched(work.pod)' <=> Watched(p)'
         /\ Treated(work.pod)' <=> Treated(p)'
         /\ Walked(work.pod)' <=> Walked(p)'
  <1>1. Watched(work.pod)' <=> Watched(p)'
    BY DEF Watched, Aged
  <1>2. Treated(work.pod)' <=> Treated(p)'
    OBVIOUS
  <1>3. Walked(work.pod)' <=> Walked(p)'
    OBVIOUS
  <1> QED
    BY <1>1, <1>2, <1>3

LEMMA FetchOwnersLate ==
  ASSUME LongTimeouts, LateInv, TimeInv', NEW p \in Pods, NEW n \in Nat, FetchOwners(p, n)
  PROVE  LateInv'
  <1>1. /\ TypeOK /\ TypeOK' /\ TimeInv /\ UNCHANGED <<now, idler, icache>>
        /\ UNCHANGED owners /\ UNCHANGED pods
        /\ IF n = 0 THEN UNCHANGED others ELSE Fault
    BY DEF LateInv, TimeInv, IndInv, FetchOwners
  <1>2. /\ pc = "pods" /\ pc' = "owners" /\ SamePass /\ work'.pod = p
    BY <1>1, FetchOwnersStep
  <1>3. Plain
    BY <1>1, SamePods, PlainPods
  <1>4. ASSUME ~ pending', Watched(p)' PROVE Treated(p)' \/ Walked(p)'
    <2>1. CASE n = 0
      <3>1. FetchOwners(p, 0)
        BY <2>1
      <3> QED
        BY <1>1, <3>1, WalkStarts
    <2>2. CASE n # 0
      <3>1. faults' > faults
        BY <1>1, <2>2 DEF Fault, TypeOK
      <3>2. Watched(p) /\ LateKept(p)
        <4>1. PodKept(p) /\ retimed' = retimed /\ faults' >= faults
          BY <1>1, SamePods, CountersKept
        <4>2. Watched(p) /\ ChainSame(p) /\ pods'[p].start = pods[p].start
          BY <1>1, <1>4 DEF Watched, Aged, ChainSame
        <4>3. Disturbed(p)' >= Disturbed(p)
          BY <1>1, <4>1, Times DEF Disturbed, Touched, TimesOK
        <4> QED
          BY <4>1, <4>2, <4>3, SameChain DEF LateKept, StepKeeps
      <3> QED
        BY <1>1, <1>2, <1>4, <3>1, <3>2, OneMoreTreats DEF SamePass
    <2> QED
      BY <2>1, <2>2
  <1>5. PodNotLate'
    BY <1>2, <1>4, SameTreated DEF PodNotLate
  <1> QED
    BY <1>2, <1>3, <1>5, SamePassLate

LEMMA TreatedKept ==
  ASSUME LongTimeouts, LateInv, TypeOK', pc \in {"owners", "notify", "record"}, now' = now,
         work'.copy.timeout = work.copy.timeout, work'.pod = work.pod,
         NEW p \in Pods, p = work.pod, Watched(p)', Fresh(p)' \/ LateKept(p), Treated(p)
  PROVE  Treated(p)'
  <1>1. /\ Watched(work.pod)' <=> Watched(p)'
        /\ Fresh(work.pod)' <=> Fresh(p)'
        /\ Treated(work.pod)' <=> Treated(p)'
    BY DEF Watched, Aged, Fresh, Disturbed, Touched, Treated
  <1>2. LateKept(work.pod) <=> LateKept(p)
    OBVIOUS
  <1>3. Treated(work.pod)
    OBVIOUS
  <1>4. Treated(work.pod)'
    BY <1>1, <1>2, <1>3, TreatedStays
  <1> QED
    BY <1>1, <1>4

(* The next owner of the walk.                                             *)
LEMMA WalkOn ==
  ASSUME work \in Work, work.tree # <<>>,
         NEW p \in Pods, NEW m \in 0..Len(Chain[p]), WalkedTo(p, m)
  PROVE  /\ m + 1 \in DOMAIN Chain[p] /\ m + 1 \in 0..Len(Chain[p])
         /\ Head(work.tree).owner = Chain[p][m + 1] /\ InReach(p, m + 1)
         /\ Head(work.tree).deleting <=> Deleting(Chain[p][m + 1])
         /\ Len(Tail(work.tree)) = Len(Chain[p]) - (m + 1)
         /\ \A i \in DOMAIN Tail(work.tree) :
               /\ m + 1 + i \in DOMAIN Chain[p]
               /\ Tail(work.tree)[i].owner = Chain[p][m + 1 + i] /\ InReach(p, m + 1 + i)
               /\ Tail(work.tree)[i].deleting <=> Deleting(Chain[p][m + 1 + i])
  <1>1. DOMAIN Chain[p] = 1..Len(Chain[p]) /\ Len(Chain[p]) \in Nat
    BY IdlerAssumption
  <1>2. PICK s \in Seq([owner: Owners, deleting: BOOLEAN]) : s = work.tree
    BY DEF Work
  <1>3. /\ Len(s) = Len(Chain[p]) - m
        /\ \A i \in DOMAIN s :
              /\ s[i].owner = Chain[p][m + i] /\ InReach(p, m + i)
              /\ s[i].deleting <=> Deleting(Chain[p][m + i])
    BY <1>2 DEF WalkedTo
  <1>4. /\ Len(s) \in Nat /\ Len(s) >= 1 /\ DOMAIN s = 1..Len(s) /\ Head(s) = s[1]
        /\ Len(Tail(s)) = Len(s) - 1 /\ DOMAIN Tail(s) = 1 .. Len(s) - 1
        /\ \A i \in 1 .. Len(s) - 1 : Tail(s)[i] = s[i + 1]
    BY <1>2, HeadTailProperties
  <1>5. m + 1 \in 1..Len(Chain[p]) /\ Len(Tail(s)) = Len(Chain[p]) - (m + 1)
    BY <1>1, <1>3, <1>4
  <1>6. ASSUME NEW i \in DOMAIN Tail(s)
        PROVE  /\ m + 1 + i \in DOMAIN Chain[p]
               /\ Tail(s)[i].owner = Chain[p][m + 1 + i] /\ InReach(p, m + 1 + i)
               /\ Tail(s)[i].deleting <=> Deleting(Chain[p][m + 1 + i])
    <2>1. i + 1 \in DOMAIN s /\ Tail(s)[i] = s[i + 1] /\ m + (i + 1) = m + 1 + i
      BY <1>4
    <2>2. m + 1 + i \in DOMAIN Chain[p]
      BY <1>1, <1>3, <1>4
    <2> QED
      BY <1>3, <2>1, <2>2
  <1>7. 1 \in DOMAIN s
    BY <1>4
  <1>8. /\ Head(s).owner = Chain[p][m + 1] /\ InReach(p, m + 1)
        /\ Head(s).deleting <=> Deleting(Chain[p][m + 1])
    BY <1>3, <1>4, <1>7
  <1>9. m + 1 \in DOMAIN Chain[p] /\ m + 1 \in 0..Len(Chain[p])
    BY <1>1, <1>5
  <1> QED
    BY <1>2, <1>5, <1>6, <1>8, <1>9

LEMMA SkipOwnerLate ==
  ASSUME LongTimeouts, LateInv, TimeInv', SkipOwner
  PROVE  LateInv'
  <1>1. /\ TypeOK /\ TypeOK' /\ TimeInv /\ UNCHANGED <<now, idler, icache>>
        /\ UNCHANGED owners /\ UNCHANGED pods /\ UNCHANGED others /\ work.tree # <<>>
        /\ Head(work.tree).deleting \/ ~ Known(Head(work.tree).owner)
    BY DEF LateInv, TimeInv, IndInv, SkipOwner
  <1>2. /\ pc = "owners" /\ pc' = "owners" /\ SamePass
        /\ work'.pod = work.pod /\ work'.tree = Tail(work.tree)
        /\ work'.top = work.top /\ work'.err = work.err
    BY <1>1, SkipOwnerStep
  <1>3. Plain
    BY <1>1, SamePods, PlainPods
  <1>4. work \in Work /\ work.pod \in Pods
    BY <1>1, <1>2, InLoop
  <1>5. work'.attempted = (work.attempted /\ ~ Head(work.tree).deleting)
    <2> DEFINE tried == work.attempted /\ ~ Head(work.tree).deleting
    <2>1. work' = [work EXCEPT !.tree = Tail(work.tree), !.attempted = tried]
      BY DEF SkipOwner
    <2> HIDE DEF tried
    <2>2. work'.attempted = tried
      BY <1>4, <2>1 DEF Work
    <2> QED
      BY <2>2 DEF tried
  <1>6. PICK p \in Pods : p = work.pod
    BY <1>4
  <1>7. ChainSame(p) /\ \A i \in DOMAIN Chain[p] :
            /\ InReach(p, i)' <=> InReach(p, i)
            /\ LiveAt(p, i)' <=> LiveAt(p, i)
            /\ Deleting(Chain[p][i])' <=> Deleting(Chain[p][i])
    BY <1>1, SameChain DEF ChainSame, Deleting
  <1>8. ASSUME Walked(p) PROVE Walked(p)'
    <2>1. PICK m \in 0..Len(Chain[p]) : WalkedTo(p, m)
      BY <1>8 DEF Walked
    <2>2. /\ m + 1 \in DOMAIN Chain[p] /\ m + 1 \in 0..Len(Chain[p])
          /\ Head(work.tree).owner = Chain[p][m + 1] /\ InReach(p, m + 1)
          /\ Head(work.tree).deleting <=> Deleting(Chain[p][m + 1])
          /\ Len(Tail(work.tree)) = Len(Chain[p]) - (m + 1)
          /\ \A i \in DOMAIN Tail(work.tree) :
                /\ m + 1 + i \in DOMAIN Chain[p]
                /\ Tail(work.tree)[i].owner = Chain[p][m + 1 + i] /\ InReach(p, m + 1 + i)
                /\ Tail(work.tree)[i].deleting <=> Deleting(Chain[p][m + 1 + i])
      BY <1>1, <1>4, <2>1, WalkOn
    <2>3. ~ LiveAt(p, m + 1)
      BY <1>1, <2>2 DEF LiveAt
    <2>4. DOMAIN Chain[p] = 1..Len(Chain[p]) /\ Len(Chain[p]) \in Nat
      BY IdlerAssumption
    <2>5. \A k \in 1..(m + 1) : k \in DOMAIN Chain[p] /\ (k = m + 1 \/ k \in 1..m)
      BY <2>4, <2>2
    <2>6. \A i \in DOMAIN work'.tree :
             /\ work'.tree[i].owner = Chain[p][m + 1 + i] /\ InReach(p, m + 1 + i)'
             /\ work'.tree[i].deleting <=> Deleting(Chain[p][m + 1 + i])'
      BY <1>2, <1>7, <2>2
    <2>7. CASE work.top
      <3>1. PICK j \in 1..m :
              /\ LiveAt(p, j) /\ owners[Chain[p][j]].state = "down"
              /\ \A k \in 1..m : LiveAt(p, k) => k = j
              /\ work.attempted => \A k \in (j + 1)..m : ~ Deleting(Chain[p][k])
        BY <2>1, <2>7 DEF WalkedTo
      <3>2. j \in 1..(m + 1)
        BY <2>2
      <3>3. \A k \in (j + 1)..(m + 1) : k \in 1..(m + 1) /\ (k = m + 1 \/ k \in (j + 1)..m)
        BY <2>2
      <3>4. /\ LiveAt(p, j)' /\ owners'[Chain[p][j]].state = "down"
            /\ \A k \in 1..(m + 1) : LiveAt(p, k)' => k = j
        BY <1>1, <1>7, <2>3, <2>5, <3>1, <3>2
      <3>5. work'.attempted => \A k \in (j + 1)..(m + 1) : ~ Deleting(Chain[p][k])'
        BY <1>5, <1>7, <2>2, <2>5, <3>1, <3>3
      <3>6. WalkedTo(p, m + 1)'
        BY <1>2, <2>2, <2>6, <2>7, <3>2, <3>4, <3>5 DEF WalkedTo
      <3> QED
        BY <1>2, <1>8, <2>2, <3>6 DEF Walked
    <2>8. CASE ~ work.top
      <3>1. \A k \in 1..(m + 1) : ~ LiveAt(p, k)'
        BY <1>7, <2>1, <2>3, <2>5, <2>8 DEF WalkedTo
      <3>2. WalkedTo(p, m + 1)'
        BY <1>2, <2>2, <2>6, <2>8, <3>1 DEF WalkedTo
      <3> QED
        BY <1>2, <1>8, <2>2, <3>2 DEF Walked
    <2> QED
      BY <2>7, <2>8
  <1>9. ASSUME ~ pending', work'.err # "failed", Watched(p)' PROVE Treated(p)' \/ Walked(p)'
    <2>1. Treated(p) \/ Walked(p)
      BY <1>1, <1>2, <1>6, <1>9 DEF LateInv, PodNotLate, SamePass, Watched, Aged
    <2>2. CASE Treated(p)
      <3>1. Watched(p)' /\ (Fresh(p)' \/ LateKept(p))
        BY <1>3, <1>9 DEF Plain, Mild
      <3> QED
        BY <1>1, <1>2, <1>6, <2>2, <3>1, TreatedKept DEF SamePass
    <2> QED
      BY <1>8, <2>1, <2>2
  <1>10. PodNotLate'
    BY <1>2, <1>6, <1>9, SameTreated DEF PodNotLate
  <1> QED
    BY <1>2, <1>3, <1>10, SamePassLate

(* The first two of the owners that idling acts on.                        *)
LEMMA MinBelow ==
  ASSUME NEW S, S \subseteq Nat, S # {}
  PROVE  \E x \in S : \A y \in S : x <= y
  <1>1. PICK x \in S : \A y \in S : ~ (<<y, x>> \in OpToRel(<, Nat))
    <2>1. \E x \in S : \A y \in S : ~ (<<y, x>> \in OpToRel(<, Nat))
      BY NatLessThanWellFounded, WFMin
    <2> QED
      BY <2>1
  <1>2. \A y \in S : ~ (y < x)
    BY <1>1 DEF OpToRel
  <1>3. \A y \in S : x <= y
    BY <1>2
  <1> QED
    BY <1>3

LEMMA TwoFirst ==
  ASSUME NEW p, NEW n \in Nat, NEW j \in 1..n, NEW k \in 1..n, j # k, LiveAt(p, j), LiveAt(p, k)
  PROVE  \E a \in 1..n, b \in 1..n : a # b /\ FirstTwo(p, a) /\ FirstTwo(p, b)
  <1> DEFINE S == {x \in 1..n : LiveAt(p, x)}
  <1>1. PICK a \in S : \A y \in S : a <= y
    <2>1. S \subseteq Nat /\ S # {}
      OBVIOUS
    <2> HIDE DEF S
    <2> QED
      BY <2>1, MinBelow
  <1>2. PICK b \in S \ {a} : \A y \in S \ {a} : b <= y
    <2>1. S \ {a} \subseteq Nat /\ S \ {a} # {}
      OBVIOUS
    <2> HIDE DEF S
    <2> QED
      BY <2>1, MinBelow
  <1>3. FirstTwo(p, a)
    <2>1. ASSUME NEW x \in 1..(a - 1), LiveAt(p, x) PROVE FALSE
      <3>1. x \in S /\ ~ (a <= x)
        BY <2>1
      <3> QED
        BY <1>1, <3>1
    <2> QED
      BY <2>1 DEF FirstTwo
  <1>4. FirstTwo(p, b)
    <2>1. ASSUME NEW x \in 1..(b - 1), LiveAt(p, x) PROVE x = a
      <3>1. x \in S /\ ~ (b <= x)
        BY <2>1
      <3> QED
        BY <1>2, <3>1
    <2> QED
      BY <2>1 DEF FirstTwo
  <1> QED
    BY <1>2, <1>3, <1>4

(* What idling does to the owners: one that was up is deleted or scaled.   *)
IdledTo(o) ==
    /\ \A q \in Owners : q # o => owners'[q] = owners[q]
    /\ owners'[o].since = owners[o].since
    /\ \/ owners'[o].state = owners[o].state /\ owners[o].state # "up"
       \/ /\ owners[o].state = "up"
          /\ owners'[o].state = IF Kind[o] \in DeletedKinds THEN "deleting" ELSE "down"

LEMMA IdledOne ==
  ASSUME NoServingRuntime, TypeOK, DownOK, NEW o \in Owners, owners[o].state # "gone",
         owners' = [owners EXCEPT ![o] = Idled(o)]
  PROVE  IdledTo(o) /\ DownOK'
  <1>1. owners \in [Owners -> OwnerState] /\ Kind[o] # "ServingRuntime"
    BY DEF TypeOK, NoServingRuntime
  <1>2. owners'[o] = Idled(o) /\ owners[o] \in OwnerState
    BY <1>1
  <1>3. \A q \in Owners : q # o => owners'[q] = owners[q]
    BY <1>1
  <1>4. owners'[o].since = owners[o].since
    BY <1>2 DEF Idled, OwnerState
  <1>5. owners[o].state = "down" => Kind[o] \notin DeletedKinds
    BY DEF DownOK
  <1>6. owners[o].state \in {"up", "down", "deleting"}
    BY <1>2 DEF OwnerState
  <1>7. CASE Kind[o] \in DeletedKinds
    <2>1. owners'[o].state = "deleting"
      BY <1>2, <1>7 DEF Idled, OwnerState
    <2> QED
      BY <1>3, <1>4, <1>5, <1>6, <1>7, <2>1 DEF IdledTo, DownOK
  <1>8. CASE Kind[o] \notin DeletedKinds
    <2>1. owners[o].state # "up" => owners'[o].state = owners[o].state
      BY <1>2, <1>8 DEF Idled
    <2>2. owners[o].state = "up" => owners'[o].state = "down"
      BY <1>1, <1>2, <1>8 DEF Idled, OwnerState
    <2>3. IdledTo(o)
      BY <1>3, <1>4, <1>8, <2>1, <2>2 DEF IdledTo
    <2> QED
      BY <1>3, <1>8, <2>3 DEF DownOK
  <1> QED
    BY <1>7, <1>8

LEMMA IdleChain ==
  ASSUME NEW o \in Owners, IdledTo(o), NEW p \in Pods, NEW i \in DOMAIN Chain[p]
  PROVE  /\ InReach(p, i)' <=> InReach(p, i)
         /\ LiveAt(p, i)' => LiveAt(p, i)
         /\ LiveAt(p, i) /\ (Chain[p][i] # o \/ Kind[o] \notin DeletedKinds) => LiveAt(p, i)'
         /\ Deleting(Chain[p][i])' =>
               \/ Deleting(Chain[p][i])
               \/ Chain[p][i] = o /\ Kind[o] \in DeletedKinds /\ owners[o].state = "up"
         /\ owners[Chain[p][i]].state = "down" => owners'[Chain[p][i]].state = "down"
         /\ owners'[Chain[p][i]].since = owners[Chain[p][i]].since
  <1>1. DOMAIN Chain[p] = 1..Len(Chain[p]) /\ Len(Chain[p]) \in Nat
        /\ \A j \in 1..Len(Chain[p]) : Chain[p][j] \in Owners
    BY IdlerAssumption
  <1>2. ASSUME NEW q \in Owners
        PROVE  /\ owners'[q].state = "gone" <=> owners[q].state = "gone"
               /\ owners[q].state = "down" => owners'[q].state = "down"
               /\ owners[q].state = "deleting" => owners'[q].state = "deleting"
               /\ owners'[q].state = "deleting" =>
                     \/ owners[q].state = "deleting"
                     \/ q = o /\ Kind[o] \in DeletedKinds /\ owners[o].state = "up"
               /\ owners'[q].since = owners[q].since
    BY DEF IdledTo
  <1>3. InReach(p, i)' <=> InReach(p, i)
    <2>1. \A j \in i..Len(Chain[p]) : Chain[p][j] \in Owners
      BY <1>1
    <2> QED
      BY <1>2, <2>1 DEF InReach
  <1>4. /\ Deleting(Chain[p][i]) => Deleting(Chain[p][i])'
        /\ Deleting(Chain[p][i])' =>
               \/ Deleting(Chain[p][i])
               \/ Chain[p][i] = o /\ Kind[o] \in DeletedKinds /\ owners[o].state = "up"
    BY <1>1, <1>2 DEF Deleting
  <1>5. /\ LiveAt(p, i)' => LiveAt(p, i)
        /\ LiveAt(p, i) /\ (Chain[p][i] # o \/ Kind[o] \notin DeletedKinds) => LiveAt(p, i)'
    BY <1>3, <1>4 DEF LiveAt, Known
  <1> QED
    BY <1>1, <1>2, <1>3, <1>4, <1>5

(* What was reached stays so when an owner is idled.                       *)
LEMMA IdleKeepsFirst ==
  ASSUME DownOK, NEW o \in Owners, IdledTo(o), NEW p \in Pods, NEW i \in DOMAIN Chain[p],
         \A j \in DOMAIN Chain[p] : FirstTwo(p, j) => Kind[Chain[p][j]] \notin DeletedKinds,
         FirstTwo(p, i)'
  PROVE  FirstTwo(p, i)
  <1>1. DOMAIN Chain[p] = 1..Len(Chain[p]) /\ Len(Chain[p]) \in Nat
    BY IdlerAssumption
  <1>2. LiveAt(p, i)' /\ LiveAt(p, i)
    BY IdleChain DEF FirstTwo
  <1> SUFFICES ASSUME NEW j \in 1..(i - 1), NEW k \in 1..(i - 1), LiveAt(p, j), LiveAt(p, k), j # k
               PROVE  FALSE
    BY <1>2 DEF FirstTwo
  <1>3. i - 1 \in Nat
    BY <1>1
  <1>4. PICK a \in 1..(i - 1), b \in 1..(i - 1) : a # b /\ FirstTwo(p, a) /\ FirstTwo(p, b)
    BY <1>3, TwoFirst
  <1>5. a \in DOMAIN Chain[p] /\ b \in DOMAIN Chain[p]
    BY <1>1
  <1>6. LiveAt(p, a)' /\ LiveAt(p, b)'
    BY <1>4, <1>5, IdleChain DEF FirstTwo
  <1> QED
    BY <1>4, <1>6 DEF FirstTwo

LEMMA IdleKeepsDown ==
  ASSUME DownOK, NEW o \in Owners, IdledTo(o), NEW p \in Pods, BothDown(p)
  PROVE  BothDown(p)'
  <1>1. \A j \in DOMAIN Chain[p] : Chain[p][j] \in Owners
    BY IdlerAssumption
  <1>2. \A j \in DOMAIN Chain[p] : FirstTwo(p, j) => Kind[Chain[p][j]] \notin DeletedKinds
    BY <1>1 DEF BothDown, DownOK
  <1>3. \A i \in DOMAIN Chain[p] : FirstTwo(p, i)' => owners'[Chain[p][i]].state = "down"
    BY <1>2, IdleKeepsFirst, IdleChain DEF BothDown
  <1> QED
    BY <1>3 DEF BothDown

LEMMA IdleKeepsStable ==
  ASSUME DownOK, NEW o \in Owners, IdledTo(o), NEW p \in Pods, Stable(p)
  PROVE  Stable(p)'
  <1>1. DOMAIN Chain[p] = 1..Len(Chain[p]) /\ Len(Chain[p]) \in Nat
    BY IdlerAssumption
  <1>2. \A j \in DOMAIN Chain[p] : FirstTwo(p, j) => Kind[Chain[p][j]] \notin DeletedKinds
    BY DEF Stable
  <1>3. \A i \in DOMAIN Chain[p] : FirstTwo(p, i)' => Kind[Chain[p][i]] \notin DeletedKinds
    BY <1>2, IdleKeepsFirst
  <1>4. PICK i \in DOMAIN Chain[p] :
            /\ LiveAt(p, i)
            /\ \/ \E k \in DOMAIN Chain[p] : k # i /\ LiveAt(p, k)
               \/ \A j \in (i + 1)..Len(Chain[p]) : ~ Deleting(Chain[p][j])
    BY DEF Stable, Handled
  <1>5. CASE \E k \in DOMAIN Chain[p] : k # i /\ LiveAt(p, k)
    <2>1. PICK k \in DOMAIN Chain[p] : k # i /\ LiveAt(p, k)
      BY <1>5
    <2>2. PICK a \in DOMAIN Chain[p], b \in DOMAIN Chain[p] :
                a # b /\ FirstTwo(p, a) /\ FirstTwo(p, b)
      BY <1>1, <1>4, <2>1, TwoFirst
    <2>3. LiveAt(p, a)' /\ LiveAt(p, b)'
      BY <1>2, <2>2, IdleChain DEF FirstTwo
    <2>4. Handled(p)'
      BY <2>2, <2>3 DEF Handled
    <2> QED
      BY <1>3, <2>4 DEF Stable
  <1>6. CASE ~ \E k \in DOMAIN Chain[p] : k # i /\ LiveAt(p, k)
    <2>1. \A k \in 1..(i - 1) : k \in DOMAIN Chain[p] /\ k # i
      BY <1>1
    <2>2. FirstTwo(p, i)
      BY <1>4, <1>6, <2>1 DEF FirstTwo
    <2>3. LiveAt(p, i)'
      BY <1>2, <1>4, <2>2, IdleChain
    <2>4. ASSUME NEW j \in (i + 1)..Len(Chain[p]), Deleting(Chain[p][j])' PROVE FALSE
      <3>1. j \in DOMAIN Chain[p] /\ j # i
        BY <1>1
      <3>2. ~ Deleting(Chain[p][j])
        BY <1>4, <1>6
      <3>3. Chain[p][j] = o /\ Kind[o] \in DeletedKinds
        BY <2>4, <3>1, <3>2, IdleChain
      <3>4. InReach(p, j)
        <4>1. \A l \in j..Len(Chain[p]) : l \in i..Len(Chain[p])
          BY <1>1
        <4> QED
          BY <1>4, <4>1 DEF LiveAt, InReach
      <3>5. LiveAt(p, j)
        BY <3>2, <3>3, <3>4 DEF LiveAt, Known, KnownKinds
      <3> QED
        BY <1>6, <3>1, <3>5
    <2>5. Handled(p)'
      BY <2>3, <2>4 DEF Handled
    <2> QED
      BY <1>3, <2>5 DEF Stable
  <1> QED
    BY <1>5, <1>6

LEMMA IdleMild ==
  ASSUME TypeOK, DownOK, NEW o \in Owners, IdledTo(o), UNCHANGED pods, UNCHANGED others,
         NEW p \in Pods
  PROVE  LateKept(p) /\ (Watched(p)' <=> Watched(p))
  <1>1. DOMAIN Chain[p] = 1..Len(Chain[p]) /\ \A j \in DOMAIN Chain[p] : Chain[p][j] \in Owners
    BY IdlerAssumption
  <1>2. Touched(p)' = Touched(p)
    <2>1. {owners'[Chain[p][i]].since : i \in DOMAIN Chain[p]}
            = {owners[Chain[p][i]].since : i \in DOMAIN Chain[p]}
      BY IdleChain
    <2> QED
      BY <2>1 DEF Touched
  <1>3. Disturbed(p)' = Disturbed(p) /\ Disturbed(p) \in Nat /\ faults \in Int
    BY <1>2, Times DEF Disturbed, TimesOK, TypeOK
  <1>4. ClearedAt(p) \subseteq ClearedAt(p)'
    <2>1. ASSUME NEW q \in Owners, owners[q].state \in {"deleting", "gone"}
          PROVE  owners'[q].state \in {"deleting", "gone"}
      BY <2>1 DEF IdledTo
    <2> QED
      BY <1>1, <2>1 DEF ClearedAt
  <1>5. StepKeeps(p)
    BY <1>3, <1>4 DEF StepKeeps
  <1>6. LateKept(p)
    BY <1>5, IdleKeepsDown, IdleKeepsStable DEF LateKept
  <1>7. Watched(p)' <=> Watched(p)
    BY DEF Watched, Aged
  <1> QED
    BY <1>6, <1>7

(* An owner was idled on the walk.                                         *)
LEMMA AfterOwnerWalk ==
  ASSUME work \in Work, work.tree # <<>>, NEW err \in {"none", "missing", "failed"}, AfterOwner(err)
  PROVE  /\ work'.attempted = TRUE
         /\ ~ work.top /\ now > work.list[work.pod].start
                             + Percent(105, getTimeout(work.copy.timeout, work.pod)) =>
                work'.tree = Tail(work.tree)
  <1> DEFINE late == now > work.list[work.pod].start
                             + Percent(105, getTimeout(work.copy.timeout, work.pod))
             tree == IF work.top \/ (err = "none" /\ ~ late) THEN <<>> ELSE Tail(work.tree)
             error == Join(work.err, err)
  <1>1. work' = [work EXCEPT !.tree = tree, !.attempted = TRUE, !.top = TRUE, !.err = error]
    BY DEF AfterOwner
  <1>2. ~ work.top /\ late => tree = Tail(work.tree)
    <2> HIDE DEF late
    <2> QED
      OBVIOUS
  <1> HIDE DEF tree, error
  <1>3. work'.attempted = TRUE /\ work'.tree = tree
    BY <1>1 DEF Work
  <1> QED
    BY <1>2, <1>3

(* It is one of the two that a check idles: either they are now both down, *)
(* or it was deleted, or it is the first and the pod young, or the walk    *)
(* goes on.                                                                *)
LEMMA IdleWalk ==
  ASSUME LongTimeouts, NoServingRuntime, LateInv, TypeOK', pc = "owners", SamePass, UNCHANGED pods,
         UNCHANGED others, ~ pending,
         work.tree # <<>>, ~ Head(work.tree).deleting, Known(Head(work.tree).owner),
         NEW o \in Owners, o = Head(work.tree).owner, owners[o].state # "gone",
         owners' = [owners EXCEPT ![o] = Idled(o)], AfterOwner("none"),
         NEW p \in Pods, p = work.pod, Watched(p), Walked(p)
  PROVE  Treated(p)' \/ Walked(p)'
  <1>1. /\ TimeInv /\ TypeOK /\ DownOK /\ now' = now /\ work'.copy.timeout = work.copy.timeout
    BY DEF LateInv, TimeInv, IndInv, SamePass
  <1>2. /\ LoopOK /\ work \in Work /\ work.copy.timeout \in Timeouts /\ work.copy.timeout > 0
        /\ p \in work.todo /\ now \in Int
    BY <1>1, InLoop
  <1>3. IdledTo(o) /\ DownOK'
    BY <1>1, IdledOne
  <1>4. LateKept(p) /\ Watched(p)'
    BY <1>1, <1>3, IdleMild
  <1>5. work.err = "none" /\ \E m \in 0..Len(Chain[p]) : WalkedTo(p, m)
    BY DEF Walked
  <1>6. PICK m \in 0..Len(Chain[p]) : WalkedTo(p, m)
    BY <1>5
  <1>7. /\ m + 1 \in DOMAIN Chain[p] /\ m + 1 \in 0..Len(Chain[p])
        /\ o = Chain[p][m + 1] /\ InReach(p, m + 1)
        /\ ~ Deleting(o)
        /\ Len(Tail(work.tree)) = Len(Chain[p]) - (m + 1)
        /\ \A i \in DOMAIN Tail(work.tree) :
              /\ m + 1 + i \in DOMAIN Chain[p]
              /\ Tail(work.tree)[i].owner = Chain[p][m + 1 + i] /\ InReach(p, m + 1 + i)
              /\ Tail(work.tree)[i].deleting <=> Deleting(Chain[p][m + 1 + i])
    BY <1>2, <1>6, WalkOn
  <1>8. LiveAt(p, m + 1)
    BY <1>7 DEF LiveAt
  <1>9. DOMAIN Chain[p] = 1..Len(Chain[p]) /\ Len(Chain[p]) \in Nat
        /\ \A i \in DOMAIN Chain[p] : Chain[p][i] \in Owners
    BY IdlerAssumption
  <1>10. /\ work'.attempted = TRUE /\ work'.top = TRUE /\ work'.err = "none"
         /\ ~ work.top /\ now > work.list[work.pod].start
                             + Percent(105, getTimeout(work.copy.timeout, work.pod)) =>
                work'.tree = Tail(work.tree)
    BY <1>2, <1>5, AfterOwnerWalk, AfterOwnerFields DEF Join
  <1>11. owners[o].state \in {"up", "down"}
    <2>1. owners[o] \in OwnerState
      BY <1>1 DEF TypeOK
    <2> QED
      BY <1>7, <2>1 DEF OwnerState, Deleting
  <1>12. CASE Kind[o] \in DeletedKinds
    <2>1. owners[o].state = "up" /\ owners'[o].state = "deleting"
      BY <1>1, <1>3, <1>11, <1>12 DEF DownOK, IdledTo
    <2>2. m + 1 \in ClearedAt(p)' /\ m + 1 \notin ClearedAt(p)
      BY <1>7, <1>12, <2>1 DEF ClearedAt
    <2> QED
      BY <1>4, <2>2, OneMoreTreats
  <1>13. CASE Kind[o] \notin DeletedKinds
    <2>1. owners'[o].state = "down"
      BY <1>3, <1>11, <1>13 DEF IdledTo
    <2>2. \A i \in DOMAIN Chain[p] :
             /\ (LiveAt(p, i)' <=> LiveAt(p, i)) /\ (InReach(p, i)' <=> InReach(p, i))
             /\ Deleting(Chain[p][i])' => Deleting(Chain[p][i])
             /\ owners[Chain[p][i]].state = "down" => owners'[Chain[p][i]].state = "down"
      BY <1>3, <1>13, IdleChain
    <2>3. CASE work.top
      <3>1. PICK j \in 1..m :
              /\ LiveAt(p, j) /\ owners[Chain[p][j]].state = "down"
              /\ \A k \in 1..m : LiveAt(p, k) => k = j
        BY <1>6, <2>3 DEF WalkedTo
      <3>2. j \in DOMAIN Chain[p] /\ j # m + 1
        BY <1>7, <1>9
      <3>3. /\ LiveAt(p, j)' /\ LiveAt(p, m + 1)'
            /\ owners'[Chain[p][j]].state = "down" /\ owners'[Chain[p][m + 1]].state = "down"
        BY <1>7, <1>8, <2>1, <2>2, <3>1, <3>2
      <3>4. ASSUME NEW i \in DOMAIN Chain[p], FirstTwo(p, i)' PROVE i = j \/ i = m + 1
        <4>1. LiveAt(p, i)
          BY <2>2, <3>4 DEF FirstTwo
        <4>2. CASE i \in 1..m
          BY <3>1, <4>1, <4>2
        <4>3. CASE i > m + 1
          <5>1. j \in 1..(i - 1) /\ m + 1 \in 1..(i - 1)
            BY <1>7, <1>9, <4>3
          <5> QED
            BY <3>2, <3>3, <3>4, <5>1 DEF FirstTwo
        <4> QED
          BY <1>7, <1>9, <4>2, <4>3
      <3>5. BothDown(p)'
        BY <3>3, <3>4 DEF BothDown
      <3>6. Stable(p)'
        <4>1. Handled(p)'
          BY <1>7, <3>2, <3>3 DEF Handled
        <4>2. \A i \in DOMAIN Chain[p] : FirstTwo(p, i)' => Kind[Chain[p][i]] \notin DeletedKinds
          BY <1>3, <1>7, <1>9, <3>2, <3>3, <3>4 DEF DownOK
        <4> QED
          BY <4>1, <4>2 DEF Stable
      <3> QED
        BY <3>5, <3>6 DEF Treated, NotLate
    <2>4. CASE ~ work.top
      <3>1. \A k \in 1..m : ~ LiveAt(p, k)
        BY <1>6, <2>4 DEF WalkedTo
      <3>2. PICK t \in Timeouts : t = work.copy.timeout /\ t > 0
        BY <1>2
      <3>3. PICK first \in Int : first = Percent(105, getTimeout(t, p))
        BY <3>2, LongEnough, Percentages
      <3>4. PICK start \in Nat : start = pods[p].start
        BY <1>1, Times DEF TimesOK
      <3>5. work.list[p].start = start
        BY <1>2, <3>4 DEF LoopOK
      <3>6. CASE now > start + first
        <4>1. work'.tree = Tail(work.tree)
          BY <1>10, <2>4, <3>2, <3>3, <3>5, <3>6
        <4>2. \A k \in 1..(m + 1) : LiveAt(p, k)' => k = m + 1
          <5>1. \A k \in 1..(m + 1) : k \in DOMAIN Chain[p] /\ (k = m + 1 \/ k \in 1..m)
            BY <1>7, <1>9
          <5> QED
            BY <2>2, <3>1, <5>1
        <4>3. LiveAt(p, m + 1)' /\ owners'[Chain[p][m + 1]].state = "down"
          BY <1>7, <1>8, <2>1, <2>2
        <4>4. m + 1 \in 1..(m + 1) /\ \A k \in (m + 1 + 1)..(m + 1) : FALSE
          BY <1>7
        <4>5. \A i \in DOMAIN work'.tree :
                 /\ work'.tree[i].owner = Chain[p][m + 1 + i] /\ InReach(p, m + 1 + i)'
                 /\ work'.tree[i].deleting <=> Deleting(Chain[p][m + 1 + i])'
          <5>1. \A i \in DOMAIN Chain[p] : Deleting(Chain[p][i])' <=> Deleting(Chain[p][i])
            BY <1>3, <1>9, <1>13, <2>2 DEF Deleting, IdledTo
          <5> QED
            BY <1>7, <2>2, <4>1, <5>1
        <4>6. WalkedTo(p, m + 1)'
          BY <1>7, <1>10, <4>1, <4>2, <4>3, <4>4, <4>5 DEF WalkedTo
        <4> QED
          BY <1>7, <1>10, <4>6 DEF Walked
      <3>7. CASE ~ (now > start + first)
        <4>1. PICK a \in Int : a = now + Percent(5, getTimeout(t, p))
          <5>1. Percent(5, getTimeout(t, p)) \in Int
            BY <3>2, LongEnough
          <5> QED
            BY <1>2, <5>1
        <4>2. EarlyOK'
          BY Early, PTL
        <4>3. now' <= pods'[p].start + Percent(105, getTimeout(t, p))
          BY <1>1, <1>2, <3>3, <3>4, <3>7
        <4>4. a <= now' + Percent(5, getTimeout(t, p))
          BY <1>1, <4>1
        <4>5. NotLate(t, p, a)'
          BY <1>4, <3>2, <4>2, <4>3, <4>4 DEF EarlyOK
        <4> QED
          BY <1>1, <3>2, <4>1, <4>5 DEF Treated, NotLate, Deadline
      <3> QED
        BY <3>6, <3>7
    <2> QED
      BY <2>3, <2>4
  <1> QED
    BY <1>12, <1>13

LEMMA IdleOwnerLate ==
  ASSUME LongTimeouts, NoServingRuntime, LateInv, TimeInv', IdleOwner
  PROVE  LateInv'
  <1>1. /\ TypeOK /\ TypeOK' /\ TimeInv /\ DownOK /\ UNCHANGED <<now, idler, icache>>
        /\ UNCHANGED pods /\ work.tree # <<>>
        /\ ~ Head(work.tree).deleting /\ Known(Head(work.tree).owner)
    BY DEF LateInv, TimeInv, IndInv, IdleOwner
  <1>2. pc = "owners" /\ pc' = "owners" /\ SamePass /\ work'.pod = work.pod
    BY <1>1, IdleOwnerStep
  <1>3. work \in Work /\ work.pod \in Pods
    BY <1>1, <1>2, InLoop
  <1>4. PICK o \in Owners : o = Head(work.tree).owner
    <2>1. work.tree \in Seq([owner: Owners, deleting: BOOLEAN])
      BY <1>3 DEF Work
    <2>2. Head(work.tree) \in [owner: Owners, deleting: BOOLEAN]
      BY <1>1, <2>1, HeadTailProperties
    <2> QED
      BY <2>2
  <1>5. PICK p \in Pods : p = work.pod
    BY <1>3
  <1>6. \/ owners[o].state = "gone" /\ AfterOwner("missing") /\ UNCHANGED owners /\ UNCHANGED others
        \/ /\ owners[o].state # "gone" /\ owners' = [owners EXCEPT ![o] = Idled(o)]
           /\ AfterOwner("none") /\ UNCHANGED others
        \/ AfterOwner("failed") /\ Fault /\ UNCHANGED owners
    BY <1>4 DEF IdleOwner
  <1>7. Plain
    <2>1. CASE UNCHANGED owners /\ (UNCHANGED others \/ Fault)
      BY <1>1, <2>1, SamePods, PlainPods
    <2>2. CASE owners[o].state # "gone" /\ owners' = [owners EXCEPT ![o] = Idled(o)] /\ UNCHANGED others
      <3>1. IdledTo(o) /\ DownOK'
        BY <1>1, <2>2, IdledOne
      <3>2. \A q \in Pods : Mild(q)
        BY <1>1, <2>2, <3>1, IdleMild DEF Mild
      <3> QED
        BY <1>1, <2>2, <3>1, <3>2 DEF Plain
    <2> QED
      BY <1>6, <2>1, <2>2
  <1>8. ASSUME ~ pending', work'.err # "failed", Watched(p)' PROVE Treated(p)' \/ Walked(p)'
    <2>1. PICK err \in {"none", "missing", "failed"} : AfterOwner(err) /\
            \/ err = "missing" /\ owners[o].state = "gone"
            \/ /\ err = "none" /\ owners[o].state # "gone" /\ UNCHANGED others
               /\ owners' = [owners EXCEPT ![o] = Idled(o)]
            \/ err = "failed"
      BY <1>6
    <2>2. work'.err = Join(work.err, err)
      BY <1>1, <1>3, <2>1, AfterOwnerFields
    <2>3. work.err # "failed" /\ (work.err = "none" => err # "failed")
      BY <1>8, <2>2 DEF Join
    <2>4. ~ pending /\ Watched(p)
      BY <1>1, <1>2, <1>8 DEF SamePass, Watched, Aged
    <2>5. Treated(p) \/ Walked(p)
      BY <1>2, <1>5, <2>3, <2>4 DEF LateInv, PodNotLate
    <2>6. CASE Treated(p)
      <3>1. Fresh(p)' \/ LateKept(p)
        BY <1>7, <1>8 DEF Plain, Mild
      <3> QED
        BY <1>1, <1>2, <1>5, <1>8, <2>6, <3>1, TreatedKept DEF SamePass
    <2>7. CASE Walked(p)
      <3>1. work.err = "none" /\ err # "failed"
        BY <2>3, <2>7 DEF Walked
      <3>2. owners[o].state # "gone"
        <4>1. PICK m \in 0..Len(Chain[p]) : WalkedTo(p, m)
          BY <2>7 DEF Walked
        <4>2. m + 1 \in DOMAIN Chain[p] /\ o = Chain[p][m + 1] /\ InReach(p, m + 1)
          BY <1>1, <1>3, <1>4, <4>1, WalkOn
        <4>3. m + 1 \in (m + 1)..Len(Chain[p])
          BY <4>2, IdlerAssumption
        <4> QED
          BY <4>2, <4>3 DEF InReach
      <3> QED
        BY <1>1, <1>2, <1>4, <1>5, <2>1, <2>4, <2>7, <3>1, <3>2, IdleWalk
    <2> QED
      BY <2>5, <2>6, <2>7
  <1>9. PodNotLate'
    BY <1>2, <1>5, <1>8, SameTreated DEF PodNotLate
  <1> QED
    BY <1>2, <1>7, <1>9, SamePassLate

(* A pod is left to its owners if the only one that idling acts on is      *)
(* down, and nothing below it is being deleted or the pod is young.        *)
LEMMA WalkEnds ==
  ASSUME LongTimeouts, LateInv, pc = "owners", ~ pending, work.tree = <<>>, Managed,
         NEW p \in Pods, p = work.pod, Walked(p)
  PROVE  Treated(p)
  <1>1. TimeInv /\ TypeOK /\ DownOK
    BY DEF LateInv, TimeInv, IndInv
  <1>2. /\ LoopOK /\ work \in Work /\ work.copy.timeout \in Timeouts /\ work.copy.timeout > 0
        /\ p \in work.todo /\ now \in Int
    BY <1>1, InLoop
  <1>3. DOMAIN Chain[p] = 1..Len(Chain[p]) /\ Len(Chain[p]) \in Nat
        /\ \A i \in DOMAIN Chain[p] : Chain[p][i] \in Owners
    BY IdlerAssumption
  <1>4. PICK m \in 0..Len(Chain[p]) : WalkedTo(p, m)
    BY DEF Walked
  <1>5. m = Len(Chain[p])
    <2>1. Len(work.tree) = 0
      OBVIOUS
    <2>2. 0 = Len(Chain[p]) - m
      BY <1>4, <2>1 DEF WalkedTo
    <2> QED
      BY <1>3, <2>2
  <1>6. PICK j \in DOMAIN Chain[p] :
            /\ LiveAt(p, j) /\ owners[Chain[p][j]].state = "down"
            /\ \A k \in DOMAIN Chain[p] : LiveAt(p, k) => k = j
            /\ work.attempted => \A k \in (j + 1)..Len(Chain[p]) : ~ Deleting(Chain[p][k])
    BY <1>3, <1>4, <1>5 DEF WalkedTo, Managed
  <1>7. \A i \in DOMAIN Chain[p] : FirstTwo(p, i) => i = j
    BY <1>6 DEF FirstTwo
  <1>8. BothDown(p)
    BY <1>6, <1>7 DEF BothDown
  <1>9. CASE work.attempted
    <2>1. Handled(p)
      BY <1>6, <1>9 DEF Handled
    <2>2. Stable(p)
      BY <1>1, <1>3, <1>6, <1>7, <2>1 DEF Stable, DownOK
    <2> QED
      BY <1>8, <2>2 DEF Treated, NotLate
  <1>10. CASE ~ work.attempted
    <2>1. PICK t \in Timeouts : t = work.copy.timeout /\ t > 0
      BY <1>2
    <2>2. PICK again \in Int : again = Percent(5, getTimeout(t, p))
      BY <2>1, LongEnough
    <2>3. PICK last \in Int : last = Percent(110, getTimeout(t, p))
      BY <2>1, LongEnough, Percentages
    <2>4. PICK start \in Nat : start = pods[p].start
      BY <1>1, Times DEF TimesOK
    <2>5. work.list[p].start = start
      BY <1>2, <2>4 DEF LoopOK
    <2>6. ~ (now > start + last)
      BY <1>10, <2>1, <2>3, <2>5 DEF Managed
    <2>7. Deadline(t, p, 110) \in Int /\ Deadline(t, p, 110) >= start + last + again
      <3>1. DeadlinesOK
        BY <1>1, Deadlines
      <3> QED
        BY <2>1, <2>2, <2>3, <2>4, <3>1 DEF DeadlinesOK
    <2>8. now + again <= Deadline(t, p, 110) + 1
      BY <1>2, <2>2, <2>3, <2>4, <2>6, <2>7
    <2>9. NotLate(t, p, now + again)
      BY <1>8, <2>8 DEF NotLate
    <2> QED
      BY <2>1, <2>2, <2>9 DEF Treated
  <1> QED
    BY <1>9, <1>10

LEMMA DeletePodLate ==
  ASSUME LongTimeouts, LateInv, TimeInv', DeletePod
  PROVE  LateInv'
  <1>1. /\ TypeOK /\ TypeOK' /\ TimeInv /\ UNCHANGED <<now, idler, icache, pending>>
        /\ UNCHANGED others \/ Fault
        /\ work.tree = <<>>
    BY DEF LateInv, TimeInv, IndInv, DeletePod, OwnersDone
  <1>2. /\ pc = "owners" /\ work.err = "none" /\ UNCHANGED owners
        /\ \/ FailedStep
           \/ KilledStep /\ pods'[work.pod].deleted
           \/ /\ SamePass /\ OwnersOK' /\ pc' = "notify" /\ work' = work
              /\ pods'[work.pod].deleted \/ (Managed /\ UNCHANGED pods)
    BY <1>1, DeletePodStep
  <1>3. Plain
    <2>1. \A p \in Pods : PodKept(p)
      BY <1>2, SamePods DEF FailedStep, KilledStep, SamePass
    <2> QED
      BY <1>1, <1>2, <2>1, PlainPods
  <1>4. PICK p \in Pods : p = work.pod
    BY <1>1, <1>2, InLoop
  <1>5. CASE FailedStep
    BY <1>3, <1>5, FailedLate
  <1>6. CASE KilledStep /\ pods'[work.pod].deleted
    <2>1. \A q \in Pods : q = work.pod => ~ Watched(q)'
      BY <1>6 DEF Watched, Aged
    <2> QED
      BY <1>3, <1>6, <2>1, KilledLate
  <1>7. CASE /\ SamePass /\ pc' = "notify" /\ work' = work
             /\ pods'[work.pod].deleted \/ (Managed /\ UNCHANGED pods)
    <2>1. ASSUME ~ pending', Watched(p)' PROVE Treated(p)'
      <3>1. Managed /\ UNCHANGED pods
        BY <1>4, <1>7, <2>1 DEF Watched, Aged
      <3>2. ~ pending /\ Watched(p)
        BY <1>1, <2>1, <3>1 DEF Watched, Aged
      <3>3. Treated(p) \/ Walked(p)
        BY <1>2, <1>4, <3>2 DEF LateInv, PodNotLate
      <3>4. Treated(p)
        BY <1>1, <1>2, <1>4, <3>1, <3>2, <3>3, WalkEnds
      <3>5. Fresh(p)' \/ LateKept(p)
        BY <1>3, <2>1 DEF Plain, Mild
      <3> QED
        BY <1>1, <1>2, <1>4, <1>7, <2>1, <3>4, <3>5, TreatedKept
    <2>2. PodNotLate'
      BY <1>4, <1>7, <2>1, SameTreated DEF PodNotLate
    <2> QED
      BY <1>2, <1>3, <1>7, <2>2, SamePassLate
  <1> QED
    BY <1>2, <1>5, <1>6, <1>7

(* A pod whose owners are missing was treated before.                      *)
LEMMA OwnersFailedLate ==
  ASSUME LongTimeouts, LateInv, TimeInv', OwnersFailed
  PROVE  LateInv'
  <1>1. /\ TimeInv /\ UNCHANGED <<now, idler, icache, pending>>
        /\ UNCHANGED others /\ UNCHANGED owners /\ UNCHANGED pods
    BY DEF LateInv, OwnersFailed
  <1>2. Plain
    BY <1>1, SamePods, PlainPods
  <1>3. CASE FailedStep
    BY <1>2, <1>3, FailedLate
  <1>4. CASE KilledStep /\ pc = "owners" /\ work.err = "missing"
    <2>1. ASSUME NEW p \in Pods, p = work.pod, ~ pending, Watched(p)' PROVE Treated(p)
      <3>1. Watched(p)
        BY <1>1, <2>1 DEF Watched, Aged
      <3> QED
        BY <1>4, <2>1, <3>1 DEF LateInv, PodNotLate, Walked
    <2> QED
      BY <1>2, <1>4, <2>1, KilledLate
  <1> QED
    BY <1>1, <1>3, <1>4, OwnersFailedStep

LEMMA NotificationLate ==
  ASSUME LongTimeouts, LateInv, TimeInv',
         (\E n \in EmailCounts : CreateNotification(n)) \/ RecordNotification
  PROVE  LateInv'
  <1>1. /\ TypeOK /\ TypeOK' /\ TimeInv /\ UNCHANGED <<now, icache, pending>>
        /\ UNCHANGED others \/ Fault
    BY DEF LateInv, TimeInv, IndInv, CreateNotification, RecordNotification
  <1>2. /\ pc \in {"notify", "record"} /\ UNCHANGED owners /\ UNCHANGED pods
        /\ \/ KilledStep
           \/ SamePass /\ OwnersOK' /\ pc' = "record" /\ work' = work
    BY <1>1, NotificationStep
  <1>3. idler'.timeout = idler.timeout
    <2>1. idler \in IdlerObject
      BY <1>1 DEF TypeOK
    <2>2. idler' = idler \/ \E note \in Notes : idler' = [idler EXCEPT !.note = note]
      BY DEF CreateNotification, RecordNotification, Noted, Notes
    <2> QED
      BY <2>1, <2>2 DEF IdlerObject
  <1>4. Plain
    BY <1>1, <1>2, <1>3, SamePods, PlainPods
  <1>5. ASSUME NEW p \in Pods, p = work.pod, ~ pending, Watched(p)' PROVE Watched(p) /\ Treated(p)
    <2>1. Watched(p)
      BY <1>2, <1>5 DEF Watched, Aged
    <2> QED
      BY <1>2, <1>5, <2>1 DEF LateInv, PodNotLate
  <1>6. CASE KilledStep
    BY <1>4, <1>5, <1>6, KilledLate
  <1>7. CASE SamePass /\ pc' = "record" /\ work' = work
    <2>1. PICK p \in Pods : p = work.pod
      BY <1>1, <1>2, InLoop
    <2>2. ASSUME ~ pending', Watched(p)' PROVE Treated(p)'
      <3>1. Treated(p)
        BY <1>1, <1>5, <2>1, <2>2
      <3>2. Fresh(p)' \/ LateKept(p)
        BY <1>4, <2>2 DEF Plain, Mild
      <3> QED
        BY <1>1, <1>2, <1>7, <2>1, <2>2, <3>1, <3>2, TreatedKept
    <2>3. PodNotLate'
      BY <1>7, <2>1, <2>2, SameTreated DEF PodNotLate
    <2> QED
      BY <1>2, <1>4, <1>7, <2>3, SamePassLate
  <1> QED
    BY <1>2, <1>6, <1>7

LEMMA ListFailsLate ==
  ASSUME LongTimeouts, LateInv, TimeInv', ListFails
  PROVE  LateInv'
  <1>1. /\ TimeInv /\ UNCHANGED <<now, idler, icache>> /\ Fault
        /\ UNCHANGED owners /\ UNCHANGED pods
    BY DEF LateInv, ListFails
  <1>2. Plain
    BY <1>1, SamePods, PlainPods
  <1> QED
    BY <1>1, <1>2, ListFailsStep, FailedLate

LEMMA EndPodsLate ==
  ASSUME LongTimeouts, LateInv, TimeInv', EndPods
  PROVE  LateInv'
  <1>1. /\ TimeInv /\ TypeOK' /\ UNCHANGED <<now, idler, icache>> /\ UNCHANGED others
        /\ UNCHANGED owners /\ UNCHANGED pods
    BY DEF LateInv, TimeInv, IndInv, EndPods
  <1>2. Plain
    BY <1>1, SamePods, PlainPods
  <1>3. LoopStep /\ pc' = "status" /\ work'.todo = work.todo
    BY <1>1, EndPodsLoop
  <1>4. LoopNotLate'
    BY <1>2, <1>3, LoopLate DEF Plain
  <1>5. RestNotLate' /\ PodNotLate'
    BY <1>3 DEF RestNotLate, PodNotLate
  <1> QED
    BY <1>1, <1>2, <1>4, <1>5, PlainLate DEF LateInv

(* The check that is asked for becomes the next one.                       *)
LEMMA SetStatusLate ==
  ASSUME LongTimeouts, LateInv, TimeInv', SetStatus
  PROVE  LateInv'
  <1>1. /\ pc = "status" /\ pc' = "rest" /\ now' = now /\ icache' = icache
        /\ UNCHANGED pods /\ UNCHANGED owners /\ (UNCHANGED others \/ Fault)
    BY DEF SetStatus
  <1>2. /\ TimeInv /\ TypeOK /\ TypeOK' /\ LoopOK /\ LoopNotLate /\ work \in Work
    BY <1>1 DEF LateInv, TimeInv, IndInv, WorkOK
  <1>3. idler'.timeout = idler.timeout
    <2>1. idler \in IdlerObject
      BY <1>2 DEF TypeOK
    <2>2. idler' = idler \/ idler' = [idler EXCEPT !.ready = work.reason]
      BY DEF SetStatus
    <2> QED
      BY <2>1, <2>2 DEF IdlerObject
  <1>4. Plain
    BY <1>1, <1>3, SamePods, PlainPods
  <1>5. ASSUME ~ pending', icache'.timeout > 0, NEW p \in Pods, Watched(p)'
        PROVE  NotLate(icache.timeout, p, due)'
    <2>1. ~ pending /\ ~ work.failed
      BY <1>5 DEF SetStatus
    <2>2. /\ work.copy.timeout = icache.timeout /\ work.copy.timeout > 0
          /\ work.after > 0 /\ work.reason = "Running" /\ work.todo = {}
      BY <1>1, <1>2, <1>5, <2>1 DEF LoopOK
    <2>3. AddAfter(work.after)
      BY <1>5, <2>1, <2>2 DEF SetStatus
    <2>4. /\ work.copy.timeout \in Timeouts /\ work.after \in Int /\ now \in Nat
          /\ due \in Nat \cup {NotScheduled}
      <3>1. work.copy \in IdlerObject
        BY <1>2 DEF Work
      <3> QED
        BY <1>2, <3>1, WorkNumbers DEF TypeOK, IdlerObject
    <2>5. due' <= now + work.after /\ due' \in Int
      BY <2>2, <2>3, <2>4 DEF AddAfter, NotScheduled
    <2>6. PICK t \in Timeouts : t = icache.timeout /\ t = work.copy.timeout /\ t > 0
      BY <2>2, <2>4
    <2>7. PICK a \in Int : a = now + work.after
      BY <2>4
    <2>8. PICK b \in Int : b = due' /\ b <= a
      BY <2>5, <2>7
    <2>9. Watched(p) /\ pods'[p].start = pods[p].start
      BY <1>1, <1>5 DEF Watched, Aged
    <2>10. NotLate(t, p, a)
      BY <1>1, <1>2, <2>1, <2>2, <2>6, <2>7, <2>9 DEF LoopNotLate
    <2>11. LateKept(p)
      <3>1. ChainSame(p) /\ retimed' = retimed /\ faults' >= faults
        BY <1>1, <1>2, CountersKept DEF ChainSame
      <3>2. Disturbed(p)' >= Disturbed(p)
        <4>1. Touched(p)' = Touched(p)
          BY <3>1, SameChain
        <4>2. Disturbed(p)' = Disturbed(p) /\ Disturbed(p) \in Nat
          BY <1>2, <3>1, <4>1, Times DEF Disturbed, TimesOK
        <4> QED
          BY <4>2
      <3> QED
        BY <2>9, <3>1, <3>2, SameChain DEF LateKept, StepKeeps
    <2>12. NotLate(t, p, b)'
      BY <1>2, <2>6, <2>8, <2>10, <2>11, LateStays
    <2> QED
      BY <1>1, <2>6, <2>8, <2>12 DEF NotLate, Deadline
  <1>6. RestNotLate'
    BY <1>5 DEF RestNotLate
  <1>7. LoopNotLate' /\ PodNotLate'
    BY <1>1 DEF LoopNotLate, PodNotLate
  <1> QED
    BY <1>2, <1>4, <1>6, <1>7, PlainLate DEF LateInv

LEMMA ReconcileLate ==
  ASSUME LongTimeouts, NoServingRuntime, LateInv, TimeInv', Reconcile
  PROVE  LateInv'
  <1>1. ASSUME NEW p \in Pods, NEW n \in 0..Len(Chain[p]), FetchOwners(p, n) PROVE LateInv'
    <2>1. n \in Nat
      BY IdlerAssumption
    <2> QED
      BY <1>1, <2>1, FetchOwnersLate
  <1>2. ASSUME (\E n \in EmailCounts : CreateNotification(n)) \/ RecordNotification PROVE LateInv'
    BY <1>2, NotificationLate
  <1> QED
    BY <1>1, <1>2, StartReconcileLate, EndPodsLate, SetStatusLate, ListFailsLate, PassPodLate,
       SkipOwnerLate, IdleOwnerLate, OwnersFailedLate, DeletePodLate
    DEF Reconcile

LEMMA NextLate ==
  ASSUME LongTimeouts, NoServingRuntime
  PROVE  LateInv /\ [Next]_vars => LateInv'
  <1> SUFFICES ASSUME LateInv, [Next]_vars PROVE LateInv'
    OBVIOUS
  <1>1. TimeInv'
    BY NextTime DEF LateInv
  <1>2. CASE Next
    BY <1>1, <1>2, ReconcileLate, EnvironmentLate DEF Next
  <1>3. CASE UNCHANGED vars
    <2>1. /\ UNCHANGED <<pc, work, now, idler, icache, due, pending, faults, retimed>>
          /\ UNCHANGED owners /\ UNCHANGED pods
      BY <1>3 DEF vars
    <2>2. \A p \in Pods : OwnersKept(p) /\ PodKept(p)
      BY <2>1, SameOwners, SamePods
    <2>3. TypeOK /\ now' >= now /\ faults' >= faults
      BY <2>1 DEF LateInv, TimeInv, IndInv, TypeOK
    <2>4. Quiet
      BY <2>1, <2>2, <2>3 DEF Quiet
    <2>5. \A p \in Pods : Calm(p)
      BY <2>1, <2>2, <2>3, Undisturbed
    <2>6. RetimedOK' /\ DownOK'
      BY <2>1 DEF LateInv, RetimedOK, DownOK
    <2>7. Aside
      BY <2>1, <2>4, <2>5, <2>6 DEF Aside
    <2> QED
      BY <1>1, <2>7, AsideLate
  <1> QED
    BY <1>2, <1>3

LEMMA InitLate == Init => LateInv
  <1> SUFFICES ASSUME Init PROVE LateInv
    OBVIOUS
  <1>1. TimeInv
    BY InitTime
  <1>2. /\ pc = "rest" /\ pending = TRUE /\ icache = idler
        /\ owners = [o \in Owners |-> [state |-> "up", since |-> 0]]
        /\ pods = [p \in Pods |-> NoPod]
    BY DEF Init
  <1>3. \A p \in Pods : ~ Watched(p)
    BY <1>2 DEF Watched, Aged, Started, NoPod
  <1>4. DownOK
    BY <1>2 DEF DownOK
  <1> QED
    BY <1>1, <1>2, <1>3, <1>4
    DEF LateInv, RetimedOK, NowNotLate, RestNotLate, LoopNotLate, PodNotLate

(* At rest the next check lies ahead: what it is not too late for has been *)
(* done if the deadline is over.                                           *)
LEMMA LateTreats ==
  ASSUME LongTimeouts, LateInv
  PROVE  SecondOwnerIdled /\ PodDeletedAtLast
  <1> SUFFICES ASSUME AtRest, NEW p \in Pods, Tracked(p)
               PROVE  /\ now > Deadline(idler.timeout, p, 105) => BothDown(p)
                      /\ now > Deadline(idler.timeout, p, 110) => Handled(p)
    BY DEF SecondOwnerIdled, PodDeletedAtLast
  <1>1. /\ pc = "rest" /\ ~ pending /\ icache = idler /\ idler.timeout > 0
        /\ Watched(p) /\ ~ (due # NotScheduled /\ now >= due)
    BY DEF AtRest, Tracked, Ageing, Watched, Aged
  <1>2. TypeOK /\ RestOK /\ RestNotLate
    BY DEF LateInv, TimeInv, IndInv
  <1>3. PICK t \in Timeouts : t = idler.timeout /\ t > 0
    BY <1>1, <1>2, CacheTypes
  <1>4. due # NotScheduled /\ NotLate(t, p, due)
    BY <1>1, <1>2, <1>3 DEF RestOK, RestNotLate
  <1>5. due \in Int /\ now \in Int
    BY <1>2, <1>4 DEF TypeOK
  <1>6. now < due
    BY <1>1, <1>4, <1>5
  <1>7. Deadline(t, p, 105) \in Int /\ Deadline(t, p, 110) \in Int
    BY <1>2, <1>3, Deadlines DEF DeadlinesOK
  <1>8. now > Deadline(t, p, 105) => BothDown(p)
    BY <1>4, <1>5, <1>6, <1>7 DEF NotLate
  <1>9. now > Deadline(t, p, 110) => Handled(p)
    BY <1>4, <1>5, <1>6, <1>7 DEF NotLate, Stable
  <1> QED
    BY <1>3, <1>8, <1>9

(* LateInv is an invariant: whatever the host, the users, the controllers  *)
(* of the owners and the watch do, and whatever calls fail, no check that  *)
(* is or will be asked for (idler_controller.go:186) is too late for a pod *)
(* whose second owner is to be idled (owners.go:46) or that is to be       *)
(* deleted (owners.go:109); and a check that comes then does it.           *)
THEOREM LateInvariance ==
  ASSUME LongTimeouts, NoServingRuntime
  PROVE  Spec => []LateInv
  BY InitLate, NextLate, PTL DEF Spec

(* The owners.go:46 promise holds for chains of any length: after 105% of  *)
(* its timeout, and one check more for every failed call and every owner   *)
(* that was deleted, a pod at rest has the first two of the owners that    *)
(* scaleOwnerToZero finds scaled down.                                     *)
THEOREM SecondIdled ==
  ASSUME LongTimeouts, NoServingRuntime
  PROVE  Spec => []SecondOwnerIdled
  BY LateInvariance, LateTreats, PTL

(* No pod is left behind by owners that do not react: after 110% of its    *)
(* timeout (owners.go:109), and the same checks more, it was deleted or    *)
(* idling still has an owner to act on.                                    *)
THEOREM LastDeleted ==
  ASSUME LongTimeouts, NoServingRuntime
  PROVE  Spec => []PodDeletedAtLast
  BY LateInvariance, LateTreats, PTL
=============================================================================
