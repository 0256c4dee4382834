---------------------- MODULE AdmissionWebhooks_proofs ----------------------
(***************************************************************************)
(* Proofs about AdmissionWebhooks, for every set of VirtualMachines, users'*)
(* objects, replicas and requests under way.                               *)
(***************************************************************************)
EXTENDS AdmissionWebhooks, TLAPS

\* What is known of a request at each phase: what has been checked about its
\* object, and against which stored object.
RequestInv(r) ==
    /\ DOMAIN r = {"phase", "kind", "op", "user", "obj", "asked", "base",
                   "missed", "failed", "keys"}
    /\ r.phase \in {"mutate", "validate", "store"} /\ r.kind \in Kinds
    /\ (r.op = "CREATE" /\ r.base = 0) \/ (r.op = "UPDATE" /\ r.base # 0)
    /\ r.base \in Nat /\ r.base <= revision
    /\ r.phase = "mutate" => r.op = "CREATE" /\ r.obj \in Objects(r.kind)

VMInv(r) ==
    r.kind = "vm" =>
        /\ r.op = "CREATE" /\ r.phase # "mutate" => r.obj.runStrategy = "Manual"
        /\ r.phase = "store" =>
              /\ r.obj.runStrategy \in {"none", "Manual"}
              /\ r.obj.grace.kind = "int" => r.obj.grace.secs <= 180

OthersInv(r) ==
    /\ r.kind = "pod" /\ r.phase # "mutate" /\ ~r.missed => r.obj.priority = "sandbox-users-pods"
    /\ r.kind = "rb" /\ r.phase = "store" /\ r.user = "sandbox" /\ r.obj.wide > 0 /\ ~r.missed =>
          r.failed = r.obj.wide
    /\ r.kind = "ssp" /\ r.phase = "store" => r.user = "admin"

\* The comparison of the webhook still holds if the base is still stored
SBRInv(r) ==
    r.kind = "sbr" /\ r.phase = "store" /\ r.op = "UPDATE" /\ store["sbr"].rev = r.base =>
        r.obj.masterUserRecord = store["sbr"].obj.masterUserRecord

StoreInv ==
    /\ DOMAIN store = Kinds /\ DOMAIN requests = Slots
    /\ revision \in Nat
    /\ \A k \in Kinds : store[k].rev \in Nat /\ store[k].rev <= revision

Inv ==
    /\ StoreInv /\ VMWithinRules /\ UntreatedOnlyIfMissed
    /\ \A s \in Slots : requests[s].phase # "none" =>
          /\ RequestInv(requests[s]) /\ VMInv(requests[s])
          /\ OthersInv(requests[s]) /\ SBRInv(requests[s])

---------------------------------------------------------------------------
(* The mutating webhook                                                    *)

\* A patch of one field leaves the others alone.
LEMMA Patched ==
    ASSUME NEW f, NEW x, NEW v
    PROVE  /\ DOMAIN [f EXCEPT ![x] = v] = DOMAIN f
           /\ \A y \in DOMAIN f : y # x => [f EXCEPT ![x] = v][y] = f[y]
           /\ x \in DOMAIN f => [f EXCEPT ![x] = v][x] = v
  OBVIOUS

\* The patches set the run strategy and leave the time to stop alone.
LEMMA MutatedVM ==
    ASSUME NEW vm \in VirtualMachine, NEW sshKeys, SchemaOK(vmMutator(vm, sshKeys))
    PROVE  vmMutator(vm, sshKeys).runStrategy = "Manual"
  <1> DEFINE a == ensureManualRunStrategy(vm)
             b == ensureLimits(a)
             c == ensureTolerations(b)
             d == ensureVolumeConfig(c, sshKeys)
  <1>1. "runStrategy" \in DOMAIN vm /\ "limits" \in DOMAIN vm /\ "tolerations" \in DOMAIN vm
        /\ "cloudInit" \in DOMAIN vm
    BY DEF VirtualMachine
  <1>2. DOMAIN a = DOMAIN vm /\ a.runStrategy \in {"Manual", "notString"}
    BY <1>1 DEF ensureManualRunStrategy, manualRunStrategy
  <1>3. DOMAIN b = DOMAIN vm /\ b.runStrategy = a.runStrategy
    <2> HIDE DEF a
    <2> QED BY <1>1, <1>2 DEF ensureLimits
  <1>4. DOMAIN c = DOMAIN vm /\ c.runStrategy = b.runStrategy
    <2> HIDE DEF b
    <2> QED BY <1>1, <1>3 DEF ensureTolerations
  <1>5. d.runStrategy = c.runStrategy
    <2> HIDE DEF c
    <2> QED BY <1>1, <1>4 DEF ensureVolumeConfig
  <1>6. d = vmMutator(vm, sshKeys)
    BY DEF vmMutator
  <1>7. d.runStrategy # "notString"
    BY <1>6 DEF SchemaOK
  <1> HIDE DEF a, b, c, d
  <1> QED
    BY <1>2, <1>3, <1>4, <1>5, <1>6, <1>7

---------------------------------------------------------------------------
(* Steps                                                                   *)

\* One step of MasterUserRecordKept
MasterUserRecordStep ==
    store["sbr"].rev > 0 /\ store'["sbr"].rev > 0 =>
        store'["sbr"].obj.masterUserRecord = store["sbr"].obj.masterUserRecord

OK(r) == RequestInv(r) /\ VMInv(r) /\ OthersInv(r) /\ SBRInv(r)

LEMMA PassKeeps ==
    ASSUME Inv, NEW s \in Slots, NEW r, Pass(s, r), OK(r)
    PROVE  Inv'
  <1>1. /\ requests' = [requests EXCEPT ![s] = r]
        /\ UNCHANGED <<store, revision>>
    BY DEF Pass
  <1>2. StoreInv' /\ VMWithinRules' /\ UntreatedOnlyIfMissed'
    BY <1>1 DEF Inv, StoreInv, VMWithinRules, UntreatedOnlyIfMissed
  <1>3. ASSUME NEW t \in Slots, requests'[t].phase # "none"
        PROVE  /\ RequestInv(requests[t])' /\ VMInv(requests[t])'
               /\ OthersInv(requests[t])' /\ SBRInv(requests[t])'
    <2>1. CASE t = s
      <3>1. requests'[t] = r
        BY <1>1, <2>1 DEF Inv, StoreInv
      <3> QED
        BY <1>1, <3>1 DEF OK, RequestInv, VMInv, OthersInv, SBRInv
    <2>2. CASE t # s
      <3>1. requests'[t] = requests[t]
        BY <1>1, <2>2 DEF Inv, StoreInv
      <3> QED
        BY <1>1, <1>3, <3>1 DEF Inv, RequestInv, VMInv, OthersInv, SBRInv
    <2> QED
      BY <2>1, <2>2
  <1> QED
    BY <1>2, <1>3 DEF Inv

LEMMA DropKeeps ==
    ASSUME Inv, NEW s \in Slots, Drop(s)
    PROVE  Inv'
  <1>1. /\ requests' = [requests EXCEPT ![s] = NoRequest]
        /\ UNCHANGED <<store, revision>>
    BY DEF Drop
  <1>2. StoreInv' /\ VMWithinRules' /\ UntreatedOnlyIfMissed'
    BY <1>1 DEF Inv, StoreInv, VMWithinRules, UntreatedOnlyIfMissed
  <1>3. ASSUME NEW t \in Slots, requests'[t].phase # "none"
        PROVE  /\ RequestInv(requests[t])' /\ VMInv(requests[t])'
               /\ OthersInv(requests[t])' /\ SBRInv(requests[t])'
    <2>1. requests'[t] = requests[t]
      BY <1>1, <1>3 DEF Inv, StoreInv, NoRequest
    <2> QED
      BY <1>1, <1>3, <2>1 DEF Inv, RequestInv, VMInv, OthersInv, SBRInv
  <1> QED
    BY <1>2, <1>3 DEF Inv

LEMMA ReceiveStep ==
    ASSUME Inv, NEW s \in Slots, NEW k \in Kinds, NEW op \in Operations(k),
           NEW user, NEW obj \in Objects(k), Receive(s, k, op, user, obj)
    PROVE  Inv'
  <1> DEFINE r == [phase |-> FirstPhase(k, op), kind |-> k, op |-> op, user |-> user,
                   obj |-> obj, asked |-> obj, base |-> IF op = "CREATE" THEN 0 ELSE store[k].rev,
                   missed |-> FALSE, failed |-> 0, keys |-> {}]
  <1>1. Pass(s, r) /\ (op = "UPDATE" => store[k].rev > 0)
    BY DEF Receive
  <1>2. op = "CREATE" \/ (op = "UPDATE" /\ k # "pod")
    BY DEF Operations
  <1>3. r.phase \in {"mutate", "validate"} /\ (r.phase = "mutate" <=> k \in Mutated /\ op = "CREATE")
    BY DEF FirstPhase
  <1>4. RequestInv(r)
    <2>1. store[k].rev \in Nat /\ store[k].rev <= revision /\ revision \in Nat
      BY DEF Inv, StoreInv
    <2> QED
      BY <1>1, <1>2, <1>3, <2>1 DEF RequestInv
  <1>5. VMInv(r) /\ OthersInv(r) /\ SBRInv(r)
    BY <1>2, <1>3 DEF VMInv, OthersInv, SBRInv, Mutated
  <1> HIDE DEF r
  <1> QED
    BY <1>1, <1>4, <1>5, PassKeeps DEF OK

LEMMA StoreStep ==
    ASSUME Inv, NEW s \in Slots, Store(s)
    PROVE  Inv' /\ MasterUserRecordStep
  <1> DEFINE r == requests[s]
             o == [rev |-> revision + 1, op |-> r.op, obj |-> r.obj, asked |-> r.asked,
                   user |-> r.user, missed |-> r.missed, failed |-> r.failed, keys |-> r.keys]
  <1>1. /\ r.phase = "store" /\ store[r.kind].rev = r.base
        /\ revision' = revision + 1
        /\ store' = [store EXCEPT ![r.kind] = o]
        /\ requests' = [requests EXCEPT ![s] = NoRequest]
    BY DEF Store, Active
  <1>2. OK(r) /\ r.kind \in Kinds
    BY <1>1 DEF Inv, OK, RequestInv
  <1>3. /\ \A k \in Kinds : store'[k] = IF k = r.kind THEN o ELSE store[k]
        /\ revision \in Nat
    BY <1>1 DEF Inv, StoreInv
  <1>4. StoreInv'
    <2>1. DOMAIN store' = Kinds /\ DOMAIN requests' = Slots /\ revision' \in Nat
      BY <1>1 DEF Inv, StoreInv
    <2>2. \A k \in Kinds : store'[k].rev \in Nat /\ store'[k].rev <= revision'
      BY <1>1, <1>3 DEF Inv, StoreInv
    <2> QED
      BY <2>1, <2>2 DEF StoreInv
  <1>5. VMWithinRules'
    <2>1. CASE r.kind = "vm"
      <3>1. store'["vm"] = o
        BY <1>3, <2>1 DEF Kinds
      <3> QED
        BY <1>1, <1>2, <2>1, <3>1 DEF VMWithinRules, OK, VMInv, RequestInv
    <2>2. CASE r.kind # "vm"
      <3>1. store'["vm"] = store["vm"]
        BY <1>3, <2>2 DEF Kinds
      <3> QED
        BY <3>1 DEF Inv, VMWithinRules
    <2> QED
      BY <2>1, <2>2
  <1>6. UntreatedOnlyIfMissed'
    <2>1. store'["pod"] = store["pod"] \/ (r.kind = "pod" /\ store'["pod"] = o)
      BY <1>3 DEF Kinds
    <2>2. store'["rb"] = store["rb"] \/ (r.kind = "rb" /\ store'["rb"] = o)
      BY <1>3 DEF Kinds
    <2>3. store'["ssp"] = store["ssp"] \/ (r.kind = "ssp" /\ store'["ssp"] = o)
      BY <1>3 DEF Kinds
    <2>4. UntreatedOnlyIfMissed /\ OthersInv(r)
      BY <1>2 DEF Inv, OK
    <2> QED
      BY <1>1, <2>1, <2>2, <2>3, <2>4 DEF UntreatedOnlyIfMissed, OthersInv
  <1>7. ASSUME NEW t \in Slots, requests'[t].phase # "none"
        PROVE  /\ RequestInv(requests[t])' /\ VMInv(requests[t])'
               /\ OthersInv(requests[t])' /\ SBRInv(requests[t])'
    <2>1. requests'[t] = requests[t]
      BY <1>1, <1>7 DEF Inv, StoreInv, NoRequest
    <2>2. RequestInv(requests[t]) /\ VMInv(requests[t]) /\ OthersInv(requests[t]) /\ SBRInv(requests[t])
      BY <1>7, <2>1 DEF Inv
    <2>3. RequestInv(requests[t])'
      BY <1>1, <1>3, <2>1, <2>2 DEF RequestInv
    <2>4. store'["sbr"] = store["sbr"] \/ store'["sbr"].rev # requests[t].base
      BY <1>3, <2>2 DEF RequestInv, Kinds
    <2> QED
      BY <2>1, <2>2, <2>3, <2>4 DEF VMInv, OthersInv, SBRInv
  <1>8. MasterUserRecordStep
    <2>1. store'["sbr"] = store["sbr"] \/ (r.kind = "sbr" /\ store'["sbr"] = o)
      BY <1>3 DEF Kinds
    <2>2. store["sbr"].rev > 0 /\ r.kind = "sbr" => r.op = "UPDATE"
      BY <1>1, <1>2 DEF OK, RequestInv
    <2> QED
      BY <1>1, <1>2, <2>1, <2>2 DEF MasterUserRecordStep, OK, SBRInv
  <1> QED
    BY <1>4, <1>5, <1>6, <1>7, <1>8 DEF Inv

LEMMA ConflictStep ==
    ASSUME Inv, NEW s \in Slots, Conflict(s)
    PROVE  Inv'
  <1> DEFINE r == requests[s]
             q == [r EXCEPT !.phase = "validate", !.base = store[r.kind].rev, !.failed = 0]
  <1>1. CASE Drop(s)
    BY <1>1, DropKeeps
  <1>2. CASE r.op = "UPDATE" /\ store[r.kind].rev > 0 /\ Pass(s, q)
    <2>1. OK(r) /\ r.phase = "store"
      BY DEF Conflict, Active, Inv, OK
    <2>2. /\ DOMAIN q = DOMAIN r
          /\ q.phase = "validate" /\ q.kind = r.kind /\ q.op = r.op /\ q.user = r.user
          /\ q.obj = r.obj /\ q.base = store[r.kind].rev /\ q.missed = r.missed
      <3> DEFINE q1 == [r EXCEPT !.phase = "validate"]
                 q2 == [q1 EXCEPT !.base = store[r.kind].rev]
      <3> HIDE DEF r
      <3>1. q = [q2 EXCEPT !.failed = 0]
        OBVIOUS
      <3> HIDE DEF q, q1, q2
      <3> QED
        BY <2>1, <3>1, Patched DEF OK, RequestInv, q1, q2
    <2>3. store[r.kind].rev \in Nat /\ store[r.kind].rev <= revision
      BY <2>1 DEF Inv, StoreInv, OK, RequestInv
    <2> HIDE DEF q, r
    <2>4. OK(q)
      <3>2. RequestInv(q)
        BY <1>2, <2>1, <2>2, <2>3 DEF OK, RequestInv
      <3>3. VMInv(q) /\ OthersInv(q) /\ SBRInv(q)
        BY <1>2, <2>1, <2>2 DEF OK, VMInv, OthersInv, SBRInv
      <3> QED
        BY <3>2, <3>3 DEF OK
    <2> QED
      BY <1>2, <2>4, PassKeeps DEF q, r
  <1> QED
    BY <1>1, <1>2 DEF Conflict

LEMMA CallFailsStep ==
    ASSUME Inv, NEW s \in Slots, CallFails(s)
    PROVE  Inv'
  <1> DEFINE r == requests[s]
             q == [r EXCEPT !.phase = "store", !.missed = TRUE]
  <1>1. CASE Drop(s)
    BY <1>1, DropKeeps
  <1>2. CASE r.kind \in IgnoredFailures /\ Pass(s, q)
    <2>1. OK(r)
      BY DEF CallFails, Inv, OK
    <2>2. /\ DOMAIN q = DOMAIN r
          /\ q.phase = "store" /\ q.kind = r.kind /\ q.op = r.op /\ q.user = r.user
          /\ q.obj = r.obj /\ q.base = r.base /\ q.missed = TRUE
      <3> DEFINE q1 == [r EXCEPT !.phase = "store"]
      <3> HIDE DEF r
      <3>1. q = [q1 EXCEPT !.missed = TRUE]
        OBVIOUS
      <3> HIDE DEF q, q1
      <3> QED
        BY <2>1, <3>1, Patched DEF OK, RequestInv, q1
    <2> HIDE DEF q, r
    <2>3. OK(q)
      <3>2. RequestInv(q)
        BY <1>2, <2>1, <2>2 DEF OK, RequestInv
      <3>3. VMInv(q) /\ OthersInv(q) /\ SBRInv(q)
        BY <1>2, <2>1, <2>2 DEF OK, VMInv, OthersInv, SBRInv, IgnoredFailures
      <3> QED
        BY <3>2, <3>3 DEF OK
    <2> QED
      BY <1>2, <2>3, PassKeeps DEF q, r
  <1> QED
    BY <1>1, <1>2 DEF CallFails

LEMMA DeleteStep ==
    ASSUME Inv, NEW k \in Kinds, Delete(k)
    PROVE  Inv'
  <1>1. /\ store' = [store EXCEPT ![k] = Absent]
        /\ UNCHANGED <<requests, revision>>
    BY DEF Delete
  <1>2. \A j \in Kinds : store'[j] = store[j] \/ (j = k /\ store'[j] = Absent)
    BY <1>1 DEF Inv, StoreInv
  <1>3. StoreInv'
    BY <1>1, <1>2 DEF Inv, StoreInv, Absent
  <1>4. VMWithinRules' /\ UntreatedOnlyIfMissed'
    <2>1. \A j \in Kinds : store'[j] = store[j] \/ ~(store'[j].rev > 0)
      BY <1>2 DEF Absent
    <2> QED
      BY <2>1 DEF Inv, VMWithinRules, UntreatedOnlyIfMissed, Kinds
  <1>5. ASSUME NEW t \in Slots, requests'[t].phase # "none"
        PROVE  /\ RequestInv(requests[t])' /\ VMInv(requests[t])'
               /\ OthersInv(requests[t])' /\ SBRInv(requests[t])'
    <2>1. RequestInv(requests[t]) /\ VMInv(requests[t]) /\ OthersInv(requests[t]) /\ SBRInv(requests[t])
      BY <1>1, <1>5 DEF Inv
    <2>2. store'["sbr"] = store["sbr"] \/ store'["sbr"].rev = 0
      BY <1>2 DEF Kinds, Absent
    <2> QED
      BY <1>1, <2>1, <2>2 DEF RequestInv, VMInv, OthersInv, SBRInv
  <1> QED
    BY <1>3, <1>4, <1>5 DEF Inv

LEMMA MutateVMStep ==
    ASSUME Inv, NEW s \in Slots, NEW replica \in Replicas, MutateVM(s, replica)
    PROVE  Inv'
  <1> DEFINE r == requests[s]
             vm == vmMutator(r.obj, cache[replica])
             q == [r EXCEPT !.phase = "validate", !.obj = vm, !.keys = cache[replica]]
  <1>1. CASE Drop(s)
    BY <1>1, DropKeeps
  <1>2. CASE SchemaOK(vm) /\ Pass(s, q)
    <2>1. OK(r) /\ r.phase = "mutate" /\ r.kind = "vm"
      BY DEF MutateVM, Active, Inv, OK
    <2>2. r.obj \in VirtualMachine /\ r.op = "CREATE"
      BY <2>1, AdmissionAssumption DEF OK, RequestInv, Objects
    <2>3. vm.runStrategy = "Manual"
      BY <1>2, <2>2, MutatedVM
    <2>4. /\ DOMAIN q = DOMAIN r
          /\ q.phase = "validate" /\ q.kind = r.kind /\ q.op = r.op /\ q.user = r.user
          /\ q.obj = vm /\ q.base = r.base /\ q.missed = r.missed
      <3> DEFINE q1 == [r EXCEPT !.phase = "validate"]
                 q2 == [q1 EXCEPT !.obj = vm]
      <3> HIDE DEF r, vm
      <3>1. q = [q2 EXCEPT !.keys = cache[replica]]
        OBVIOUS
      <3> HIDE DEF q, q1, q2
      <3> QED
        BY <2>1, <3>1, Patched DEF OK, RequestInv, q1, q2
    <2> HIDE DEF q, r, vm
    <2>5. RequestInv(q)
      BY <2>1, <2>2, <2>4 DEF OK, RequestInv
    <2>6. VMInv(q) /\ OthersInv(q) /\ SBRInv(q)
      BY <2>1, <2>3, <2>4 DEF VMInv, OthersInv, SBRInv
    <2> QED
      BY <1>2, <2>5, <2>6, PassKeeps DEF OK, q, r, vm
  <1> QED
    BY <1>1, <1>2 DEF MutateVM

LEMMA MutatePodStep ==
    ASSUME Inv, NEW s \in Slots, MutatePod(s)
    PROVE  Inv'
  <1> DEFINE r == requests[s]
             pod == [r.obj EXCEPT !.priority = "sandbox-users-pods"]
             q == [r EXCEPT !.phase = "store", !.obj.priority = "sandbox-users-pods"]
  <1>1. OK(r) /\ r.phase = "mutate" /\ r.kind = "pod" /\ Pass(s, q)
    BY DEF MutatePod, Active, Inv, OK
  <1>2. pod.priority = "sandbox-users-pods"
    <2>1. r.obj \in [priority : {"own"}]
      BY <1>1 DEF OK, RequestInv, Objects
    <2> QED
      BY <2>1
  <1>3. /\ DOMAIN q = DOMAIN r
        /\ q.phase = "store" /\ q.kind = r.kind /\ q.op = r.op /\ q.user = r.user
        /\ q.obj = pod /\ q.base = r.base /\ q.missed = r.missed
    <2> DEFINE q1 == [r EXCEPT !.phase = "store"]
    <2>1. q1.obj = r.obj /\ DOMAIN q1 = DOMAIN r
      BY <1>1, Patched DEF OK, RequestInv
    <2>2. q = [q1 EXCEPT !.obj = pod]
      BY <2>1
    <2> HIDE DEF q, q1, r, pod
    <2> QED
      BY <1>1, <2>2, Patched DEF OK, RequestInv, q1
  <1> HIDE DEF q, r, pod
  <1>4. RequestInv(q)
    BY <1>1, <1>3 DEF OK, RequestInv
  <1>5. VMInv(q) /\ OthersInv(q) /\ SBRInv(q)
    BY <1>1, <1>2, <1>3 DEF VMInv, OthersInv, SBRInv
  <1> QED
    BY <1>1, <1>4, <1>5, PassKeeps DEF OK, q, r

\* A request that is allowed is the request it was, at another phase.
LEMMA Allowed ==
    ASSUME NEW r, RequestInv(r)
    PROVE  LET q == [r EXCEPT !.phase = "store"] IN
           /\ RequestInv(q)
           /\ q.phase = "store" /\ q.kind = r.kind /\ q.op = r.op /\ q.user = r.user
           /\ q.obj = r.obj /\ q.base = r.base /\ q.missed = r.missed /\ q.failed = r.failed
  <1> DEFINE q == [r EXCEPT !.phase = "store"]
  <1>1. /\ DOMAIN q = DOMAIN r
        /\ q.phase = "store" /\ q.kind = r.kind /\ q.op = r.op /\ q.user = r.user
        /\ q.obj = r.obj /\ q.base = r.base /\ q.missed = r.missed /\ q.failed = r.failed
    BY Patched DEF RequestInv
  <1> HIDE DEF q
  <1>2. RequestInv(q)
    BY <1>1 DEF RequestInv
  <1> QED
    BY <1>1, <1>2 DEF q

LEMMA ValidateVMStep ==
    ASSUME Inv, NEW s \in Slots, ValidateVM(s)
    PROVE  Inv'
  <1> DEFINE r == requests[s]
             q == [r EXCEPT !.phase = "store"]
  <1>1. OK(r) /\ r.phase = "validate" /\ r.kind = "vm"
    BY DEF ValidateVM, Active, Inv, OK
  <1>2. CASE Drop(s)
    BY <1>2, DropKeeps
  <1>3. CASE validateVM(r.obj, r.op) /\ Pass(s, q)
    <2>1. /\ r.op = "UPDATE" => r.obj.runStrategy \in {"none", "Manual"}
          /\ r.obj.grace.kind = "int" => r.obj.grace.secs <= 180
      BY <1>3 DEF validateVM, manualRunStrategy, validateTerminationGracePeriodSeconds,
                  maxTerminationGracePeriodSeconds
    <2> HIDE DEF r
    <2>2. /\ RequestInv(q) /\ q.phase = "store" /\ q.kind = "vm" /\ q.op = r.op /\ q.obj = r.obj
      BY <1>1, Allowed DEF OK
    <2> HIDE DEF q
    <2>3. VMInv(q) /\ OthersInv(q) /\ SBRInv(q)
      BY <1>1, <2>1, <2>2 DEF OK, VMInv, OthersInv, SBRInv, RequestInv
    <2> QED
      BY <1>3, <2>2, <2>3, PassKeeps DEF OK, q, r
  <1> QED
    BY <1>2, <1>3 DEF ValidateVM, Answer

LEMMA ValidateSBRStep ==
    ASSUME Inv, NEW s \in Slots, NEW getFails, ValidateSpaceBindingRequest(s, getFails)
    PROVE  Inv'
  <1> DEFINE r == requests[s]
             q == [r EXCEPT !.phase = "store"]
  <1>1. OK(r) /\ r.phase = "validate" /\ r.kind = "sbr"
    BY DEF ValidateSpaceBindingRequest, Active, Inv, OK
  <1>2. CASE Drop(s)
    BY <1>2, DropKeeps
  <1>3. CASE /\ \/ store["sbr"].rev = 0
                \/ store["sbr"].obj.masterUserRecord = r.obj.masterUserRecord
             /\ Pass(s, q)
    <2> HIDE DEF r
    <2>1. /\ RequestInv(q) /\ q.phase = "store" /\ q.kind = "sbr" /\ q.op = r.op
          /\ q.obj = r.obj /\ q.base = r.base
      BY <1>1, Allowed DEF OK
    <2> HIDE DEF q
    <2>2. VMInv(q) /\ OthersInv(q) /\ SBRInv(q)
      BY <1>1, <1>3, <2>1 DEF OK, VMInv, OthersInv, SBRInv, RequestInv
    <2> QED
      BY <1>3, <2>1, <2>2, PassKeeps DEF OK, q, r
  <1> QED
    BY <1>2, <1>3 DEF ValidateSpaceBindingRequest, Answer

LEMMA ValidateRBStep ==
    ASSUME Inv, NEW s \in Slots, NEW failed \in Nat, ValidateRoleBinding(s, failed)
    PROVE  Inv'
  <1> DEFINE r == requests[s]
             p == [r EXCEPT !.failed = failed]
             q == [p EXCEPT !.phase = "store"]
  <1>1. OK(r) /\ r.phase = "validate" /\ r.kind = "rb"
    BY DEF ValidateRoleBinding, Active, Inv, OK
  <1>2. CASE Drop(s)
    BY <1>2, DropKeeps
  <1>3. CASE (r.user # "sandbox" \/ failed = r.obj.wide) /\ Pass(s, q)
    <2> HIDE DEF r
    <2>1. /\ DOMAIN p = DOMAIN r
          /\ p.phase = r.phase /\ p.kind = r.kind /\ p.op = r.op /\ p.user = r.user
          /\ p.obj = r.obj /\ p.base = r.base /\ p.failed = failed
      BY <1>1, Patched DEF OK, RequestInv
    <2> HIDE DEF p
    <2>2. RequestInv(p)
      BY <1>1, <2>1 DEF OK, RequestInv
    <2>3. /\ RequestInv(q) /\ q.phase = "store" /\ q.kind = "rb" /\ q.user = r.user
          /\ q.obj = r.obj /\ q.failed = failed
      BY <1>1, <2>1, <2>2, Allowed DEF OK
    <2> HIDE DEF q
    <2>4. VMInv(q) /\ OthersInv(q) /\ SBRInv(q)
      BY <1>3, <2>3 DEF VMInv, OthersInv, SBRInv
    <2> QED
      BY <1>3, <2>3, <2>4, PassKeeps DEF OK, q, p, r
  <1> QED
    BY <1>2, <1>3 DEF ValidateRoleBinding, Answer

LEMMA ValidateSSPStep ==
    ASSUME Inv, NEW s \in Slots, NEW getFails, ValidateSSP(s, getFails)
    PROVE  Inv'
  <1> DEFINE r == requests[s]
             q == [r EXCEPT !.phase = "store"]
  <1>1. OK(r) /\ r.phase = "validate" /\ r.kind = "ssp"
    BY DEF ValidateSSP, Active, Inv, OK
  <1>2. CASE Drop(s)
    BY <1>2, DropKeeps
  <1>3. CASE r.user = "admin" /\ Pass(s, q)
    <2> HIDE DEF r
    <2>1. RequestInv(q) /\ q.kind = "ssp" /\ q.user = "admin"
      BY <1>1, <1>3, Allowed DEF OK
    <2> HIDE DEF q
    <2>2. VMInv(q) /\ OthersInv(q) /\ SBRInv(q)
      BY <2>1 DEF VMInv, OthersInv, SBRInv
    <2> QED
      BY <1>3, <2>1, <2>2, PassKeeps DEF OK, q, r
  <1> QED
    BY <1>2, <1>3 DEF ValidateSSP, Answer

\* The configuration is in none of the requests.
LEMMA QuietStep ==
    ASSUME Inv, UNCHANGED <<store, requests, revision>>
    PROVE  Inv' /\ MasterUserRecordStep
  <1>1. StoreInv' /\ VMWithinRules' /\ UntreatedOnlyIfMissed'
    BY DEF Inv, StoreInv, VMWithinRules, UntreatedOnlyIfMissed
  <1>2. ASSUME NEW t \in Slots, requests'[t].phase # "none"
        PROVE  /\ RequestInv(requests[t])' /\ VMInv(requests[t])'
               /\ OthersInv(requests[t])' /\ SBRInv(requests[t])'
    BY <1>2 DEF Inv, RequestInv, VMInv, OthersInv, SBRInv
  <1> QED
    BY <1>1, <1>2 DEF Inv, MasterUserRecordStep

---------------------------------------------------------------------------
(* What the mutating webhook makes of a VirtualMachine                     *)

\* The limits of the patched VirtualMachine: those of the user, else the
\* requests, else, for memory, that of the guest.
Limits(vm) ==
    LET asRequested ==
            [r \in DOMAIN vm.limits \union DOMAIN vm.requests |->
                IF r \in DOMAIN vm.limits THEN vm.limits[r] ELSE vm.requests[r]]
        Guest(m) == [r \in DOMAIN asRequested \union {"memory"} |->
                        IF r = "memory" THEN vm.memory[m] ELSE asRequested[r]]
    IN  IF ~vm.strings THEN vm.limits
        ELSE IF "memory" \in DOMAIN asRequested THEN asRequested
        ELSE IF "maxGuest" \in DOMAIN vm.memory THEN Guest("maxGuest")
        ELSE IF "guest" \in DOMAIN vm.memory THEN Guest("guest")
        ELSE asRequested

\* The patches one by one: each changes its own part and leaves the others alone.
LEMMA Patches ==
    ASSUME NEW vm \in VirtualMachine, NEW sshKeys
    PROVE  LET d == vmMutator(vm, sshKeys)
               type == FirstType(vm)
           IN  /\ DOMAIN d = DOMAIN vm
               /\ d.runStrategy = IF vm.runStrategy = "notString" THEN "notString" ELSE "Manual"
               /\ d.limits = Limits(vm)
               /\ d.tolerations = IF vm.tolerations = {"notAList"} THEN vm.tolerations
                                  ELSE vm.tolerations \union {sandboxToleration}
               /\ d.cloudInit = IF type = "none" THEN vm.cloudInit
                                ELSE [vm.cloudInit EXCEPT ![type] =
                                        IF vm.cloudInit[type].kind = "text"
                                        THEN addSSHKeysToUserData(vm.cloudInit[type], sshKeys)
                                        ELSE defaultUserData(sshKeys)]
               /\ \A f \in {"grace", "volumes", "strings", "requests", "memory"} : d[f] = vm[f]
  <1> DEFINE a == ensureManualRunStrategy(vm)
             b == ensureLimits(a)
             c == ensureTolerations(b)
             d == ensureVolumeConfig(c, sshKeys)
             type == FirstType(vm)
             Fields == {"runStrategy", "grace", "tolerations", "volumes", "cloudInit",
                        "strings", "requests", "limits", "memory"}
  <1>1. DOMAIN vm = Fields
    BY DEF VirtualMachine
  <1>2. /\ DOMAIN a = Fields
        /\ a.runStrategy = IF vm.runStrategy = "notString" THEN "notString" ELSE "Manual"
        /\ \A f \in Fields \ {"runStrategy"} : a[f] = vm[f]
    BY <1>1 DEF ensureManualRunStrategy, manualRunStrategy
  <1>3. /\ DOMAIN b = Fields /\ b.limits = Limits(vm)
        /\ \A f \in Fields \ {"limits"} : b[f] = a[f]
    <2> HIDE DEF a
    <2>1. /\ a.limits = vm.limits /\ a.requests = vm.requests /\ a.memory = vm.memory
          /\ a.strings = vm.strings
      BY <1>2
    <2>2. b = IF ~vm.strings THEN a ELSE [a EXCEPT !.limits = Limits(vm)]
      BY <2>1 DEF ensureLimits, Limits
    <2>3. ~vm.strings => Limits(vm) = a.limits
      BY <2>1 DEF Limits
    <2> HIDE DEF b
    <2> QED
      BY <1>2, <2>2, <2>3
  <1>4. /\ DOMAIN c = Fields
        /\ c.tolerations = IF b.tolerations = {"notAList"} THEN b.tolerations
                           ELSE b.tolerations \union {sandboxToleration}
        /\ \A f \in Fields \ {"tolerations"} : c[f] = b[f]
    <2> HIDE DEF b
    <2> QED
      BY <1>3 DEF ensureTolerations
  <1>5. c.cloudInit = vm.cloudInit
    <2> HIDE DEF a, b, c
    <2> QED
      BY <1>2, <1>3, <1>4
  <1>6. /\ DOMAIN d = Fields
        /\ d.cloudInit = IF type = "none" THEN vm.cloudInit
                         ELSE [vm.cloudInit EXCEPT ![type] =
                                 IF vm.cloudInit[type].kind = "text"
                                 THEN addSSHKeysToUserData(vm.cloudInit[type], sshKeys)
                                 ELSE defaultUserData(sshKeys)]
        /\ \A f \in Fields \ {"cloudInit"} : d[f] = c[f]
    <2> HIDE DEF c
    <2>1. FirstType(c) = type
      BY <1>5 DEF FirstType
    <2> HIDE DEF type
    <2> DEFINE ci == [vm.cloudInit EXCEPT ![type] =
                        IF vm.cloudInit[type].kind = "text"
                        THEN addSSHKeysToUserData(vm.cloudInit[type], sshKeys)
                        ELSE defaultUserData(sshKeys)]
    <2>2. d = IF type = "none" THEN c ELSE [c EXCEPT !.cloudInit = ci]
      BY <1>5, <2>1 DEF ensureVolumeConfig
    <2> HIDE DEF d, ci
    <2>3. /\ DOMAIN d = Fields
          /\ d.cloudInit = IF type = "none" THEN vm.cloudInit ELSE ci
          /\ \A f \in Fields \ {"cloudInit"} : d[f] = c[f]
      BY <1>4, <1>5, <2>2
    <2> QED
      BY <2>3 DEF ci
  <1>7. d = vmMutator(vm, sshKeys)
    BY DEF vmMutator
  <1> HIDE DEF a, b, c, d, type
  <1>8. /\ DOMAIN d = DOMAIN vm
        /\ d.runStrategy = IF vm.runStrategy = "notString" THEN "notString" ELSE "Manual"
        /\ d.limits = Limits(vm)
        /\ d.tolerations = IF vm.tolerations = {"notAList"} THEN vm.tolerations
                           ELSE vm.tolerations \union {sandboxToleration}
        /\ \A f \in {"grace", "volumes", "strings", "requests", "memory"} : d[f] = vm[f]
    BY <1>1, <1>2, <1>3, <1>4, <1>6
  <1> QED
    BY <1>6, <1>7, <1>8 DEF type

\* The limits are maps from resources to quantities.
LEMMA LimitsComplete ==
    ASSUME NEW vm \in VirtualMachine
    PROVE  LET limited == IF ~vm.strings THEN {}
                          ELSE DOMAIN vm.requests \union
                               (IF DOMAIN vm.memory = {} THEN {} ELSE {"memory"})
           IN  /\ Limits(vm) \in PartialMaps(Resources)
               /\ DOMAIN Limits(vm) = DOMAIN vm.limits \union limited
               /\ \A q \in DOMAIN vm.limits : Limits(vm)[q] = vm.limits[q]
               /\ \A q \in (limited \intersect DOMAIN vm.requests) \ DOMAIN vm.limits :
                     Limits(vm)[q] = vm.requests[q]
  <1> DEFINE asRequested ==
                [r \in DOMAIN vm.limits \union DOMAIN vm.requests |->
                    IF r \in DOMAIN vm.limits THEN vm.limits[r] ELSE vm.requests[r]]
             Guest(m) == [r \in DOMAIN asRequested \union {"memory"} |->
                            IF r = "memory" THEN vm.memory[m] ELSE asRequested[r]]
  <1>1. /\ vm.limits \in PartialMaps(Resources) /\ vm.requests \in PartialMaps(Resources)
        /\ vm.memory \in PartialMaps({"guest", "maxGuest"})
    BY DEF VirtualMachine
  <1>2. PICK L \in SUBSET Resources : vm.limits \in [L -> Quantities]
    BY <1>1 DEF PartialMaps
  <1>3. PICK R \in SUBSET Resources : vm.requests \in [R -> Quantities]
    BY <1>1 DEF PartialMaps
  <1>4. PICK G \in SUBSET {"guest", "maxGuest"} : vm.memory \in [G -> Quantities]
    BY <1>1 DEF PartialMaps
  <1>5. /\ DOMAIN vm.limits = L /\ DOMAIN vm.requests = R /\ DOMAIN vm.memory = G
    BY <1>2, <1>3, <1>4
  <1>6. asRequested \in [L \union R -> Quantities] /\ L \union R \in SUBSET Resources
    BY <1>2, <1>3, <1>5
  <1>7. ASSUME NEW S \in SUBSET Resources, NEW f \in [S -> Quantities]
        PROVE  f \in PartialMaps(Resources)
    BY <1>7 DEF PartialMaps
  <1>8. CASE ~vm.strings
    BY <1>1, <1>8 DEF Limits
  <1>9. CASE vm.strings /\ Limits(vm) = asRequested
             /\ ("memory" \in DOMAIN asRequested \/ DOMAIN vm.memory = {})
    BY <1>5, <1>6, <1>7, <1>9
  <1>10. ASSUME NEW m \in G, vm.strings, Limits(vm) = Guest(m), "memory" \notin DOMAIN asRequested
         PROVE  LET limited == DOMAIN vm.requests \union {"memory"}
                IN  /\ Limits(vm) \in PartialMaps(Resources)
                    /\ DOMAIN Limits(vm) = DOMAIN vm.limits \union limited
                    /\ \A q \in DOMAIN vm.limits : Limits(vm)[q] = vm.limits[q]
                    /\ \A q \in (limited \intersect DOMAIN vm.requests) \ DOMAIN vm.limits :
                          Limits(vm)[q] = vm.requests[q]
    <2>1. Guest(m) \in [L \union R \union {"memory"} -> Quantities]
      BY <1>4, <1>6, <1>10
    <2>2. L \union R \union {"memory"} \in SUBSET Resources
      BY DEF Resources
    <2>3. Guest(m) \in PartialMaps(Resources)
      BY <1>7, <2>1, <2>2
    <2>4. \A q \in L \union R : Guest(m)[q] = asRequested[q]
      BY <1>5, <1>6, <1>10
    <2> QED
      BY <1>5, <1>10, <2>1, <2>3, <2>4
  <1>11. \/ ~vm.strings
         \/ /\ vm.strings /\ Limits(vm) = asRequested
            /\ "memory" \in DOMAIN asRequested \/ DOMAIN vm.memory = {}
         \/ /\ vm.strings /\ "memory" \notin DOMAIN asRequested
            /\ \E m \in G : Limits(vm) = Guest(m)
    <2>1. CASE vm.strings /\ "memory" \in DOMAIN asRequested
      BY <2>1 DEF Limits
    <2>2. CASE vm.strings /\ "memory" \notin DOMAIN asRequested
      <3>1. Limits(vm) = IF "maxGuest" \in DOMAIN vm.memory THEN Guest("maxGuest")
                         ELSE IF "guest" \in DOMAIN vm.memory THEN Guest("guest")
                         ELSE asRequested
        BY <2>2 DEF Limits
      <3> HIDE DEF Guest, asRequested
      <3>2. DOMAIN vm.memory = {} \/ "maxGuest" \in DOMAIN vm.memory \/ "guest" \in DOMAIN vm.memory
        BY <1>4, <1>5
      <3> QED
        BY <1>5, <2>2, <3>1, <3>2
    <2> QED
      BY <2>1, <2>2
  <1> QED
    <2>1. G # {} => DOMAIN vm.memory # {}
      BY <1>5
    <2> QED
      BY <1>8, <1>9, <1>10, <1>11, <2>1

\* What a VirtualMachine has once it was mutated for the keys: all that
\* CreatedVMIsComplete asks for if there is a user in one of its texts.
Prepared(asked, obj, keys) ==
    LET limited == IF ~asked.strings THEN {}
                   ELSE DOMAIN asked.requests \union
                        (IF DOMAIN asked.memory = {} THEN {} ELSE {"memory"})
    IN  /\ keys # {}
        /\ \A t \in DOMAIN obj.cloudInit :
              hasUsername(obj.cloudInit[t]) =>
                  /\ obj.cloudInit[t].user
                  /\ obj.cloudInit[t].keys = "list" /\ keys \subseteq obj.cloudInit[t].list
        /\ asked.tolerations \union {sandboxToleration} \subseteq obj.tolerations
        /\ DOMAIN obj.limits = DOMAIN asked.limits \union limited
        /\ \A q \in DOMAIN asked.limits : obj.limits[q] = asked.limits[q]
        /\ \A q \in (limited \intersect DOMAIN asked.requests) \ DOMAIN asked.limits :
              obj.limits[q] = asked.requests[q]

IsRecord(f) == f = [x \in DOMAIN f |-> f[x]]

\* The patches are of the type of VirtualMachines, and prepare it.  A text that
\* the webhook writes itself has no user; every other one of a volume with one
\* source gets the keys.
LEMMA Mutates ==
    ASSUME NEW vm \in VirtualMachine, NEW sshKeys \in SUBSET Keys,
           ~VolumeConfigFails(vm, sshKeys), SchemaOK(vmMutator(vm, sshKeys))
    PROVE  /\ vmMutator(vm, sshKeys) \in VirtualMachine
           /\ Prepared(vm, vmMutator(vm, sshKeys), sshKeys)
  <1> DEFINE d == vmMutator(vm, sshKeys)
             type == FirstType(vm)
             text == IF vm.cloudInit[type].kind = "text"
                     THEN addSSHKeysToUserData(vm.cloudInit[type], sshKeys)
                     ELSE defaultUserData(sshKeys)
  <1>1. /\ DOMAIN d = DOMAIN vm
        /\ d.runStrategy = IF vm.runStrategy = "notString" THEN "notString" ELSE "Manual"
        /\ d.limits = Limits(vm)
        /\ d.tolerations = IF vm.tolerations = {"notAList"} THEN vm.tolerations
                           ELSE vm.tolerations \union {sandboxToleration}
        /\ d.cloudInit = IF type = "none" THEN vm.cloudInit
                         ELSE [vm.cloudInit EXCEPT ![type] = text]
        /\ \A f \in {"grace", "volumes", "strings", "requests", "memory"} : d[f] = vm[f]
    BY Patches
  <1>2. PICK T \in SUBSET supportedCloudInitConfigTypes : vm.cloudInit \in [T -> UserData]
    BY DEF VirtualMachine
  <1>3. DOMAIN vm.cloudInit = T /\ DOMAIN d.cloudInit = T
    BY <1>1, <1>2
  <1>4. type # "none" => type \in T
    BY <1>3 DEF FirstType
  <1>5. "cloudInitNoCloud" \in T => "cloudInitConfigDrive" \notin T
    BY <1>3 DEF SchemaOK
  <1>6. \A t \in T : t = type
    BY <1>3, <1>5 DEF FirstType, supportedCloudInitConfigTypes
  <1>7. sshKeys # {}
    BY DEF VolumeConfigFails
  <1>8. type # "none" =>
            /\ text \in UserData
            /\ text.kind = "text" /\ (text.user => text.keys = "list" /\ sshKeys \subseteq text.list)
    <2> SUFFICES ASSUME type # "none" PROVE
            /\ text \in UserData
            /\ text.kind = "text" /\ (text.user => text.keys = "list" /\ sshKeys \subseteq text.list)
      OBVIOUS
    <2> DEFINE data == vm.cloudInit[type]
    <2>1. data \in UserData
      BY <1>2, <1>4
    <2> HIDE DEF data
    <2>2. CASE data.kind = "text"
      <3> DEFINE list == sshKeys \union (IF data.keys = "list" THEN data.list ELSE {})
      <3>1. list \in SUBSET Keys /\ sshKeys \subseteq list
        BY <2>1 DEF UserData
      <3>2. text = [data EXCEPT !.header = TRUE, !.keys = "list", !.list = list]
        BY <2>2 DEF addSSHKeysToUserData, data
      <3> HIDE DEF list, text
      <3> QED
        BY <2>1, <2>2, <3>1, <3>2 DEF UserData
    <2>3. CASE data.kind # "text"
      <3>1. text = defaultUserData(sshKeys)
        BY <2>3 DEF data
      <3> HIDE DEF text
      <3> QED
        BY <3>1 DEF defaultUserData, UserData
    <2> QED
      BY <2>2, <2>3
  <1> HIDE DEF text
  <1>9. \A t \in T : d.cloudInit[t] = text
    BY <1>1, <1>2, <1>4, <1>6 DEF FirstType, supportedCloudInitConfigTypes
  <1>10. d.cloudInit \in [T -> UserData]
    <2>1. CASE type = "none"
      BY <1>1, <1>2, <2>1
    <2>2. CASE type # "none"
      BY <1>1, <1>2, <1>8, <2>2
    <2> QED
      BY <2>1, <2>2
  <1>11. vm.tolerations # {"notAList"}
    BY <1>1 DEF SchemaOK
  <1> HIDE DEF d, type
  <1>12. Limits(vm) \in PartialMaps(Resources)
    BY LimitsComplete
  <1>13. d \in VirtualMachine
    <2>1. DOMAIN vm = {"runStrategy", "grace", "tolerations", "volumes", "cloudInit",
                       "strings", "requests", "limits", "memory"}
      BY DEF VirtualMachine
    <2>2. /\ d.runStrategy \in {"none", "Manual", "Always", "notString"}
          /\ d.grace \in [kind : {"absent", "int", "other"}, secs : Int]
          /\ d.tolerations \in SUBSET {sandboxToleration, "own", "notAList"}
          /\ d.volumes \in {"none", "others", "cloudinitdisk"}
          /\ d.strings \in BOOLEAN
          /\ d.requests \in PartialMaps(Resources) /\ d.limits \in PartialMaps(Resources)
          /\ d.memory \in PartialMaps({"guest", "maxGuest"})
      <3>1. /\ vm.grace \in [kind : {"absent", "int", "other"}, secs : Int]
            /\ vm.tolerations \in SUBSET {sandboxToleration, "own", "notAList"}
            /\ vm.volumes \in {"none", "others", "cloudinitdisk"}
            /\ vm.strings \in BOOLEAN
            /\ vm.requests \in PartialMaps(Resources)
            /\ vm.memory \in PartialMaps({"guest", "maxGuest"})
        BY DEF VirtualMachine
      <3> QED
        BY <1>1, <1>12, <3>1
    <2>3. d.cloudInit \in UNION {[U -> UserData] : U \in SUBSET supportedCloudInitConfigTypes}
      BY <1>10
    <2>4. d = [f \in DOMAIN vm |-> d[f]]
      <3> DEFINE a == ensureManualRunStrategy(vm)
                 b == ensureLimits(a)
                 c == ensureTolerations(b)
      <3>1. IsRecord(vm)
        BY DEF VirtualMachine, IsRecord
      <3>2. IsRecord(a)
        BY <3>1 DEF ensureManualRunStrategy, IsRecord
      <3>3. IsRecord(b)
        <4> HIDE DEF a
        <4>1. b = a \/ \E v : b = [a EXCEPT !.limits = v]
          BY DEF ensureLimits
        <4> QED
          BY <3>2, <4>1 DEF IsRecord
      <3>4. IsRecord(c)
        <4> HIDE DEF b
        <4> QED
          BY <3>3 DEF ensureTolerations, IsRecord
      <3>5. IsRecord(ensureVolumeConfig(c, sshKeys))
        <4> HIDE DEF c
        <4>1. \/ ensureVolumeConfig(c, sshKeys) = c
              \/ \E v : ensureVolumeConfig(c, sshKeys) = [c EXCEPT !.cloudInit = v]
          BY DEF ensureVolumeConfig
        <4> QED
          BY <3>4, <4>1 DEF IsRecord
      <3> QED
        BY <1>1, <3>5 DEF d, vmMutator, IsRecord
    <2> QED
      BY <2>1, <2>2, <2>3, <2>4 DEF VirtualMachine
  <1>14. Prepared(vm, d, sshKeys)
    <2>1. \A t \in DOMAIN d.cloudInit : hasUsername(d.cloudInit[t]) =>
              /\ d.cloudInit[t].user
              /\ d.cloudInit[t].keys = "list" /\ sshKeys \subseteq d.cloudInit[t].list
      BY <1>3, <1>4, <1>6, <1>8, <1>9, <1>2 DEF hasUsername, supportedCloudInitConfigTypes
    <2>2. vm.tolerations \union {sandboxToleration} \subseteq d.tolerations
      BY <1>1, <1>11
    <2> DEFINE limited == IF ~vm.strings THEN {}
                          ELSE DOMAIN vm.requests \union
                               (IF DOMAIN vm.memory = {} THEN {} ELSE {"memory"})
    <2>3. /\ DOMAIN d.limits = DOMAIN vm.limits \union limited
          /\ \A q \in DOMAIN vm.limits : d.limits[q] = vm.limits[q]
          /\ \A q \in (limited \intersect DOMAIN vm.requests) \ DOMAIN vm.limits :
                d.limits[q] = vm.requests[q]
      <3>1. /\ DOMAIN Limits(vm) = DOMAIN vm.limits \union limited
            /\ \A q \in DOMAIN vm.limits : Limits(vm)[q] = vm.limits[q]
            /\ \A q \in (limited \intersect DOMAIN vm.requests) \ DOMAIN vm.limits :
                  Limits(vm)[q] = vm.requests[q]
        BY LimitsComplete
      <3> HIDE DEF limited
      <3> QED
        BY <1>1, <3>1
    <2> QED
      BY <1>7, <2>1, <2>2, <2>3 DEF Prepared
  <1> QED
    BY <1>13, <1>14 DEF d

---------------------------------------------------------------------------
(* Types, and VirtualMachines that can be reached and started               *)

\* What is known of a request beside RequestInv
Typed(r) ==
    /\ r.op \in Operations(r.kind) /\ r.user \in Users
    /\ r.phase = "mutate" => r.kind \in Mutated
    /\ r.phase = "validate" => r.kind \in Validated
    /\ r.phase # "mutate" => ObjectOK(r.kind, r.obj)

\* A VirtualMachine that is created is first the one that was asked for, then
\* prepared, and then allowed
Created(r) ==
    r.kind = "vm" /\ r.op = "CREATE" =>
        /\ r.phase = "mutate" => r.asked = r.obj
        /\ r.phase # "mutate" => Prepared(r.asked, r.obj, r.keys)
        /\ r.phase = "store" => validateVM(r.obj, r.op)

TypeInv ==
    /\ \A k \in Kinds : IF store[k].rev = 0 THEN store[k] = Absent ELSE ObjectOK(k, store[k].obj)
    /\ \A s \in Slots : requests[s].phase # "none" => Typed(requests[s]) /\ Created(requests[s])
    /\ changes \in Nat
    /\ config \in SUBSET Keys /\ cache \in [Replicas -> SUBSET Keys]
    /\ CreatedVMIsComplete

LEMMA VMObject ==
    ASSUME NEW obj, obj \in VirtualMachine, SchemaOK(obj)
    PROVE  ObjectOK("vm", obj)
  <1>1. ObjectOK("vm", obj) = (obj \in VirtualMachine /\ SchemaOK(obj))
    BY Zenon DEF ObjectOK
  <1> QED
    BY <1>1, Zenon

LEMMA PassTypes ==
    ASSUME Inv, TypeInv, NEW s \in Slots, NEW r, Pass(s, r), Typed(r), Created(r)
    PROVE  TypeInv'
  <1>1. /\ requests' = [requests EXCEPT ![s] = r]
        /\ UNCHANGED <<store, revision, config, cache, changes>>
    BY DEF Pass
  <1>2. \A t \in Slots : requests'[t] = IF t = s THEN r ELSE requests[t]
    BY <1>1 DEF Inv, StoreInv
  <1>3. CreatedVMIsComplete'
    BY <1>1 DEF TypeInv, CreatedVMIsComplete
  <1>4. \A t \in Slots : requests'[t].phase # "none" => Typed(requests'[t]) /\ Created(requests'[t])
    BY <1>2 DEF TypeInv
  <1> QED
    BY <1>1, <1>3, <1>4 DEF TypeInv

LEMMA DropTypes ==
    ASSUME Inv, TypeInv, NEW s \in Slots, Drop(s)
    PROVE  TypeInv'
  <1>1. /\ requests' = [requests EXCEPT ![s] = NoRequest]
        /\ UNCHANGED <<store, revision, config, cache, changes>>
    BY DEF Drop
  <1>2. \A t \in Slots : requests'[t] = IF t = s THEN NoRequest ELSE requests[t]
    BY <1>1 DEF Inv, StoreInv
  <1>3. CreatedVMIsComplete'
    BY <1>1 DEF TypeInv, CreatedVMIsComplete
  <1>4. \A t \in Slots : requests'[t].phase # "none" => Typed(requests'[t]) /\ Created(requests'[t])
    BY <1>2 DEF TypeInv, NoRequest
  <1> QED
    BY <1>1, <1>3, <1>4 DEF TypeInv

LEMMA ReceiveTypes ==
    ASSUME Inv, TypeInv, NEW s \in Slots, NEW k \in Kinds, NEW op \in Operations(k),
           NEW user \in Requesters(k), NEW obj \in Objects(k), Receive(s, k, op, user, obj)
    PROVE  TypeInv'
  <1> DEFINE r == [phase |-> FirstPhase(k, op), kind |-> k, op |-> op, user |-> user,
                   obj |-> obj, asked |-> obj, base |-> IF op = "CREATE" THEN 0 ELSE store[k].rev,
                   missed |-> FALSE, failed |-> 0, keys |-> {}]
  <1>1. Pass(s, r) /\ (op = "UPDATE" /\ k = "vm" => SchemaOK(obj))
    BY DEF Receive
  <1>2. op \in {"CREATE", "UPDATE"} /\ (k = "pod" => op = "CREATE") /\ user \in Users
    BY DEF Operations, Requesters, Users
  <1>3. r.phase \in {"mutate", "validate"} /\ (r.phase = "mutate" <=> k \in Mutated /\ op = "CREATE")
    BY DEF FirstPhase
  <1>4. r.phase # "mutate" => k \in Validated /\ ObjectOK(k, obj)
    <2> SUFFICES ASSUME r.phase # "mutate" PROVE k \in Validated /\ ObjectOK(k, obj)
      OBVIOUS
    <2>1. k \in Validated
      BY <1>2, <1>3 DEF Mutated, Validated, Kinds
    <2>2. CASE k = "vm"
      <3>1. SchemaOK(obj) /\ obj \in VMs
        BY <1>1, <1>2, <1>3, <2>2 DEF Mutated, Objects
      <3>2. obj \in VirtualMachine
        BY <3>1, AdmissionAssumption
      <3> QED
        BY <2>1, <2>2, <3>1, <3>2, VMObject, Zenon
    <2>3. CASE k # "vm"
      BY <2>1, <2>3 DEF ObjectOK, Validated
    <2> QED
      BY <2>1, <2>2, <2>3
  <1>5. Typed(r)
    BY <1>2, <1>3, <1>4 DEF Typed
  <1>6. Created(r)
    <2>1. r.asked = r.obj /\ r.kind = k /\ r.op = op
      OBVIOUS
    <2> HIDE DEF r
    <2> QED
      BY <1>3, <2>1 DEF Created, Mutated
  <1> HIDE DEF r
  <1> QED
    BY <1>1, <1>5, <1>6, PassTypes

LEMMA StoreTypes ==
    ASSUME Inv, TypeInv, NEW s \in Slots, Store(s)
    PROVE  TypeInv'
  <1> DEFINE r == requests[s]
             o == [rev |-> revision + 1, op |-> r.op, obj |-> r.obj, asked |-> r.asked,
                   user |-> r.user, missed |-> r.missed, failed |-> r.failed, keys |-> r.keys]
  <1>1. /\ r.phase = "store" /\ revision \in Nat
        /\ store' = [store EXCEPT ![r.kind] = o]
        /\ requests' = [requests EXCEPT ![s] = NoRequest]
        /\ UNCHANGED <<config, cache, changes>>
    BY DEF Store, Active, Inv, StoreInv
  <1>2. RequestInv(r) /\ Typed(r) /\ Created(r) /\ r.kind \in Kinds
    BY <1>1 DEF Inv, TypeInv, RequestInv
  <1>3. \A k \in Kinds : store'[k] = IF k = r.kind THEN o ELSE store[k]
    BY <1>1 DEF Inv, StoreInv
  <1>4. \A k \in Kinds : IF store'[k].rev = 0 THEN store'[k] = Absent ELSE ObjectOK(k, store'[k].obj)
    BY <1>1, <1>2, <1>3 DEF TypeInv, Typed
  <1>5. \A t \in Slots : requests'[t].phase # "none" => requests'[t] = requests[t]
    BY <1>1 DEF Inv, StoreInv, NoRequest
  <1>6. CreatedVMIsComplete'
    <2>1. CASE r.kind = "vm"
      <3>1. store'["vm"] = o
        BY <1>3, <2>1 DEF Kinds
      <3>2. CASE r.op # "CREATE"
        BY <3>1, <3>2 DEF CreatedVMIsComplete
      <3>3. CASE r.op = "CREATE"
        <4>1. Prepared(r.asked, r.obj, r.keys) /\ validateCloudInitUsername(r.obj)
          BY <1>1, <1>2, <2>1, <3>3 DEF Created, validateVM
        <4>2. \E t \in DOMAIN r.obj.cloudInit :
                  /\ r.obj.cloudInit[t].user
                  /\ r.obj.cloudInit[t].keys = "list" /\ r.keys \subseteq r.obj.cloudInit[t].list
          BY <4>1 DEF Prepared, validateCloudInitUsername
        <4> HIDE DEF r
        <4>3. o.obj = r.obj /\ o.asked = r.asked /\ o.keys = r.keys
          OBVIOUS
        <4> HIDE DEF o
        <4> QED
          BY <3>1, <4>1, <4>2, <4>3 DEF CreatedVMIsComplete, Prepared
      <3> QED
        BY <3>2, <3>3
    <2>2. CASE r.kind # "vm"
      <3>1. store'["vm"] = store["vm"]
        BY <1>3, <2>2 DEF Kinds
      <3> QED
        BY <3>1 DEF TypeInv, CreatedVMIsComplete
    <2> QED
      BY <2>1, <2>2
  <1>7. \A t \in Slots : requests'[t].phase # "none" => Typed(requests'[t]) /\ Created(requests'[t])
    BY <1>5 DEF TypeInv
  <1> QED
    BY <1>1, <1>4, <1>6, <1>7 DEF TypeInv

\* A request that goes on to another phase with the object it has.
LEMMA NextPhase ==
    ASSUME NEW r, RequestInv(r), NEW phase, NEW x, NEW v, x \in {"missed", "failed", "base"}
    PROVE  LET q == [[r EXCEPT !.phase = phase] EXCEPT ![x] = v]
           IN  /\ q.phase = phase /\ q.kind = r.kind /\ q.op = r.op /\ q.user = r.user
               /\ q.obj = r.obj /\ q.asked = r.asked /\ q.keys = r.keys
  <1> DEFINE p == [r EXCEPT !.phase = phase]
  <1>1. DOMAIN r = {"phase", "kind", "op", "user", "obj", "asked", "base",
                    "missed", "failed", "keys"}
    BY DEF RequestInv
  <1>2. /\ DOMAIN p = DOMAIN r
        /\ p.phase = phase /\ p.kind = r.kind /\ p.op = r.op /\ p.user = r.user
        /\ p.obj = r.obj /\ p.asked = r.asked /\ p.keys = r.keys
    BY <1>1, Patched
  <1> HIDE DEF p
  <1>3. LET q == [p EXCEPT ![x] = v]
        IN  /\ q.phase = p.phase /\ q.kind = p.kind /\ q.op = p.op /\ q.user = p.user
            /\ q.obj = p.obj /\ q.asked = p.asked /\ q.keys = p.keys
    BY <1>1, <1>2, Patched
  <1> QED
    BY <1>2, <1>3 DEF p

LEMMA ConflictTypes ==
    ASSUME Inv, TypeInv, NEW s \in Slots, Conflict(s)
    PROVE  TypeInv'
  <1> DEFINE r == requests[s]
             p == [[r EXCEPT !.phase = "validate"] EXCEPT !["base"] = store[r.kind].rev]
             q == [r EXCEPT !.phase = "validate", !.base = store[r.kind].rev, !.failed = 0]
  <1>1. CASE Drop(s)
    BY <1>1, DropTypes
  <1>2. CASE r.op = "UPDATE" /\ Pass(s, q)
    <2>1. RequestInv(r) /\ Typed(r) /\ r.phase = "store"
      BY DEF Conflict, Active, Inv, TypeInv
    <2> HIDE DEF r
    <2>2. /\ p.phase = "validate" /\ p.kind = r.kind /\ p.op = r.op /\ p.user = r.user
          /\ p.obj = r.obj /\ DOMAIN p = DOMAIN r
      <3>1. /\ p.phase = "validate" /\ p.kind = r.kind /\ p.op = r.op /\ p.user = r.user
            /\ p.obj = r.obj
        BY <2>1, NextPhase
      <3> QED
        BY <3>1
    <2>3. q = [p EXCEPT !["failed"] = 0]
      OBVIOUS
    <2> HIDE DEF p, q
    <2>4. /\ q.phase = "validate" /\ q.kind = r.kind /\ q.op = r.op /\ q.user = r.user
          /\ q.obj = r.obj
      BY <2>1, <2>2, <2>3, Patched DEF RequestInv
    <2>5. r.kind \in Validated
      BY <1>2, <2>1 DEF Typed, RequestInv, Operations, Validated, Kinds
    <2>6. Typed(q) /\ Created(q)
      BY <1>2, <2>1, <2>4, <2>5 DEF Typed, Created
    <2> QED
      BY <1>2, <2>6, PassTypes DEF q, r
  <1> QED
    BY <1>1, <1>2 DEF Conflict

\* Only kinds whose failures are ignored go on, and VirtualMachines are not.
LEMMA CallFailsTypes ==
    ASSUME Inv, TypeInv, NEW s \in Slots, CallFails(s)
    PROVE  TypeInv'
  <1> DEFINE r == requests[s]
             q == [r EXCEPT !.phase = "store", !.missed = TRUE]
  <1>1. CASE Drop(s)
    BY <1>1, DropTypes
  <1>2. CASE r.kind \in IgnoredFailures /\ Pass(s, q)
    <2>1. RequestInv(r) /\ Typed(r)
      BY DEF CallFails, Inv, TypeInv
    <2>2. ObjectOK(r.kind, r.obj)
      <3>1. CASE r.phase = "mutate"
        <4>1. r.kind = "pod" /\ r.obj \in Objects("pod")
          BY <1>2, <2>1, <3>1 DEF RequestInv, Typed, Mutated, IgnoredFailures
        <4>2. r.obj.priority = "own"
          BY <4>1 DEF Objects
        <4> QED
          BY <4>1, <4>2 DEF ObjectOK
      <3>2. CASE r.phase # "mutate"
        BY <2>1, <3>2 DEF Typed
      <3> QED
        BY <3>1, <3>2
    <2> HIDE DEF r
    <2>3. q = [[r EXCEPT !.phase = "store"] EXCEPT !["missed"] = TRUE]
      OBVIOUS
    <2>4. /\ q.phase = "store" /\ q.kind = r.kind /\ q.op = r.op /\ q.user = r.user
          /\ q.obj = r.obj
      <3> HIDE DEF q
      <3> QED
        BY <2>1, <2>3, NextPhase
    <2> HIDE DEF q
    <2>5. Typed(q) /\ Created(q)
      BY <1>2, <2>1, <2>2, <2>4 DEF Typed, Created, IgnoredFailures
    <2> QED
      BY <1>2, <2>5, PassTypes DEF q, r
  <1> QED
    BY <1>1, <1>2 DEF CallFails

LEMMA MutateVMTypes ==
    ASSUME Inv, TypeInv, NEW s \in Slots, NEW replica \in Replicas, MutateVM(s, replica)
    PROVE  TypeInv'
  <1> DEFINE r == requests[s]
             keys == cache[replica]
             vm == vmMutator(r.obj, keys)
             q == [r EXCEPT !.phase = "validate", !.obj = vm, !.keys = keys]
  <1>1. CASE Drop(s)
    BY <1>1, DropTypes
  <1>2. CASE ~VolumeConfigFails(r.obj, keys) /\ SchemaOK(vm) /\ Pass(s, q)
    <2>1. /\ RequestInv(r) /\ Typed(r) /\ Created(r) /\ r.phase = "mutate" /\ r.kind = "vm"
      BY DEF MutateVM, Active, Inv, TypeInv
    <2>2. r.obj \in VirtualMachine /\ r.op = "CREATE" /\ r.asked = r.obj
      BY <2>1, AdmissionAssumption DEF RequestInv, Objects, Created
    <2>3. keys \in SUBSET Keys
      BY DEF TypeInv
    <2>4. vm \in VirtualMachine /\ Prepared(r.obj, vm, keys)
      <3> HIDE DEF keys, r
      <3> QED
        BY <1>2, <2>2, <2>3, Mutates
    <2>5. ObjectOK("vm", vm)
      <3> HIDE DEF vm
      <3> QED
        BY <1>2, <2>4, VMObject
    <2> HIDE DEF r, vm, keys
    <2>6. /\ q.phase = "validate" /\ q.kind = r.kind /\ q.op = r.op /\ q.user = r.user
          /\ q.obj = vm /\ q.asked = r.asked /\ q.keys = keys
      <3> DEFINE q1 == [r EXCEPT !.phase = "validate"]
                 q2 == [q1 EXCEPT !.obj = vm]
      <3>1. q = [q2 EXCEPT !.keys = keys]
        OBVIOUS
      <3> HIDE DEF q, q1, q2
      <3> QED
        BY <2>1, <3>1, Patched DEF RequestInv, q1, q2
    <2> HIDE DEF q
    <2>7. Typed(q) /\ Created(q)
      BY <2>1, <2>2, <2>4, <2>5, <2>6 DEF Typed, Created, Validated
    <2> QED
      BY <1>2, <2>7, PassTypes DEF q, r, vm, keys
  <1> QED
    BY <1>1, <1>2 DEF MutateVM

LEMMA MutatePodTypes ==
    ASSUME Inv, TypeInv, NEW s \in Slots, MutatePod(s)
    PROVE  TypeInv'
  <1> DEFINE r == requests[s]
             pod == [r.obj EXCEPT !.priority = "sandbox-users-pods"]
             q == [r EXCEPT !.phase = "store", !.obj.priority = "sandbox-users-pods"]
  <1>1. RequestInv(r) /\ Typed(r) /\ r.phase = "mutate" /\ r.kind = "pod" /\ Pass(s, q)
    BY DEF MutatePod, Active, Inv, TypeInv
  <1>2. pod.priority = "sandbox-users-pods"
    <2>1. r.obj \in [priority : {"own"}]
      BY <1>1 DEF RequestInv, Objects
    <2> QED
      BY <2>1
  <1>3. /\ q.phase = "store" /\ q.kind = r.kind /\ q.op = r.op /\ q.user = r.user
        /\ q.obj = pod
    <2> DEFINE q1 == [r EXCEPT !.phase = "store"]
    <2>1. q1.obj = r.obj /\ DOMAIN q1 = DOMAIN r
      BY <1>1, Patched DEF RequestInv
    <2>2. q = [q1 EXCEPT !.obj = pod]
      BY <2>1
    <2> HIDE DEF q, q1, r, pod
    <2> QED
      BY <1>1, <2>2, Patched DEF RequestInv, q1
  <1> HIDE DEF q, r, pod
  <1>4. ObjectOK("pod", pod)
    BY <1>2 DEF ObjectOK
  <1>5. Typed(q) /\ Created(q)
    BY <1>1, <1>3, <1>4 DEF Typed, Created
  <1> QED
    BY <1>1, <1>5, PassTypes DEF q, r

\* The verdict of a webhook: `p' is the request with what the handler found out.
LEMMA AnswerTypes ==
    ASSUME Inv, TypeInv, NEW s \in Slots, NEW p, NEW allowed, Answer(s, allowed, p),
           RequestInv(p), Typed(p), p.phase = "validate", Created(p),
           allowed /\ p.kind = "vm" => validateVM(p.obj, p.op)
    PROVE  TypeInv'
  <1> DEFINE q == [p EXCEPT !.phase = "store"]
  <1>1. CASE Drop(s)
    BY <1>1, DropTypes
  <1>2. CASE allowed /\ Pass(s, q)
    <2>1. /\ q.phase = "store" /\ q.kind = p.kind /\ q.op = p.op /\ q.user = p.user
          /\ q.obj = p.obj /\ q.asked = p.asked /\ q.keys = p.keys
      BY Patched DEF RequestInv
    <2> HIDE DEF q
    <2>2. Typed(q) /\ Created(q)
      BY <1>2, <2>1 DEF Typed, Created
    <2> QED
      BY <1>2, <2>2, PassTypes DEF q
  <1> QED
    BY <1>1, <1>2 DEF Answer

LEMMA ValidateTypes ==
    ASSUME Inv, TypeInv, NEW s \in Slots,
           \/ ValidateVM(s)
           \/ \E b \in BOOLEAN : ValidateSpaceBindingRequest(s, b) \/ ValidateSSP(s, b)
    PROVE  TypeInv'
  <1> DEFINE r == requests[s]
  <1>1. r.phase = "validate"
    BY DEF ValidateVM, ValidateSpaceBindingRequest, ValidateSSP, Active
  <1>2. RequestInv(r) /\ Typed(r) /\ Created(r)
    BY <1>1 DEF Inv, TypeInv
  <1>3. CASE ValidateVM(s)
    <2>1. Answer(s, validateVM(r.obj, r.op), r)
      BY <1>3 DEF ValidateVM
    <2> HIDE DEF r
    <2> QED
      BY <1>1, <1>2, <2>1, AnswerTypes
  <1>4. ASSUME NEW b \in BOOLEAN, ValidateSpaceBindingRequest(s, b)
        PROVE  TypeInv'
    <2> DEFINE allowed == /\ ~b
                          /\ \/ store["sbr"].rev = 0
                             \/ store["sbr"].obj.masterUserRecord = r.obj.masterUserRecord
    <2>1. Answer(s, allowed, r) /\ r.kind = "sbr"
      BY <1>4 DEF ValidateSpaceBindingRequest
    <2> HIDE DEF r, allowed
    <2> QED
      BY <1>1, <1>2, <2>1, AnswerTypes
  <1>5. ASSUME NEW b \in BOOLEAN, ValidateSSP(s, b)
        PROVE  TypeInv'
    <2> DEFINE allowed == r.user = "admin" /\ ~b
    <2>1. Answer(s, allowed, r) /\ r.kind = "ssp"
      BY <1>5 DEF ValidateSSP
    <2> HIDE DEF r, allowed
    <2> QED
      BY <1>1, <1>2, <2>1, AnswerTypes
  <1> QED
    BY <1>3, <1>4, <1>5

LEMMA ValidateRBTypes ==
    ASSUME Inv, TypeInv, NEW s \in Slots, NEW n \in 0 .. MaxWide, ValidateRoleBinding(s, n)
    PROVE  TypeInv'
  <1> DEFINE r == requests[s]
             p == [r EXCEPT !.failed = n]
             allowed == r.user # "sandbox" \/ n = r.obj.wide
  <1>1. /\ r.phase = "validate" /\ r.kind = "rb" /\ Answer(s, allowed, p)
    BY DEF ValidateRoleBinding, Active
  <1>2. RequestInv(r) /\ Typed(r)
    BY <1>1 DEF Inv, TypeInv
  <1> HIDE DEF r, allowed
  <1>3. /\ DOMAIN p = DOMAIN r
        /\ p.phase = r.phase /\ p.kind = r.kind /\ p.op = r.op /\ p.user = r.user
        /\ p.obj = r.obj /\ p.base = r.base
    BY <1>2, Patched DEF RequestInv
  <1> HIDE DEF p
  <1>4. RequestInv(p) /\ Typed(p) /\ Created(p)
    BY <1>1, <1>2, <1>3 DEF RequestInv, Typed, Created
  <1> QED
    BY <1>1, <1>3, <1>4, AnswerTypes

LEMMA DeleteTypes ==
    ASSUME Inv, TypeInv, NEW k \in Kinds, Delete(k)
    PROVE  TypeInv'
  <1>1. /\ store' = [store EXCEPT ![k] = Absent]
        /\ UNCHANGED <<requests, config, cache, changes>>
    BY DEF Delete
  <1>2. \A j \in Kinds : store'[j] = store[j] \/ store'[j] = Absent
    BY <1>1 DEF Inv, StoreInv
  <1>3. \A j \in Kinds : IF store'[j].rev = 0 THEN store'[j] = Absent ELSE ObjectOK(j, store'[j].obj)
    <2> TAKE j \in Kinds
    <2>1. CASE store'[j] = store[j]
      BY <2>1 DEF TypeInv
    <2>2. CASE store'[j] = Absent
      <3>1. store'[j].rev = 0
        BY <2>2 DEF Absent
      <3> QED
        BY <2>2, <3>1
    <2> QED
      BY <1>2, <2>1, <2>2
  <1>4. CreatedVMIsComplete'
    <2>1. CASE store'["vm"] = store["vm"]
      BY <2>1 DEF TypeInv, CreatedVMIsComplete
    <2>2. CASE store'["vm"] = Absent
      BY <2>2 DEF CreatedVMIsComplete, Absent
    <2> QED
      BY <1>2, <2>1, <2>2 DEF Kinds
  <1> QED
    BY <1>1, <1>3, <1>4 DEF TypeInv

LEMMA ConfigTypes ==
    ASSUME Inv, TypeInv,
           SetConfig \/ (\E r \in Replicas : Reload(r) \/ Restart(r)) \/ UNCHANGED vars
    PROVE  TypeInv'
  <1>1. UNCHANGED <<store, requests, revision>>
    BY DEF SetConfig, Reload, Restart, vars
  <1>2. changes' \in Nat
    BY DEF TypeInv, SetConfig, Reload, Restart, vars
  <1>3. config' \in SUBSET Keys
    BY AdmissionAssumption DEF TypeInv, SetConfig, Reload, Restart, vars
  <1>4. cache' \in [Replicas -> SUBSET Keys]
    <2>1. config \in SUBSET Keys /\ cache \in [Replicas -> SUBSET Keys]
      BY DEF TypeInv
    <2>2. ASSUME NEW r \in Replicas, NEW k \in SUBSET Keys
          PROVE  [cache EXCEPT ![r] = k] \in [Replicas -> SUBSET Keys]
      BY <2>1
    <2>3. \/ cache' = cache
          \/ \E r \in Replicas : \E k \in SUBSET Keys : cache' = [cache EXCEPT ![r] = k]
      BY <2>1 DEF SetConfig, Reload, Restart, vars
    <2> QED
      BY <2>1, <2>2, <2>3
  <1>5. CreatedVMIsComplete'
    BY <1>1 DEF TypeInv, CreatedVMIsComplete
  <1> QED
    BY <1>1, <1>2, <1>3, <1>4, <1>5 DEF TypeInv

---------------------------------------------------------------------------
(* The theorems                                                            *)

LEMMA InitInv == Init => Inv
  BY DEF Init, Inv, StoreInv, VMWithinRules, UntreatedOnlyIfMissed, Absent, NoRequest, Kinds

LEMMA NextInv ==
    ASSUME Inv, [Next]_vars
    PROVE  Inv' /\ MasterUserRecordStep
  <1>1. ASSUME NEW s \in Slots, NEW k \in Kinds, NEW op \in Operations(k),
               NEW user \in Requesters(k), NEW obj \in Objects(k), Receive(s, k, op, user, obj)
        PROVE  Inv' /\ MasterUserRecordStep
    BY <1>1, ReceiveStep DEF Receive, Pass, MasterUserRecordStep
  <1>2. ASSUME NEW s \in Slots, Store(s)
        PROVE  Inv' /\ MasterUserRecordStep
    BY <1>2, StoreStep
  <1>3. ASSUME NEW s \in Slots, Conflict(s)
        PROVE  Inv' /\ MasterUserRecordStep
    BY <1>3, ConflictStep DEF Conflict, Pass, Drop, MasterUserRecordStep
  <1>4. ASSUME NEW s \in Slots, CallFails(s)
        PROVE  Inv' /\ MasterUserRecordStep
    BY <1>4, CallFailsStep DEF CallFails, Pass, Drop, MasterUserRecordStep
  <1>5. ASSUME NEW s \in Slots, NEW r \in Replicas, MutateVM(s, r)
        PROVE  Inv' /\ MasterUserRecordStep
    BY <1>5, MutateVMStep DEF MutateVM, Pass, Drop, MasterUserRecordStep
  <1>6. ASSUME NEW s \in Slots, MutatePod(s)
        PROVE  Inv' /\ MasterUserRecordStep
    BY <1>6, MutatePodStep DEF MutatePod, Pass, MasterUserRecordStep
  <1>7. ASSUME NEW s \in Slots, ValidateVM(s)
        PROVE  Inv' /\ MasterUserRecordStep
    BY <1>7, ValidateVMStep DEF ValidateVM, Answer, Pass, Drop, MasterUserRecordStep
  <1>8. ASSUME NEW s \in Slots, NEW b \in BOOLEAN, ValidateSpaceBindingRequest(s, b)
        PROVE  Inv' /\ MasterUserRecordStep
    BY <1>8, ValidateSBRStep DEF ValidateSpaceBindingRequest, Answer, Pass, Drop, MasterUserRecordStep
  <1>9. ASSUME NEW s \in Slots, NEW b \in BOOLEAN, ValidateSSP(s, b)
        PROVE  Inv' /\ MasterUserRecordStep
    BY <1>9, ValidateSSPStep DEF ValidateSSP, Answer, Pass, Drop, MasterUserRecordStep
  <1>10. ASSUME NEW s \in Slots, NEW n \in 0 .. MaxWide, ValidateRoleBinding(s, n)
         PROVE  Inv' /\ MasterUserRecordStep
    <2>1. n \in Nat
      BY AdmissionAssumption
    <2> QED
      BY <1>10, <2>1, ValidateRBStep DEF ValidateRoleBinding, Answer, Pass, Drop, MasterUserRecordStep
  <1>11. ASSUME NEW k \in Kinds, Delete(k)
         PROVE  Inv' /\ MasterUserRecordStep
    <2>1. store'["sbr"] = store["sbr"] \/ store'["sbr"] = Absent
      BY <1>11 DEF Delete, Inv, StoreInv, Kinds
    <2> QED
      BY <1>11, <2>1, DeleteStep DEF MasterUserRecordStep, Absent
  <1>12. ASSUME NEW r \in Replicas, Reload(r) \/ Restart(r)
         PROVE  Inv' /\ MasterUserRecordStep
    BY <1>12, QuietStep DEF Reload, Restart
  <1>13. CASE SetConfig
    BY <1>13, QuietStep DEF SetConfig
  <1>14. CASE UNCHANGED vars
    BY <1>14, QuietStep DEF vars
  <1> QED
    BY <1>1, <1>2, <1>3, <1>4, <1>5, <1>6, <1>7, <1>8, <1>9, <1>10, <1>11, <1>12, <1>13, <1>14
    DEF Next

LEMMA Invariance == Spec => []Inv
  <1>1. Inv /\ [Next]_vars => Inv'
    BY NextInv
  <1> QED
    BY <1>1, InitInv, PTL DEF Spec

\* Whatever users submit, in whatever order their requests are handled, no stored
\* VirtualMachine has a run strategy other than Manual or takes longer than three
\* minutes to stop: what the mutating webhook sets on CREATE and the validating
\* one checks on UPDATE are enough together.
THEOREM VMRules == Spec => []VMWithinRules
  <1>1. Inv => VMWithinRules
    BY DEF Inv
  <1> QED
    BY <1>1, Invariance, PTL

\* A pod, RoleBinding or SSP that the webhooks exist to treat or refuse is stored
\* otherwise only if the webhook was not reached or, for a RoleBinding, no lookup
\* of the user succeeded.
THEOREM Treated == Spec => []UntreatedOnlyIfMissed
  <1>1. Inv => UntreatedOnlyIfMissed
    BY DEF Inv
  <1> QED
    BY <1>1, Invariance, PTL

\* For any number of concurrent requests: the webhook's comparison with the object
\* it reads, and the API server's with the revision of the base, together never
\* let the MasterUserRecord of a SpaceBindingRequest change.
THEOREM MasterUserRecord == Spec => MasterUserRecordKept
  <1>1. Inv /\ [Next]_vars => [MasterUserRecordStep]_vars
    BY NextInv
  <1> QED
    BY <1>1, Invariance, PTL DEF Spec, MasterUserRecordKept, MasterUserRecordStep

LEMMA InitTypes == Init => TypeInv
  <1> SUFFICES ASSUME Init PROVE TypeInv
    OBVIOUS
  <1>1. \A k \in Kinds : store[k] = Absent
    BY DEF Init
  <1>2. CreatedVMIsComplete
    <2>1. store["vm"].rev = 0
      BY <1>1 DEF Kinds, Absent
    <2> QED
      BY <2>1 DEF CreatedVMIsComplete
  <1>3. \A k \in Kinds : IF store[k].rev = 0 THEN store[k] = Absent ELSE ObjectOK(k, store[k].obj)
    <2> TAKE k \in Kinds
    <2>1. store[k] = Absent
      BY <1>1
    <2>2. Absent.rev = 0
      BY DEF Absent
    <2> QED
      BY <2>1, <2>2
  <1>4. \A s \in Slots : requests[s].phase = "none"
    BY DEF Init, NoRequest
  <1>5. changes \in Nat /\ config \in SUBSET Keys /\ cache \in [Replicas -> SUBSET Keys]
    BY AdmissionAssumption DEF Init
  <1> QED
    BY <1>2, <1>3, <1>4, <1>5 DEF TypeInv

LEMMA NextTypes ==
    ASSUME Inv, TypeInv, [Next]_vars
    PROVE  TypeInv'
  <1>1. ASSUME NEW s \in Slots, NEW k \in Kinds, NEW op \in Operations(k),
               NEW user \in Requesters(k), NEW obj \in Objects(k), Receive(s, k, op, user, obj)
        PROVE  TypeInv'
    BY <1>1, ReceiveTypes
  <1>2. ASSUME NEW s \in Slots,
               \/ Store(s) \/ Conflict(s) \/ CallFails(s)
               \/ \E r \in Replicas : MutateVM(s, r)
               \/ MutatePod(s) \/ ValidateVM(s)
               \/ \E b \in BOOLEAN : ValidateSpaceBindingRequest(s, b) \/ ValidateSSP(s, b)
               \/ \E n \in 0 .. MaxWide : ValidateRoleBinding(s, n)
        PROVE  TypeInv'
    BY <1>2, StoreTypes, ConflictTypes, CallFailsTypes, MutateVMTypes, MutatePodTypes,
       ValidateTypes, ValidateRBTypes
  <1>3. ASSUME NEW k \in Kinds, Delete(k) PROVE TypeInv'
    BY <1>3, DeleteTypes
  <1>4. CASE SetConfig \/ (\E r \in Replicas : Reload(r) \/ Restart(r)) \/ UNCHANGED vars
    BY <1>4, ConfigTypes
  <1> QED
    BY <1>1, <1>2, <1>3, <1>4 DEF Next

LEMMA TypeInvariance == Spec => [](Inv /\ TypeInv)
  <1>1. Inv /\ TypeInv /\ [Next]_vars => Inv' /\ TypeInv'
    BY NextInv, NextTypes
  <1> QED
    BY <1>1, InitInv, InitTypes, PTL DEF Spec

\* Every object that is stored or under way has passed the schema of its kind, and
\* each request is at a phase that its kind has a webhook for; in particular what
\* vmMutator makes of any VirtualMachine is one (vm_mutate.go:35).
THEOREM TypeCorrect == Spec => []TypeOK
  <1>1. Inv /\ TypeInv => TypeOK
    <2> SUFFICES ASSUME Inv, TypeInv PROVE TypeOK
      OBVIOUS
    <2>1. /\ DOMAIN store = Kinds /\ DOMAIN requests = Slots /\ revision \in Nat
          /\ changes \in Nat /\ config \subseteq Keys /\ cache \in [Replicas -> SUBSET Keys]
      BY DEF Inv, StoreInv, TypeInv
    <2>2. ASSUME NEW k \in Kinds
          PROVE  /\ store[k].rev \in 0 .. revision
                 /\ IF store[k].rev = 0 THEN store[k] = Absent ELSE ObjectOK(k, store[k].obj)
      BY <2>1 DEF Inv, StoreInv, TypeInv
    <2>3. ASSUME NEW s \in Slots, requests[s].phase # "none"
          PROVE  LET r == requests[s] IN
                 /\ r.phase \in {"mutate", "validate", "store"}
                 /\ r.kind \in Kinds /\ r.op \in Operations(r.kind) /\ r.user \in Users
                 /\ r.base \in 0 .. revision /\ (r.op = "CREATE") = (r.base = 0)
                 /\ r.phase = "mutate" => r.kind \in Mutated /\ r.op = "CREATE"
                 /\ r.phase = "validate" => r.kind \in Validated
                 /\ IF r.phase = "mutate" THEN r.obj \in Objects(r.kind)
                    ELSE ObjectOK(r.kind, r.obj)
      <3> DEFINE r == requests[s]
      <3>1. RequestInv(r) /\ Typed(r)
        BY <2>3 DEF Inv, TypeInv
      <3> HIDE DEF r
      <3>2. r.base \in 0 .. revision /\ (r.op = "CREATE") = (r.base = 0)
        <4>1. r.base \in 0 .. revision
          BY <2>1, <3>1 DEF RequestInv
        <4>2. (r.op = "CREATE") <=> (r.base = 0)
          BY <3>1 DEF RequestInv
        <4> QED
          BY <4>1, <4>2
      <3>3. IF r.phase = "mutate" THEN r.obj \in Objects(r.kind) ELSE ObjectOK(r.kind, r.obj)
        BY <3>1 DEF RequestInv, Typed
      <3>4. /\ r.phase \in {"mutate", "validate", "store"}
            /\ r.kind \in Kinds /\ r.op \in Operations(r.kind) /\ r.user \in Users
            /\ r.phase = "mutate" => r.kind \in Mutated /\ r.op = "CREATE"
            /\ r.phase = "validate" => r.kind \in Validated
        BY <3>1 DEF RequestInv, Typed
      <3> QED
        BY <3>2, <3>3, <3>4 DEF r
    <2>4. ASSUME NEW s \in Slots
          PROVE  requests[s].phase \in {"none", "mutate", "validate", "store"}
      BY <2>3
    <2> QED
      BY <2>1, <2>2, <2>3, <2>4 DEF TypeOK
  <1> QED
    BY <1>1, TypeInvariance, PTL

\* Whatever VirtualMachine a user submits and whichever keys the replica knows: if
\* the two webhooks let it pass, the stored one has a user, all those keys in a
\* list, the toleration, every limit the user gave and one for every request.
THEOREM CreatedComplete == Spec => []CreatedVMIsComplete
  <1>1. Inv /\ TypeInv => CreatedVMIsComplete
    BY DEF TypeInv
  <1> QED
    BY <1>1, TypeInvariance, PTL
===========================================================================
