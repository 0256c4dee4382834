------------------------- MODULE AdmissionWebhooks -------------------------
(***************************************************************************)
(* The webhook server (cmd/webhook, pkg/webhook) and the API server that   *)
(* calls it for the requests of users in their namespaces.  A request is   *)
(* received on the base of a revision of its object, mutated, checked      *)
(* against the schema, validated, and stored only if the object is still   *)
(* the one of the base; other requests come in between.  A call of a       *)
(* webhook may fail: the configurations tell the API server to refuse the  *)
(* request then or to go on.                                               *)
(*                                                                         *)
(* There is one object of each kind: a VirtualMachine (vm), a Pod, a       *)
(* SpaceBindingRequest (sbr), a RoleBinding (rb) and an SSP.  The replicas *)
(* of the server hold the configured SSH keys in a cache.                  *)
(***************************************************************************)
EXTENDS VMWebhooks, FiniteSets

CONSTANTS
    NoObject,
    VMs,            \* VirtualMachines that users submit
    VMUpdates,      \* those they submit as updates
    MURs,           \* names of MasterUserRecords
    MaxWide,        \* bound on the subjects of a RoleBinding
    Configs,        \* sets of SSH keys that are configured
    Replicas,       \* of the webhook server
    Slots,          \* requests under way
    MaxRevision,    \* bound on what is stored
    MaxChanges      \* bound on changes of the configuration

ASSUME AdmissionAssumption ==
    /\ VMs \subseteq VirtualMachine /\ VMUpdates \subseteq VMs
    /\ Configs \subseteq SUBSET Keys
    /\ MaxWide \in Nat /\ MaxRevision \in Nat /\ MaxChanges \in Nat

Kinds == {"vm", "pod", "sbr", "rb", "ssp"}

\* A sandbox user and another one; no User object exists for a stranger and
\* for the accounts of the system
Users == {"sandbox", "admin", "stranger", "system"}

\* The priority of a pod cannot be updated
Operations(k) == IF k = "pod" THEN {"CREATE"} ELSE {"CREATE", "UPDATE"}

\* Only two of the handlers look at who asks
Requesters(k) == IF k \in {"rb", "ssp"} THEN Users ELSE {"sandbox"}

\* What may be submitted: a RoleBinding is told by how many of its subjects are
\* groups of all users or all service accounts
Objects(k) ==
    CASE k = "vm" -> VMs
      [] k = "pod" -> [priority : {"own"}]
      [] k = "sbr" -> [masterUserRecord : MURs]
      [] k = "rb" -> [wide : 0 .. MaxWide]
      [] OTHER -> [spec : {"ssp"}]

Mutated == {"vm", "pod"}               \* kinds with a mutating webhook, for CREATE
Validated == {"vm", "sbr", "rb", "ssp"}  \* kinds with a validating webhook
IgnoredFailures == {"pod", "rb"}       \* kinds with failurePolicy Ignore

VARIABLES
    store,     \* the object of each kind, its revision (0: none), who wrote it
    requests,  \* the requests under way
    revision,  \* the last revision
    config,    \* the SSH keys in the MemberOperatorConfig
    cache,     \* those in the cache of each replica; none before the first load
    changes

vars == <<store, requests, revision, config, cache, changes>>

\* Beside the object: the operation, the user, the object as it was submitted, and
\* whether the webhook was missed, how often the user was not found, and which
\* keys the server knew (history)
Absent == [rev |-> 0, op |-> "none", obj |-> NoObject, asked |-> NoObject, user |-> "system",
           missed |-> FALSE, failed |-> 0, keys |-> {}]
NoRequest == [phase |-> "none"]

Free(s) == requests[s].phase = "none"
Active(s, phase) == requests[s].phase = phase
Drop(s) == requests' = [requests EXCEPT ![s] = NoRequest] /\ UNCHANGED <<store, revision, config, cache, changes>>
Pass(s, r) == requests' = [requests EXCEPT ![s] = r] /\ UNCHANGED <<store, revision, config, cache, changes>>

Init ==
    /\ store = [k \in Kinds |-> Absent]
    /\ requests = [s \in Slots |-> NoRequest]
    /\ revision = 0
    /\ config \in Configs
    /\ cache = [r \in Replicas |-> {}]
    /\ changes = 0

---------------------------------------------------------------------------
(* The API server                                                          *)

\* Mutant: the mutating webhooks are called for updates as well
MutatedOnUpdate(k, op) == IF k \in Mutated THEN "mutate" ELSE "validate"

\* Which webhook is called first
FirstPhase(k, op) == IF k \in Mutated /\ op = "CREATE" THEN "mutate" ELSE "validate"

\* A request comes in.  Requests of different kinds share nothing that changes:
\* only those of one kind are under way or stored at a time, and two together only
\* for SpaceBindingRequests, whose handler alone reads what others may change.
Receive(s, k, op, user, obj) ==
    /\ Free(s)
    /\ revision + Cardinality({t \in Slots : ~Free(t)}) < MaxRevision
    /\ \A t \in {u \in Slots : ~Free(u)} : requests[t].kind = "sbr" /\ k = "sbr"
    /\ \A j \in Kinds \ {k} : store[j].rev = 0
    /\ op = "UPDATE" => store[k].rev > 0 /\ (k = "vm" => obj \in VMUpdates /\ SchemaOK(obj))
    /\ Pass(s, [phase |-> FirstPhase(k, op), kind |-> k, op |-> op, user |-> user,
                obj |-> obj, asked |-> obj, base |-> IF op = "CREATE" THEN 0 ELSE store[k].rev,
                missed |-> FALSE, failed |-> 0, keys |-> {}])

\* The object is stored if it is still the one of the base
Store(s) ==
    LET r == requests[s] IN
    /\ Active(s, "store")
    /\ store[r.kind].rev = r.base
    /\ revision' = revision + 1
    /\ store' = [store EXCEPT ![r.kind] =
            [rev |-> revision + 1, op |-> r.op, obj |-> r.obj, asked |-> r.asked, user |-> r.user,
             missed |-> r.missed, failed |-> r.failed, keys |-> r.keys]]
    /\ requests' = [requests EXCEPT ![s] = NoRequest]
    /\ UNCHANGED <<config, cache, changes>>

\* Otherwise there is a conflict, or an update without a resourceVersion starts
\* again on the base of what is there now
Conflict(s) ==
    LET r == requests[s] IN
    /\ Active(s, "store")
    /\ store[r.kind].rev # r.base
    /\ \/ Drop(s)
       \/ /\ r.op = "UPDATE" /\ store[r.kind].rev > 0
          /\ Pass(s, [r EXCEPT !.phase = "validate", !.base = store[r.kind].rev, !.failed = 0])

\* The API server cannot reach the server, or gets no answer in time
CallFails(s) ==
    LET r == requests[s] IN
    /\ r.phase \in {"mutate", "validate"}
    /\ IF r.kind \in IgnoredFailures
       THEN Pass(s, [r EXCEPT !.phase = "store", !.missed = TRUE])
       ELSE Drop(s)

\* An object is deleted; these webhooks are not called
Delete(k) ==
    /\ store[k].rev > 0
    /\ store' = [store EXCEPT ![k] = Absent]
    /\ UNCHANGED <<requests, revision, config, cache, changes>>

---------------------------------------------------------------------------
(* The handlers                                                            *)

\* HandleMutateVirtualMachines at a replica, and then the schema
MutateVM(s, replica) ==
    LET r == requests[s]
        sshKeys == cache[replica]
        vm == vmMutator(r.obj, sshKeys)
    IN
    /\ Active(s, "mutate") /\ r.kind = "vm"
    /\ IF VolumeConfigFails(r.obj, sshKeys) \/ ~SchemaOK(vm) THEN Drop(s)
       ELSE Pass(s, [r EXCEPT !.phase = "validate", !.obj = vm, !.keys = sshKeys])

\* HandleMutateUserPods: the same patch for every pod
MutatePod(s) ==
    LET r == requests[s] IN
    /\ Active(s, "mutate") /\ r.kind = "pod"
    /\ Pass(s, [r EXCEPT !.phase = "store", !.obj.priority = "sandbox-users-pods"])

\* The verdict of a validating webhook
Answer(s, allowed, r) ==
    IF allowed THEN Pass(s, [r EXCEPT !.phase = "store"]) ELSE Drop(s)

ValidateVM(s) ==
    LET r == requests[s] IN
    /\ Active(s, "validate") /\ r.kind = "vm"
    /\ Answer(s, validateVM(r.obj, r.op), r)

\* Mutant: a Get that fails is taken for a new SpaceBindingRequest
GetErrorAllowed(s, getFails) ==
    LET r == requests[s] IN
    /\ Active(s, "validate") /\ r.kind = "sbr"
    /\ Answer(s, getFails \/ store["sbr"].rev = 0
                    \/ store["sbr"].obj.masterUserRecord = r.obj.masterUserRecord, r)

\* The stored SpaceBindingRequest is read again, from the API
ValidateSpaceBindingRequest(s, getFails) ==
    LET r == requests[s] IN
    /\ Active(s, "validate") /\ r.kind = "sbr"
    /\ Answer(s, /\ ~getFails
                 /\ \/ store["sbr"].rev = 0
                    \/ store["sbr"].obj.masterUserRecord = r.obj.masterUserRecord, r)

\* Mutant: the first lookup that fails ends the loop
LookupOnce(s, failed) ==
    LET r == requests[s] IN
    /\ Active(s, "validate") /\ r.kind = "rb"
    /\ failed <= r.obj.wide
    /\ Answer(s, r.user # "sandbox" \/ r.obj.wide = 0 \/ failed > 0, [r EXCEPT !.failed = failed])

\* The user is looked up for each wide subject until that succeeds: `failed' times
\* it does not.  An unknown user is allowed.
ValidateRoleBinding(s, failed) ==
    LET r == requests[s] IN
    /\ Active(s, "validate") /\ r.kind = "rb"
    /\ failed <= r.obj.wide
    /\ Answer(s, r.user # "sandbox" \/ failed = r.obj.wide, [r EXCEPT !.failed = failed])

\* An unknown user is refused
ValidateSSP(s, getFails) ==
    LET r == requests[s] IN
    /\ Active(s, "validate") /\ r.kind = "ssp"
    /\ Answer(s, r.user = "admin" /\ ~getFails, r)

---------------------------------------------------------------------------
(* The configuration                                                       *)

SetConfig ==
    /\ changes < MaxChanges /\ changes' = changes + 1
    /\ \E k \in Configs \ {config} : config' = k
    /\ UNCHANGED <<store, requests, revision, cache>>

\* reloadMemberConfig, every five seconds; an error leaves the cache as it is
Reload(replica) ==
    /\ cache[replica] # config
    /\ cache' = [cache EXCEPT ![replica] = config]
    /\ UNCHANGED <<store, requests, revision, config, changes>>

\* A replica starts with an empty cache
Restart(replica) ==
    /\ changes < MaxChanges /\ changes' = changes + 1
    /\ cache' = [cache EXCEPT ![replica] = {}]
    /\ UNCHANGED <<store, requests, revision, config>>

Next ==
    \/ \E s \in Slots :
        \/ \E k \in Kinds :
              \E op \in Operations(k), user \in Requesters(k), obj \in Objects(k) : Receive(s, k, op, user, obj)
        \/ Store(s) \/ Conflict(s) \/ CallFails(s)
        \/ \E r \in Replicas : MutateVM(s, r)
        \/ MutatePod(s) \/ ValidateVM(s)
        \/ \E b \in BOOLEAN : ValidateSpaceBindingRequest(s, b) \/ ValidateSSP(s, b)
        \/ \E n \in 0 .. MaxWide : ValidateRoleBinding(s, n)
    \/ \E k \in Kinds : Delete(k)
    \/ \E r \in Replicas : Reload(r) \/ Restart(r)
    \/ SetConfig

Spec == Init /\ [][Next]_vars

---------------------------------------------------------------------------
(* Properties                                                              *)

\* What an object of a kind looks like after its mutating webhook
ObjectOK(k, obj) ==
    CASE k = "vm" -> obj \in VirtualMachine /\ SchemaOK(obj)
      [] k = "pod" -> obj.priority \in {"own", "sandbox-users-pods"}
      [] OTHER -> obj \in Objects(k)

TypeOK ==
    /\ DOMAIN store = Kinds
    /\ \A k \in Kinds :
        /\ store[k].rev \in 0 .. revision
        /\ IF store[k].rev = 0 THEN store[k] = Absent ELSE ObjectOK(k, store[k].obj)
    /\ DOMAIN requests = Slots
    /\ \A s \in Slots :
        LET r == requests[s] IN
        /\ r.phase \in {"none", "mutate", "validate", "store"}
        /\ r.phase # "none" =>
            /\ r.kind \in Kinds /\ r.op \in Operations(r.kind) /\ r.user \in Users
            /\ r.base \in 0 .. revision /\ (r.op = "CREATE") = (r.base = 0)
            /\ r.phase = "mutate" => r.kind \in Mutated /\ r.op = "CREATE"
            /\ r.phase = "validate" => r.kind \in Validated
            /\ IF r.phase = "mutate" THEN r.obj \in Objects(r.kind) ELSE ObjectOK(r.kind, r.obj)
    /\ revision \in Nat /\ changes \in Nat
    /\ config \subseteq Keys /\ cache \in [Replicas -> SUBSET Keys]

\* The two webhooks for VirtualMachines rely on each other: the validating one
\* checks the run strategy of updates only, because the mutating one, which is
\* not called for updates, has set it.  No stored VirtualMachine has a strategy
\* other than Manual, which would start it again after the Idler has stopped it,
\* or may take longer than three minutes to stop.
VMWithinRules ==
    LET vm == store["vm"] IN
    vm.rev > 0 =>
        /\ vm.obj.runStrategy \in {"Manual"} \union (IF vm.op = "UPDATE" THEN {"none"} ELSE {})
        /\ vm.obj.grace.kind = "int" => vm.obj.grace.secs <= 180

\* A VirtualMachine that has been created can be reached and started: one of its
\* cloud-init texts has a user and, in a list, every key that the replica which
\* mutated it knew, although texts of two forms come out of the mutating webhook
\* that have neither; the toleration and every limit the user gave are there, and
\* what has a request or a guest's size has a limit, if all were strings.
CreatedVMIsComplete ==
    LET vm == store["vm"] IN
    vm.rev > 0 /\ vm.op = "CREATE" =>
        LET obj == vm.obj
            asked == vm.asked
            limited == IF ~asked.strings THEN {}
                       ELSE DOMAIN asked.requests \union
                            (IF DOMAIN asked.memory = {} THEN {} ELSE {"memory"})
        IN  /\ vm.keys # {}
            /\ \E t \in DOMAIN obj.cloudInit :
                  /\ obj.cloudInit[t].user
                  /\ obj.cloudInit[t].keys = "list" /\ vm.keys \subseteq obj.cloudInit[t].list
            /\ asked.tolerations \union {sandboxToleration} \subseteq obj.tolerations
            /\ DOMAIN obj.limits = DOMAIN asked.limits \union limited
            /\ \A q \in DOMAIN asked.limits : obj.limits[q] = asked.limits[q]
            /\ \A q \in (limited \intersect DOMAIN asked.requests) \ DOMAIN asked.limits :
                  obj.limits[q] = asked.requests[q]

\* The MasterUserRecord of a SpaceBindingRequest never changes while it exists,
\* although the webhook compares with an object that it reads itself and that may
\* be another one by the time the request is stored, or cannot be read.
MasterUserRecordKept ==
    [][store["sbr"].rev > 0 /\ store'["sbr"].rev > 0 =>
          store'["sbr"].obj.masterUserRecord = store["sbr"].obj.masterUserRecord]_vars

\* A pod without the priority of sandbox pods, or a RoleBinding of a sandbox user
\* for all users, is stored only when the call of the webhook failed or the user
\* could not be looked up for any of the subjects; an SSP of a sandbox user is
\* not stored whatever fails.
UntreatedOnlyIfMissed ==
    /\ LET pod == store["pod"] IN
       pod.rev > 0 /\ ~pod.missed => pod.obj.priority = "sandbox-users-pods"
    /\ LET rb == store["rb"] IN
       rb.rev > 0 /\ rb.user = "sandbox" /\ rb.obj.wide > 0 /\ ~rb.missed => rb.failed = rb.obj.wide
    /\ store["ssp"].rev > 0 => store["ssp"].user = "admin"
===========================================================================
