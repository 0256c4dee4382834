# A verification project for member-operator

member-operator runs on a member cluster of a developer sandbox. The host
operator, on another cluster, creates `NSTemplateSet`s (one per space),
`UserAccount`s (one per user) and, through the templates, `Idler`s (one per
namespace); the member operator makes the cluster agree with them. This
directory holds TLA+ models of its controllers, of its webhook server and of the
client of the host cluster, TLC configurations that check them on small
instances, and TLAPS proofs about each of them.

Paths such as `nstemplateset/namespaces.go` are below `src/controllers`, those
that begin with `pkg`, `cmd` or `deploy` below `src`.

## 1. The system

### Components

| Component | State it keeps | Operations | Modelled in |
|---|---|---|---|
| NSTemplateSet controller (`nstemplateset/nstemplateset_controller.go`) | finalizer and status of the NSTemplateSet | `Reconcile`, `addFinalizer`, `deleteNSTemplateSet`, the watches | `NSTemplateSetController`, `NSTemplateSetState` |
| Cluster resources manager (`cluster_resources.go`, `features.go`) | cluster-scoped objects; template and features recorded in the status | `ensure`, `Apply`, `Cleanup`, `delete` | `ClusterResources` |
| Namespaces manager (`namespaces.go`) | namespaces, their labels and inner objects | `ensure` (one namespace per Reconcile), `ensureDeleted` | `Namespaces` |
| Space roles manager (`space_roles.go`) | role objects; the annotation of what was applied last | `ensure` | `SpaceRoles` |
| Status manager (`status.go`) | conditions and recorded revisions | `setStatus*`, `updateStatus*Revisions`, `wrapErrorWithStatusUpdate*` | all of the above |
| Tier templates, apply client (`nstemplatetier.go`, `client.go`) | none (templates live on the host) | fetch, process, apply | partly: constants, and the objects an application leaves |
| UserAccount controller (`useraccount/`) | finalizer and status of the UserAccount, User, Identities, console settings | `Reconcile`, ensure, migrate labels, disable, delete | `UserAccountController` |
| Idler controller (`idler/`) | Idler status, owners of pods, pods, the Notification on the host, the next request | `Reconcile`, `ensureIdling`, `scaleOwnerToZero`, `createNotification`, the pod predicate | `IdlerController` |
| Host client (`pkg/host/client.go`) | the cached client, two mutexes | `GetHostClient`, `init` | `HostClient`, promise in `LazyClient` |
| MemberOperatorConfig controller (`memberoperatorconfig/`) | none of its own | `Reconcile`, mapping of Secrets | `WebhookDeployment` |
| Certificates (`pkg/cert/`) | the Secret `webhook-certs` | `EnsureSecret`, rotation | `WebhookDeployment` |
| Webhook deployment (`pkg/webhook/deploy/`) | server and webhook configurations with the CA | `Webhook`, `Delete` | `WebhookDeployment` |
| Autoscaler buffer (`pkg/autoscaler/`) | a PriorityClass and a Deployment | `Deploy`, `Delete` | `WebhookDeployment` |
| Mutating webhooks (`pkg/webhook/mutatingwebhook/`) | the cached configuration | `HandleMutateVirtualMachines`, `HandleMutateUserPods` | `VMWebhooks`, `AdmissionWebhooks` |
| Validating webhooks (`pkg/webhook/validatingwebhook/`) | none | one handler per kind | `VMWebhooks`, `AdmissionWebhooks` |
| MemberStatus controller (`memberstatus/`) | the status of the MemberStatus | `Reconcile`, one handler per component | `MemberStatus` |
| Operator and webhook processes (`cmd/`) | none | start-up, serving, reloading | partly: the reload of the configuration, the loading of the certificate, restarts |
| Metrics, logging and utilities | none | | not modelled |

### How they interact

The controllers do not call each other. They meet in the API server: a template
of cluster-scoped resources contains the `Idler`s of the space; the Idler reads
the NSTemplateSet to find the users to notify; the UserAccount controller is
also enqueued by the NSTemplateSet of the same name. All of them read through
informer caches, write with optimistic concurrency (a stale `resourceVersion`
is a conflict), and run one Reconcile per object at a time, triggered by events
that pass their predicates, by errors (rate-limited retry) and by `RequeueAfter`.

Two places are shared within a process. Every Reconcile of an NSTemplateSet asks
the host client for the host's TierTemplates, and all wait while one of them
makes it. The webhook server's handlers read the configuration from a cache that
a goroutine reloads.

The webhook server is deployed by the operator and called by the API server: it
serves the certificate that the kubelet has mounted from the Secret, and the API
server trusts it if that matches the CA in the webhook configurations. It also
works with the Idler: a virtual machine that the Idler has stopped stays stopped
only if its run strategy is Manual, which the two webhooks see to together.

### What is hard about it

- Every Reconcile is a sequence of API calls; the host, users, administrators
  and other controllers act between any two of them, and any of them may fail,
  or the operator may stop after it.
- Caches lag. A decision is made on an old copy, and status updates that would
  change nothing are skipped, so a stale copy may be believed.
- Progress depends on events: most steps return without a requeue and rely on
  the event of the object they changed.
- What was done is remembered in the status, a label or an annotation written
  *after* it was done.
- Deletions have an order (cluster resources, then namespaces, then the
  finalizer; Identities, then console settings, then the User).
- The Idler has one timer for all pods of a namespace, and the MemberStatus
  controller is called by nothing but its own timer.
- The host client is made under two locks, in steps that block while the host is
  out of reach and may fail after informers have been started.
- Nothing asks for a Reconcile when a certificate gets old, and a new one reaches
  the Secret, the configurations and the server's pods at different times.
- A request passes two webhooks and the API server, each of which checks a part
  on the base of what it read at another time; a call may fail, and is then
  ignored for some kinds and fatal for others.

`PROJECT.json` lists these as hazards, each at its line with the properties that
are about it.

## 2. Modules

| Module | Content |
|---|---|
| `NSTemplateSetState` | constants, variables and helpers shared by the NSTemplateSet modules: API server, caches, queue, the running Reconcile, status updates |
| `ClusterResources`, `Namespaces`, `SpaceRoles` | one per manager, one action per group of calls between which others may act |
| `NSTemplateSetController` | `Reconcile`, deletion, faults, environment, `Spec`, properties, the inductive invariant |
| `NSTemplateSet_proofs`, `NSTemplateSetOrder_proofs` | theorems about it; the second extends the first |
| `UserAccountController` | the UserAccount controller and its environment, properties, the inductive invariant |
| `UserAccount_proofs` | theorems about it |
| `IdlerController` | the Idler controller, a clock, pods and owners, properties, three inductive invariants |
| `Idler_proofs` | theorems about it |
| `LazyClient` | what the host client promises its callers |
| `HostClient` | how `GetHostClient` and `init` keep it, and that they implement `LazyClient` |
| `HostClient_proofs` | theorems about it |
| `WebhookDeployment` | MemberOperatorConfig controller, certificates, deployment of webhooks and buffer, the kubelet, time, the inductive invariant |
| `WebhookDeployment_proofs` | theorems about it |
| `VMWebhooks` | what the webhooks compute for a VirtualMachine (operators only) |
| `AdmissionWebhooks` | requests on their way through the webhooks and the API server |
| `AdmissionWebhooks_proofs` | theorems about it |
| `MemberStatus` | the MemberStatus controller and the cluster it looks at, the inductive invariant |
| `MemberStatus_proofs` | theorems about it |
| `MC...` | instances for TLC |

### NSTemplateSet

One NSTemplateSet, the namespaces by type (`ns[t]`), their objects (`nsObjs[t]`)
and the cluster-scoped objects (`clusterObjs`). `pc` is the place in Reconcile,
`mem` the copy of the NSTemplateSet that the Go code passes around and changes.
A `resourceVersion` is only compared for equality with the stored one, so a flag
beside each copy (`synced`, `current`, `nsSynced`, `snapCur`) says whether it is
the stored version. Templates are constants (`CRObjs`, `NSObjs`, `RoleGrants`,
`FeatureOf`): a TierTemplate is immutable and its objects are told apart by name
only. Applying or deleting a list of objects is one action that may stop after
any subset of them when a call fails. Which of several namespaces is taken first
is left open. A condition is its reason; a failure's message only makes the
stored object a new version. `ApplyKeeps` says whether applying a Namespace
again keeps labels the template does not set, which the apply client leaves to
a three-way merge; `whole` uses both values, the proofs any.

The environment: the host changes the spec or deletes the NSTemplateSet, users
delete Roles and RoleBindings, administrators delete namespaces or cluster-scoped
objects, the namespace controller empties and removes a terminating namespace,
informers deliver (`Sync*`), a resync happens, a call fails, the operator stops.
`MaxChanges` bounds what others change, `MaxFaults` failures and crashes;
`tried` and `lost` are history variables for the properties.

### UserAccount

One UserAccount, the User of its name (told apart by UID, so a User made anew is
another one), one Identity per claim, the console settings as pairs of a UID and
a kind. The console stores settings only for a user who can log in, that is
through an Identity that is mapped both ways (external). `skip` is
`SkipUserCreation`, read anew by the code but constant per behaviour because its
change alone enqueues no account. `legacy` starts a behaviour with a User and an
Identity that an earlier version left unlabelled. `wake` holds the objects with
an undelivered event that enqueues the account. A disabled account goes through
Disabling and Disabled in every Reconcile, which is why `EventuallyReported` is
`[]<>` and not `<>[]`.

### Idler

One Idler and the pods of its namespace, with a clock `now` in seconds. A
Reconcile takes no time and the clock stands still while a request waits, so the
time properties are about the times the operator *asks* to be called at, not
about load or back-off. `due` is the delayed queue: it keeps the earlier of two
times, and a `RequeueAfter` of zero adds nothing. Owners are `up`, `down`,
`deleting` or `gone`; `Idled` is the effect of `scaleToZero`, `idleAAP`,
`idleClaw`, `deleteResource`, `scaleDeploymentConfigToZero`,
`stopVirtualMachine` and `idleServingRuntime` on one of them. `Stubborn` owners
do not react, which is what the escalation is for. Fetching the owners may fail
and then yields the lower part of the chain. A pod that appears already started
(`AppearPod`) is one whose start was lost with an interrupted watch. Restart
counts are a flag (above the threshold or not). Percentages of the timeout are
cut to whole seconds as in the code. The deletion of an Idler only ends the
reconciling and is left out.

### Host client

A caller of `GetHostClient` is at a place `pc[c]`; `getLock` and `initLock` are
the holders of the two mutexes; clusters that `init` has created are numbered,
and `client` is the number of the one that is cached. A started cluster keeps
running after a failed attempt, as in the code. Waiting for the cache is no wait
because no informer has been asked for yet; each `List` then starts an informer
and blocks until it has synced, for which the host has to be up. The mapping to
`LazyClient` is `cell <- client` and `waiting <-` the callers that are not idle.
A call that arrives is not told apart from the moment its goroutine tries the
lock.

### Webhook deployment

Time runs in periods of the resync of informers; a certificate lives for
`Expiration` of them and is replaced in the second half of its life. Server
certificate and CA are made together and told apart by a number. The objects of
a template are applied or deleted one per step in the order of the file; the
five that make up the server (role, account, binding, Service, Deployment) are
one. `cfgSeen` and `secretSeen` are the informers' copies, `undelivered` the
events under way. `KubeletSync` and `Trusted` stand for the volume, for
`GetCertificate` in `cmd/webhook/main.go` and for the API server (external).
`Tick` only happens at rest, since a Reconcile takes far less than a period,
unless a fault is spent on an outage.

### Admission

One object of each kind and `Slots` requests under way. A request goes through
`mutate` and `validate` to `store`, where its `base` revision is compared as the
API server does. The API server is external and modelled from the webhook
configurations in `deploy/templates/webhook` (operations, failure policies).
`asked`, `missed`, `failed` and `keys` are history: what was submitted, whether
the webhook was reached, how many lookups of the user failed, and which SSH keys
the replica knew. Of a VirtualMachine the model keeps what the handlers read; a
cloud-init text is told by its header, whether it is YAML, its user and its keys.
Requests of different kinds share nothing that changes, so only one kind is under
way at a time (`Receive`), and two requests together only for
SpaceBindingRequests, whose handler reads the stored object itself. A panic of a
handler ends the call like an error.

### MemberStatus

`health` says whether each part is healthy when it is looked at, `nodes` the
state of each Node and its metrics. `seen` and `current` stand for the comparison
of `resourceVersion`s; what an old copy contains does not matter since its update
conflicts. The memory per role is computed as in the code, in whole percent.

## 3. Runs

All bounds are in the `.cfg` files. They are chosen so that every action and
disjunct occurs and so that a change by others, a fault and a stale read can
meet in one behaviour, which is what the hazards need; a second fault repeats
the retry of the first.

| Run | Instance | Shows |
|---|---|---|
| `whole` | three whole tiers (templates, a feature, one or two namespaces, roles), stale NSTemplateSet, an object removed by others, 2 changes, 1 fault | `OrderInv` (the whole inductive invariant), `ClusterAccounting` (every cluster-scoped object is recorded or part of an unrecorded attempt), `NoOrphanedNamespaces`, `QuotaBeforeNamespace`, `ReadyIsCurrent`, `ReadyNamespacesComplete`, `ClusterResourcesDeletedFirst` |
| `recovery` | two values of the space roles, all caches stale, users who delete roles and namespaces, 1 change, 1 fault, fairness | `EventuallyProvisioned`, `DeletionCompletes` |
| `useraccount` | four specs, skip and legacy both ways, stale UserAccount, 2 changes, 1 fault | `IndInv`, `NothingOwnedLeft`, `ProvisionedIsMapped`, `DisabledIsRemoved`, `IdentitiesDeletedFirst` |
| `useraccount_live` | an account switched on and off, stale Users and Identities, administrators, up to 4 UIDs, fairness | `EventuallyProvisioned`, `EventuallyReported`, `DeletionCompletes` |
| `idler` | the pod that imports the disk of a virtual machine (three owners: stopped, deleted, deleted; two ignore it; without the last the pod has no owner that can be found), a pod of an Ansible platform that scales its StatefulSet up again, timeout 40, starts at 0 and 1, 1 change | `IdledInTime`, `SecondOwnerIdled` |
| `idler_vm` | a virtual machine whose instance hangs, timeouts 240, 0 and -1, 1 change, 1 fault | `LateInv` (all three inductive invariants), `PodDeletedAtLast`, `NotifiedOnce` |
| `hostclient` | three callers, the kinds of the code, 2 faults (failing steps, outages, restarts), fairness | `IndInv`, `ClientIsWarm`, `ImplementsLazyClient`, `CallsReturn`, `ErrorsEnd` |
| `webhook` | certificates of 4 periods, 5 periods, 2 changes, 1 fault, stale caches, fairness | `IndInv`, `RestIsConsistent` (configurations carry the CA of the stored certificate), `NoExpiredCertificate`, `GoodCertificateKept`, `DeploymentConverges` |
| `admission` | 76 shapes of VirtualMachines, all other kinds, two slots (symmetric), 3 revisions, 1 change of keys or restart | `TypeOK`, `VMWithinRules`, `CreatedVMIsComplete`, `UntreatedOnlyIfMissed`, `MasterUserRecordKept` |
| `memberstatus` | nodes of two, one and no role, 3 changes, 1 fault, fairness | `IndInv`, `ReportIsCoherent` (Ready, the components not ready, their conditions and the usage belong together), `EventuallyReported` |

A timeout of 240 is the smallest for which 5% of a virtual machine's twelfth is a
second; with 40 for other pods the checks are two seconds apart, so that a check
can be a second late, and the 105% and the 110% differ. In each run
the clock goes past the deadline of its property, the checks allowed after 105%
or 110% included. Three owners are enough for one to become the second of those
left when another is deleted. Three callers are one inside `init` and two that
wait, so that who comes next matters. Four periods are the smallest life of a certificate with a resync
in each half and one to spare for an outage; five reach a second rotation. Three
revisions allow a create, an update and a conflict between two updates. Three
changes let two nodes lose their metrics, which the code tells from one, and
something else happen.

Deadlock is checked for the UserAccount, the host client and the webhook
deployment, whose next-state relations always allow another event. It is not for
the NSTemplateSet, because a settled or deleted space really stops; for the
Idler, whose clock ends at `MaxNow`; for admission, where `MaxRevision` ends the
requests; and for the MemberStatus, whose controller stops when it is removed.

### Where the code does less than its comments say

Each of these has a run that is expected to find the violation, and its finding
in `PROJECT.json` quotes the line.

| Run | Property | What happens |
|---|---|---|
| `objects_left` | `NoClusterObjectsLeft` | deletion during `ensure`: objects applied and not yet recorded in the status stay |
| `ready_grants` | `ReadyGrantsAreThoseOfSpec` | a crash between applying space roles and annotating them, then another change: grants in between stay under Ready |

Other gaps are known, and no property claims the contrary:

- With a stale cache of namespaces, `ensureDeleted` may take a namespace that was
  just created for absent; the finalizer goes and the namespace stays
  (`nstemplateset/namespaces.go:239`). `NoOrphanedNamespaces` is therefore
  checked with a fresh cache.
- A cluster-scoped object that others have removed is not applied again, by a
  resync either (`nstemplateset/nstemplateset_controller.go:66`).
- A tier that is changed and changed back while the first change is half applied
  leaves cluster-scoped objects missing, since the status matches the spec again.
- A namespace whose obsolete objects were only partly deleted, and which then
  goes back to the labelled tier, passes as provisioned without them, since only
  Roles and RoleBindings are compared.
- 5% of a timeout below 20 seconds is zero, and `RequeueAfter: 0` is no requeue
  (`idler/idler_controller.go:176`), so that a pod whose owner does not react is
  looked at again only by another event.
- All users of a space get a Notification of one name, so only the first creation
  succeeds.
- Objects of the webhook templates that others remove come back only with the
  next resync or change, since nothing watches them (`RemoveObject`).
- A CA in the Secret that does not fit the certificate beside it is not noticed
  (`pkg/cert/secret.go:57`).
- The default cloud-init text has its keys as a list in a list and no user; such a
  VirtualMachine is refused, and `CreatedVMIsComplete` holds because of that.

## 4. Fairness

Liveness is checked under weak fairness of the steps of Reconcile as a whole
(the work queue hands out what was added to it and retries errors), of the
delivery by each informer, of the namespace controller finishing a termination,
and of the time that ends a one-second postponement. Nothing is assumed of
faults, of users, administrators and requests. The bounds on changes and faults stand for
"from some time on the others leave it alone", without which nothing converges.

`EventuallyReported` needs a fresh UserAccount cache: with a stale one a retry
may believe that its report was made already, and a failure stays in the status
until another event. The NSTemplateSet does not have this weakness:
`setProvisionedNamespaceList` always writes the status and so meets the conflict.

The host client's properties need more of others. A Reconcile that got an error
calls again (`WF` of `Call` after an error), the steps of `init` and the delivery
of an informer's first list go on, and the host is registered and up in the end.
`GetHostClient` has strong fairness: Go's mutex hands itself to a waiter that has
waited for a millisecond, so that a caller is not overtaken for ever. The webhook
deployment also has the resync of Secrets, without which a removed object is not
noticed, and the kubelet's refresh of the volume; the MemberStatus its timer.

## 5. Proofs

### NSTemplateSet

`NSTemplateSet_proofs` proves, for every set of templates, tiers, features,
namespace types, grants, stale caches and bounds that satisfy the assumptions
`ConstantsAssumption` and `ObjectsAssumption` of `NSTemplateSetState`:

- `Invariance`: `Spec => []IndInv`;
- `TypeCorrect`: `Spec => []TypeOK`;
- `Accounting`: `Spec => []ClusterAccounting`;
- `ReadyCurrent`: `Spec => ReadyIsCurrent`.

`ClusterAccounting` is not inductive: that recording a template leaves no
unrecorded object depends on what `Cleanup` removed two steps before, on a copy
the host may have outdated. `IndInv` adds what each step may rely on:

- `PickOK`: a namespace and a template are picked where they are used;
- `CopiesOK`: a copy whose version is the stored one equals the stored object;
- `LifeOK`: deletion is final, copies never run ahead of it, and an object
  without finalizer records nothing;
- `ClusterStepOK`: what has been applied, cleaned up or deleted at each step;
- `ProgressOK`: the parts of the spec that are recorded at each step.

There is one lemma per action (`...Step`), on top of lemmas about the effect of
a status update, of a failure and of the end of Reconcile on each part; steps of
others are treated by frame lemmas (`OthersKeep`, `HostKeeps`). `ReadyCurrent`
uses `ProgressOK` and `CopiesOK` at the one step that sets Ready, and
`NoOtherReady` for all others.

`NSTemplateSetOrder_proofs` goes on from there, under the same assumptions:

- `OrderInvariance`: `Spec => []OrderInv`;
- `NoOrphans`: `Spec => []NoOrphanedNamespaces`;
- `QuotaFirst`: `Spec => QuotaBeforeNamespace`;
- `DeletedInOrder`: `Spec => ClusterResourcesDeletedFirst`;
- `ReadyComplete`: `Spec => ReadyNamespacesComplete`.

`OrderInv` is `IndInv` and:

- `ListsOK`: a copy of a namespace or of its RBAC objects that no event is to
  replace is the stored one;
- `FinalizerOK`: the finalizer is there whenever namespaces may be made, and
  with a fresh cache of namespaces there are none when it goes;
- `RecordOK`: an out-of-date record of cluster resources in a copy shows itself:
  a live copy does not match its own spec, a deleted one still records some. This
  is what makes deciding on a stale copy harmless, and why the order holds in
  spite of stale NSTemplateSets;
- `NamespacesOK`: with fresh caches and users who leave roles alone, the active
  namespaces that Reconcile has found up to date or has dealt with are so. The
  hypotheses are those of the property: a user may delete a role at any moment.

Most steps change neither namespaces nor records; the lemmas `...Quiet` say which
and how, so that each of the four parts is only argued at the steps that matter
to it. `OrderInv` is an invariant of the run `whole`, which also checks the five
properties.

### UserAccount

`UserAccount_proofs` proves, for any claims, specs, starting points, stale caches
and bounds (`UserAccountAssumption`):

- `Invariance`: `Spec => []IndInv`;
- `NothingLeft`: `Spec => []NothingOwnedLeft`;
- `IdentitiesFirst`: `Spec => IdentitiesDeletedFirst`;
- `DisabledRemoved`: `Spec => DisabledIsRemoved`;
- `ProvisionedMapped`: `Spec => ProvisionedIsMapped`.

`IndInv` consists of `TypeOK`; `CopiesOK` (a copy with the stored version is the
stored object, but for the label that Reconcile adds and may fail to store);
`LifeOK` (deletion is final, and Users and Identities are only written under the
finalizer); `ObjectsOK` (the operator labels what it makes); and, as long as no
administrator interferes and the caches of Users and Identities are fresh,
`RemovalOK` and `MappingOK`, which say how far the removal and the mapping have
come at each place. `RemovalOK` is why nothing is left: `dNone` is reached only
after the lists were empty, and what could make something anew needs the
finalizer and another Reconcile. Frame lemmas (`ObjFrame`, `EnvFrame`,
`UserFrame`, `IdentFrame`, `Steps`) say which actions may change which objects
and which place follows which.

### Idler

`Idler_proofs` proves, for any pods, chains of owners, kinds, timeouts (zero and
negative ones too), numbers of e-mail addresses and bounds (`IdlerAssumption`):

- `Invariance`: `Spec => []IndInv`;
- `ToldOnce`: `Spec => []NotifiedOnce`;
- `TimeInvariance`: `Spec => []TimeInv`, and `InTimeIdled`:
  `Spec => []IdledInTime`;
- `LateInvariance`: `Spec => []LateInv`, `SecondIdled`:
  `Spec => []SecondOwnerIdled`, and `LastDeleted`: `Spec => []PodDeletedAtLast`.

All but the first two assume `LongTimeouts` (5% of a positive timeout of a pod is
at least a second, that is the timeout is at least 20 seconds, 240 for virtual
machines) and `NoServingRuntime`. The instances of the runs satisfy both. Neither
can be dropped: the 5% are cut to whole seconds, and after zero seconds nothing
is asked for at all; and a ServingRuntime stays up while its InferenceService is
young.

That at most one Notification was sent is not inductive: whether another one is
sent depends on a copy of the condition that was read long before. `IndInv` adds
`WorkOK` (what Reconcile works on at each place, that it asks for no check in the
past, and that a copy not outdated by the host is the stored Idler) and
`NotesOK`: a Reconcile that is about to record a Notification finds it on the
host, and if there was one and the host has removed it, then the stored Idler,
the cached one and the copy of a running Reconcile all say so. The last is the
assumption the model makes about the host: Notifications are removed long after
their condition was set (`HostRemovesNotification`). That what the owners of a
pod are fetched from is a sequence of owners rests on lemmas about `Max` and
`SubSeq` (`MaxBelow`, `ReachableOwners`).

`IdledInTime` speaks of the operator at rest; what makes it true happens in the
loop. `TimeInv` has three parts beside `IndInv`. `RestOK`: at rest the next
request is due *in time* for every pod, which is before the pod gets too old, or
within 5% of now if an owner of it is idled or was changed by others less than
that ago (`InTime`). `LoopOK`: the same of the request that the loop will ask
for, for every pod that is not on the list any more, while the list is right
about the start and the restarts of those that are; only what is read again
later may change without a request. `OwnersOK`: where the owners of a pod are
idled, one of them is idled or was changed just now (`Settled`) as soon as one
call was made and did not fail. All of it may be false while a request is
waiting, because then Reconcile starts again before time goes on. Every step is
shown to be one of a few kinds: `Quiet` (the environment), `SamePass`,
`KilledStep` and `FailedStep` within the loop, each with a lemma of its own.

`SecondOwnerIdled` and `PodDeletedAtLast` say when the two later stages of the
escalation have been reached. The comment at `owners.go:46` gives the ages of the
pod, 105% and 110%; what the code does is reach them at a *check*, and checks are
5% apart. `Deadline` counts them: one after the age or after the last disturbance
(`Disturbed`: others changed an owner, the host the timeout, or the watch missed
the start of a pod), one more for every failure, and one more for every owner
that is idled by deleting it (`Cleared`). The last is no slack of the proof: a
deleted owner does not count any more, so the one below it becomes the second,
and is idled only at the next check; if three of a chain are deleted that way,
the pod itself follows three checks after 110%. Which owners are meant changes
with every step: `LiveAt` are those that `scaleOwnerToZero` finds and acts on
now, `FirstTwo` the first two of them.

`LateInv` adds to `TimeInv` that no moment, no check at rest and no check the loop
will ask for is too late (`NowNotLate`, `RestNotLate`, `LoopNotLate`): it comes at
most a second after the deadline, or what is to be reached was reached and stays
so (`BothDown`, `Stable`). `Stable` is stronger than `Handled`, which the property
asserts: an owner that is left may itself be deleted by the next check, so none
of the first two may be of a kind that is. Inside the walk over the owners of one
pod, `Walked` says how the owners fetched before relate to those there are now:
what is left of the list is the rest of the chain, and of the owners passed at
most one can still be acted on, which is down and is the reason for `top`. The
check that comes after the walk is then not late (`Treated`) in one of four ways:
both owners are down; one was deleted or a call failed, which puts the deadline
off (`OneMoreTreats`, with `NowNotLate`); the pod is younger than 105%, which
puts the next check before the deadline (`Early`); or the walk has ended with one
owner down and the pod younger than 110% or nothing deleted below (`WalkEnds`).
That idling an owner undoes none of this for another pod of the same owner needs
the first two of those that can be acted on before and after it
(`TwoFirst`, `IdleKeepsDown`, `IdleKeepsStable`).

### Host client

`HostClient_proofs` proves, for any callers, kinds and number of faults
(`HostClientAssumption`):

- `LockDiscipline`: `Spec => []IndInv`: only the holder of `getLock` is inside
  `init` and holds `initLock` there, the client is nil as long as somebody is,
  and every client given is the cached one, all of whose kinds have synced;
- `GivenClientIsWarm`: `Spec => []ClientIsWarm`;
- `Implementation`: `Spec => ImplementsLazyClient`, the refinement. Every step of
  a caller is an `Ask`, a `Give`, a `Refuse` or a stutter of `LazyClient`;
  `IndInv` is needed because `Refuse` is only allowed, and `Publish` only a first
  filling of the cell, if the client is still nil after steps that other callers
  could have taken.

### Admission

`AdmissionWebhooks_proofs` proves, for any VirtualMachines, keys, replicas, slots
and bounds (`AdmissionAssumption`):

- `VMRules`: `Spec => []VMWithinRules`;
- `CreatedComplete`: `Spec => []CreatedVMIsComplete`;
- `Treated`: `Spec => []UntreatedOnlyIfMissed`;
- `MasterUserRecord`: `Spec => MasterUserRecordKept`;
- `TypeCorrect`: `Spec => []TypeOK`.

The stored objects alone are not inductive. `Inv` adds, per request and phase,
what has been checked of it so far: a VirtualMachine that is past `mutate` has
its run strategy set, one at `store` has passed the validation for its operation
(`VMInv`); a pod at `store` is patched or was missed, a RoleBinding or SSP has
the verdict behind it (`OthersInv`); an update of a SpaceBindingRequest at
`store` agrees with the stored object *if that still has the base revision*
(`SBRInv`), because revisions are never used twice. A request whose base is
outdated may say anything, and `Store` refuses it.

`TypeInv` adds, on top of `Inv`, types and what `CreatedComplete` needs: a
VirtualMachine at `mutate` is the one that was asked for, one past it is
`Prepared`, and at `store` it is also allowed. The lemmas under it are about the
operators of `VMWebhooks` for all VirtualMachines: `Patches` (each of the four
patches changes its own part of the object and reads parts the others leave
alone), `LimitsComplete` (which limits there are and what they are), and
`Mutates`: what comes out of `vmMutator` is a VirtualMachine, and every text
*with a user* that the schema lets pass has the keys. A text without a user does
not, which is the default one; that no such VirtualMachine is stored is the
validating webhook's part, and the two only meet in `StoreTypes`.

### Webhook deployment

`WebhookDeployment_proofs` proves, for every life of a certificate and all bounds
(`WebhookDeploymentAssumption`):

- `Invariance`: `Spec => []IndInv`;
- `RestConsistency`: `Spec => []RestIsConsistent`;
- `GoodCertificates`: `Spec => GoodCertificateKept`;
- `CertificatesInTime`: `Spec => []NoExpiredCertificate` if
  `MaxFaults <= Expiration \div 2`. The hypothesis is needed: each fault may be an
  outage of a period, and a certificate is replaced when half its life is left.

`IndInv` is `TypeOK` and `CachesOK` (a copy is the stored object unless an event
is under way), `BranchOK` (why Reconcile is where it is; a certificate that was
to be replaced still is to be), `ObjectsOK` (how many objects of a template have
been applied or deleted, and that what a Reconcile left holds while no other is
asked for) and `LifeOK` (how much life the mounted and the stored certificates
have left, minus the faults so far).

### MemberStatus

`MemberStatus_proofs` proves, for any nodes, labels, capacities, loads and bounds
(`MemberStatusAssumption`), `Invariance` (`Spec => []IndInv`) and
`ReportCoherence` (`Spec => []ReportIsCoherent`). The report is filled in by four
handlers between which anything may change; `HandlersOK` says for each place
which handlers have run and that the list of components not ready is exactly that
of the conditions they wrote, the usage included.

### Only model-checked

- The liveness properties: fairness and `ENABLED` are beyond the prover.
- The sums of memory in the MemberStatus (`EventuallyReported` needs their value):
  a sum over a set is an induction over data. Of a usage the proofs only say for
  which roles there is one.

## 6. Plan

Done: all components of the table but the processes and utilities are modelled;
all the safety properties that the passing runs check are theorems. Next, in this
order:

1. An abstract specification of a space (absent, provisioning, ready, going,
   gone; what may exist in each phase) that `NSTemplateSetController` implements,
   with the refinement proved from `OrderInv`.
2. NSTemplateSet and Idler composed: the Idlers are cluster-scoped objects of a
   tier, and a change of the tier changes their timeouts.

## 7. Not modelled

- The wiring of the processes (`cmd/main.go`, `cmd/webhook/main.go`): flags,
  registration of schemes, controllers and handlers, signals. What they do later
  (restart, reload of the configuration, loading of the certificate at a
  handshake) is part of the models.
- Metrics, logging, and the REST and route helpers: I/O without state.
- Generation of keys and certificates, and the text of cloud-init data: out of
  reach; a certificate is a number with an expiry.
- Fetching and processing of TierTemplates (`nstemplatetier.go`): a template is a
  constant. The removal of a TierTemplate that is still in use is not modelled.
- Of the modelled controllers: optional API groups and the special treatment of
  ServiceAccounts in `ApplyToolchainObjects`, annotations of the User, and the
  individual fields of patches and rendered templates.
- Admission reviews that cannot be decoded, which the API server does not send:
  the handlers refuse them.
