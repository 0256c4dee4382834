------------------------- MODULE WebhookDeployment -------------------------
(***************************************************************************)
(* The MemberOperatorConfig controller (controllers/memberoperatorconfig), *)
(* which deploys or deletes the autoscaling buffer and the webhooks, with  *)
(* the certificates of the webhook server (pkg/cert) in a Secret, the CA   *)
(* in the two webhook configurations, and the server's pods, which serve   *)
(* the certificate in a volume that the kubelet refreshes later.           *)
(*                                                                         *)
(* Time runs in periods of the informers' resync (10 hours in             *)
(* controller-runtime).  A certificate and its CA are made together and    *)
(* are told apart by a number.                                             *)
(***************************************************************************)
EXTENDS Naturals, Sequences

CONSTANTS
    Expiration,  \* life of a certificate, in periods
    MaxNow,      \* bound on time
    MaxChanges,  \* bound on what administrators do
    MaxFaults    \* bound on failing calls, stops and outages

ASSUME WebhookDeploymentAssumption ==
    /\ Expiration \in Nat \ {0}
    /\ MaxNow \in Nat /\ MaxChanges \in Nat /\ MaxFaults \in Nat

\* deploy/templates/webhook: the PriorityClass, which must not be deleted; the
\* role, account, binding, Service and Deployment that make up the server; and
\* the configurations.  The order is that of the file.
Template == <<"priorityClass", "server", "mutating", "validating">>
NoDeletion == {"priorityClass"}
Configurations == {"mutating", "validating"}
WebhookObjs == {"priorityClass", "server"} \union Configurations

\* deploy/templates/autoscaler
BufferTemplate == <<"bufferPriorityClass", "bufferDeployment">>
BufferObjs == {"bufferPriorityClass", "bufferDeployment"}

VARIABLES
    cfg,         \* the MemberOperatorConfig: deploy webhook? deploy autoscaler?
    secret,      \* the Secret webhook-certs
    cfgSeen, secretSeen,     \* both in the informers' caches
    undelivered, \* those of the two whose events are under way
    objs,        \* objects of both templates that exist
    ca,          \* the CA in a webhook configuration
    mounted,     \* the Secret in the volume of the server's pods
    queued,      \* is there a request in the work queue?
    pc,          \* place in Reconcile
    conf,        \* the configuration this Reconcile has loaded
    got,         \* the Secret EnsureSecret has read
    bundle,      \* the CA it has returned
    i,           \* position in the template being applied or deleted
    issued,      \* number of certificates made
    now, changes, faults

cluster == <<cfg, secret, objs, ca, mounted>>
caches == <<cfgSeen, secretSeen, undelivered>>
locals == <<conf, got, bundle, i>>
counters == <<issued, now, changes, faults>>
vars == <<cluster, caches, queued, pc, locals, counters>>

Secrets == [id : Nat, notAfter : Nat, sound : BOOLEAN]
NoSecret == [id |-> 0, notAfter |-> 0, sound |-> FALSE]
Configs == [webhook : BOOLEAN, autoscaler : BOOLEAN]

TypeOK ==
    /\ cfg \in Configs /\ cfgSeen \in Configs /\ conf \in Configs
    /\ secret \in Secrets /\ secretSeen \in Secrets /\ got \in Secrets /\ mounted \in Secrets
    /\ undelivered \subseteq {"cfg", "secret"}
    /\ objs \subseteq WebhookObjs \union BufferObjs
    /\ ca \in [Configurations -> Nat]
    /\ queued \in BOOLEAN
    /\ pc \in {"idle", "autoscaler", "getSecret", "create", "update", "apply", "delete"}
    /\ bundle \in Nat /\ issued \in Nat /\ now \in Nat /\ changes \in Nat /\ faults \in Nat
    /\ i \in 1 .. (IF pc = "autoscaler" THEN Len(BufferTemplate) ELSE Len(Template))

Init ==
    /\ cfg \in Configs /\ cfgSeen = cfg /\ conf = cfg
    /\ secret = NoSecret /\ secretSeen = NoSecret /\ got = NoSecret /\ mounted = NoSecret
    /\ undelivered = {} /\ objs = {} /\ ca = [o \in Configurations |-> 0]
    /\ queued = TRUE /\ pc = "idle" /\ bundle = 0 /\ i = 1
    /\ issued = 0 /\ now = 0 /\ changes = 0 /\ faults = 0

Fault == faults < MaxFaults /\ faults' = faults + 1

---------------------------------------------------------------------------
(* Certificates                                                            *)

\* A new CA, and a server certificate signed by it, which expire together
CreateCerts(notAfter) == [id |-> issued + 1, notAfter |-> notAfter, sound |-> TRUE]

newSecret == CreateCerts(now + Expiration)

\* Mutant: the certificate is replaced only when it has expired
ReplacedWhenExpired(s) == ~s.sound \/ now > s.notAfter

\* The pair in the Secret cannot be used, or less than half its life is left
NeedsNewCert(s) == ~s.sound \/ now + Expiration \div 2 >= s.notAfter

\* EnsureSecret reads the Secret and decides
GetSecret ==
    /\ pc = "getSecret"
    /\ got' = secretSeen
    /\ \/ secretSeen = NoSecret /\ pc' = "create" /\ UNCHANGED bundle
       \/ secretSeen # NoSecret /\ NeedsNewCert(secretSeen) /\ pc' = "update" /\ UNCHANGED bundle
       \/ secretSeen # NoSecret /\ ~NeedsNewCert(secretSeen) /\ pc' = "apply" /\ bundle' = secretSeen.id
    /\ i' = 1
    /\ UNCHANGED <<cluster, caches, queued, conf, counters>>

\* An event is on its way to the cache
Written(o) == undelivered' = undelivered \union {o} /\ UNCHANGED <<cfgSeen, secretSeen>>

StoreSecret ==
    /\ secret' = newSecret /\ Written("secret")
    /\ issued' = issued + 1
    /\ bundle' = newSecret.id
    /\ pc' = "apply"
    /\ UNCHANGED <<cfg, objs, ca, mounted, queued, conf, got, i, now, changes, faults>>

\* Reconcile returns an error and is called again
Retry ==
    /\ pc' = "idle" /\ queued' = TRUE
    /\ UNCHANGED <<cluster, caches, locals, issued, now, changes>>

\* Create, or AlreadyExists
CreateSecret ==
    /\ pc = "create"
    /\ \/ secret = NoSecret /\ StoreSecret
       \/ secret # NoSecret /\ Retry /\ UNCHANGED faults

\* Mutant: the new Secret is written without the resourceVersion of the old one
UpdateUnconditionally ==
    /\ pc = "update"
    /\ \/ secret # NoSecret /\ StoreSecret
       \/ secret = NoSecret /\ Retry /\ UNCHANGED faults

\* Update with the resourceVersion that was read, or a conflict
UpdateSecret ==
    /\ pc = "update"
    /\ \/ secret = got /\ StoreSecret
       \/ secret # got /\ Retry /\ UNCHANGED faults

---------------------------------------------------------------------------
(* Reconcile                                                               *)

\* ForceLoadConfiguration
Start ==
    /\ pc = "idle" /\ queued
    /\ queued' = FALSE
    /\ conf' = cfgSeen
    /\ pc' = "autoscaler" /\ i' = 1
    /\ UNCHANGED <<cluster, caches, got, bundle, counters>>

\* Mutant: the loop runs past the end of the template
AdvancePastEnd(tmpl, next) ==
    IF i <= Len(tmpl) THEN i' = i + 1 /\ UNCHANGED pc
    ELSE i' = 1 /\ pc' = next

\* To the next object of a template, or on to the next step
Advance(tmpl, next) ==
    IF i < Len(tmpl) THEN i' = i + 1 /\ UNCHANGED pc
    ELSE i' = 1 /\ pc' = next

\* Deploy and Delete of pkg/autoscaler: one object
DeployBuffer(o) == objs' = objs \union {o}
DeleteBuffer(o) == objs' = objs \ {o}

\* handleWebhookDeploy: which way to go after the buffer
handleWebhookDeploy == IF conf.webhook THEN "getSecret" ELSE "delete"

handleAutoscalerDeploy ==
    /\ pc = "autoscaler"
    /\ IF conf.autoscaler THEN DeployBuffer(BufferTemplate[i]) ELSE DeleteBuffer(BufferTemplate[i])
    /\ Advance(BufferTemplate, handleWebhookDeploy)
    /\ UNCHANGED <<cfg, secret, ca, mounted, caches, queued, conf, got, bundle, counters>>

\* Mutant: a configuration that exists keeps its CA
BundleOfFirstApply ==
    /\ pc = "apply"
    /\ objs' = objs \union {Template[i]}
    /\ ca' = IF Template[i] \in Configurations \ objs THEN [ca EXCEPT ![Template[i]] = bundle] ELSE ca
    /\ Advance(Template, "idle")
    /\ UNCHANGED <<cfg, secret, mounted, caches, queued, conf, got, bundle, counters>>

\* deploy.Webhook: one object is applied, a configuration with the CA
ApplyObject ==
    /\ pc = "apply"
    /\ objs' = objs \union {Template[i]}
    /\ ca' = IF Template[i] \in Configurations THEN [ca EXCEPT ![Template[i]] = bundle] ELSE ca
    /\ Advance(Template, "idle")
    /\ UNCHANGED <<cfg, secret, mounted, caches, queued, conf, got, bundle, counters>>

\* Mutant: the error that a deletion meets is swallowed and the loop ends
DeletionStops ==
    /\ pc = "delete"
    /\ objs' = objs \ ({Template[i]} \ NoDeletion)
    /\ i' = 1
    /\ pc' = "idle"
    /\ UNCHANGED <<cfg, secret, ca, mounted, caches, queued, conf, got, bundle, counters>>

\* deploy.Delete: one object is deleted if it exists and may be
DeleteObject ==
    /\ pc = "delete"
    /\ objs' = objs \ ({Template[i]} \ NoDeletion)
    /\ Advance(Template, "idle")
    /\ UNCHANGED <<cfg, secret, ca, mounted, caches, queued, conf, got, bundle, counters>>

\* A call fails, or no certificate can be made
CallFails ==
    /\ pc # "idle" /\ Fault
    /\ Retry

\* The operator stops; a new one starts with fresh caches, whose first events
\* enqueue the configuration
Restart ==
    /\ Fault
    /\ pc' = "idle" /\ queued' = TRUE
    /\ cfgSeen' = cfg /\ secretSeen' = secret /\ undelivered' = {}
    /\ UNCHANGED <<cluster, locals, issued, now, changes>>

Reconcile ==
    \/ Start \/ handleAutoscalerDeploy \/ GetSecret \/ CreateSecret \/ UpdateSecret
    \/ ApplyObject \/ DeleteObject

---------------------------------------------------------------------------
(* Events, the kubelet, administrators and time                            *)

\* The config passes GenerationChangedPredicate
DeliverConfig ==
    /\ "cfg" \in undelivered
    /\ undelivered' = undelivered \ {"cfg"}
    /\ cfgSeen' = cfg /\ queued' = TRUE
    /\ UNCHANGED <<cluster, secretSeen, pc, locals, counters>>

\* MapSecretToMemberOperatorConfig: an event of any Secret enqueues the config
DeliverSecret ==
    /\ "secret" \in undelivered
    /\ undelivered' = undelivered \ {"secret"}
    /\ secretSeen' = secret /\ queued' = TRUE
    /\ UNCHANGED <<cluster, cfgSeen, pc, locals, counters>>

\* The watched Secrets are delivered again and pass, having no predicate
Resync ==
    /\ ~queued
    /\ queued' = TRUE
    /\ UNCHANGED <<cluster, caches, pc, locals, counters>>

\* What the kubelet has in the volume of the server's pods after a refresh; it
\* keeps the last content of a Secret that is gone
Volume ==
    IF "server" \notin objs THEN NoSecret
    ELSE IF secret = NoSecret THEN mounted ELSE secret

KubeletSync ==
    /\ mounted # Volume
    /\ mounted' = Volume
    /\ UNCHANGED <<cfg, secret, objs, ca, caches, queued, pc, locals, counters>>

Change ==
    /\ changes < MaxChanges /\ changes' = changes + 1
    /\ UNCHANGED <<mounted, queued, pc, locals, issued, now, faults>>

SetConfig ==
    /\ \E c \in Configs \ {cfg} : cfg' = c
    /\ Change /\ Written("cfg") /\ UNCHANGED <<secret, objs, ca>>

RemoveSecret ==
    /\ secret # NoSecret /\ secret' = NoSecret
    /\ Change /\ Written("secret") /\ UNCHANGED <<cfg, objs, ca>>

DamageSecret ==
    /\ secret.sound /\ secret' = [secret EXCEPT !.sound = FALSE]
    /\ Change /\ Written("secret") /\ UNCHANGED <<cfg, objs, ca>>

\* Nothing watches the objects of the templates
RemoveObject ==
    /\ \E o \in objs \ NoDeletion : objs' = objs \ {o}
    /\ Change /\ UNCHANGED <<cfg, secret, ca, caches>>

AtRest == ~queued /\ pc = "idle" /\ undelivered = {}

\* A period passes and brings a resync.  A Reconcile and a refresh of the volume
\* take much less, unless there is an outage.
Tick ==
    /\ now < MaxNow
    /\ now' = now + 1
    /\ queued' = TRUE
    /\ \/ AtRest /\ mounted = Volume /\ UNCHANGED faults
       \/ ~(AtRest /\ mounted = Volume) /\ Fault
    /\ UNCHANGED <<cluster, caches, pc, locals, issued, changes>>

Next ==
    \/ Reconcile \/ CallFails \/ Restart
    \/ DeliverConfig \/ DeliverSecret \/ Resync \/ KubeletSync
    \/ SetConfig \/ RemoveSecret \/ DamageSecret \/ RemoveObject
    \/ Tick

Spec == Init /\ [][Next]_vars

\* The controller's worker, the informers with their resync, and the kubelet run
FairSpec ==
    /\ Spec
    /\ WF_vars(Reconcile) /\ WF_vars(DeliverConfig) /\ WF_vars(DeliverSecret)
    /\ WF_vars(Resync) /\ WF_vars(KubeletSync)

---------------------------------------------------------------------------
(* Properties                                                              *)

\* GetCertificate of the webhook server loads the pair from the volume at each
\* handshake, and the API server verifies it with the CA of the configuration
Trusted(o) ==
    /\ o \in objs
    /\ "server" \in objs
    /\ mounted.sound /\ now <= mounted.notAfter
    /\ ca[o] = mounted.id

\* The webhook server never serves a certificate that has expired, although
\* nothing in the code asks to be called when a certificate gets old: the
\* rotation of EnsureSecret comes early enough for the resync of the Secrets,
\* outages included, also when the webhooks were switched off for long.
NoExpiredCertificate == mounted.sound => now <= mounted.notAfter

\* EnsureSecret, working on a Secret read from a stale cache, never replaces a
\* certificate in the API that is still good: every replacement costs a time in
\* which the servers' pods and the configurations do not match.
GoodCertificateKept ==
    [][~NeedsNewCert(secret) /\ secret # NoSecret =>
          secret' = secret \/ secret' = NoSecret \/ ~secret'.sound]_vars

\* When no request and no event is left over, the configurations that exist
\* have the CA of the stored, usable certificate, or nothing is left of what is
\* switched off: neither a stale cache, an error between the Secret and the
\* configurations nor a stop of the operator leaves them apart.
RestIsConsistent ==
    AtRest =>
        /\ cfg.webhook => /\ secret.sound
                          /\ \A o \in Configurations \intersect objs : ca[o] = secret.id
        /\ ~cfg.webhook => objs \intersect WebhookObjs \subseteq NoDeletion
        /\ ~cfg.autoscaler => objs \intersect BufferObjs = {}

\* Whatever fails and is switched or damaged, in the end the configurations
\* and the server's pods agree on the certificate, or, with the webhooks
\* switched off, nothing that could refuse a request is left; so for the
\* autoscaling buffer.
DeploymentConverges ==
    <>[](/\ IF cfg.webhook THEN \A o \in Configurations : Trusted(o)
            ELSE objs \intersect WebhookObjs \subseteq NoDeletion
         /\ BufferObjs \subseteq objs \/ ~cfg.autoscaler
         /\ BufferObjs \intersect objs = {} \/ cfg.autoscaler)

---------------------------------------------------------------------------
(* The inductive invariant behind the safety properties.                   *)

\* A copy in a cache is the stored object unless an event is under way, and is
\* not of a later certificate.
CachesOK ==
    /\ "cfg" \notin undelivered => cfgSeen = cfg
    /\ "secret" \notin undelivered => secretSeen = secret
    /\ ~queued => conf = cfgSeen
    /\ secret.sound => secretSeen.notAfter <= secret.notAfter
    /\ secret.notAfter <= now + Expiration /\ secretSeen.notAfter <= now + Expiration

\* The branch that Reconcile has taken, and why
BranchOK ==
    /\ pc \in {"getSecret", "create", "update", "apply"} => conf.webhook
    /\ pc = "delete" => ~conf.webhook
    /\ pc = "update" => NeedsNewCert(got)
    /\ pc \in {"create", "update"} => i = 1

\* The CA that is being applied is that of a good Secret, or an event of the
\* Secret is still to come
BundleOK ==
    "secret" \notin undelivered => ~NeedsNewCert(secretSeen) /\ bundle = secretSeen.id

\* The objects of a template that come before position n
Before(tmpl, n) == {tmpl[j] : j \in 1 .. n - 1}

\* How far the objects are; what a Reconcile that has ended left holds as long
\* as no other one is asked for
ObjectsOK ==
    /\ pc = "autoscaler" /\ ~conf.autoscaler => Before(BufferTemplate, i) \intersect objs = {}
    /\ pc # "autoscaler" /\ (pc = "idle" => ~queued) /\ ~conf.autoscaler
          => BufferObjs \intersect objs = {}
    /\ pc = "delete" => Before(Template, i) \intersect objs \subseteq NoDeletion
    /\ pc = "idle" /\ ~queued /\ ~conf.webhook => WebhookObjs \intersect objs \subseteq NoDeletion
    /\ pc = "apply" /\ ~queued => BundleOK
    /\ pc = "apply" =>
          \A o \in Configurations \intersect objs \intersect Before(Template, i) : ca[o] = bundle
    /\ pc = "idle" /\ ~queued /\ conf.webhook =>
          BundleOK /\ \A o \in Configurations \intersect objs : ca[o] = bundle

\* Half the life of a certificate is left when it is deployed, and at most an
\* outage takes it away: so much of it is left while the server's pods have it.
LongEnough(s) == s.sound => now + Expiration \div 2 <= s.notAfter + faults

LifeOK ==
    /\ LongEnough(mounted)
    /\ "server" \in objs \/ pc = "apply" => LongEnough(secret)

\* Everything the safety properties rest on, preserved by every single step of
\* the controller, the informers, the kubelet and administrators.
IndInv == TypeOK /\ CachesOK /\ BranchOK /\ ObjectsOK /\ LifeOK /\ faults <= MaxFaults
===========================================================================
