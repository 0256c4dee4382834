---------------------- MODULE WebhookDeployment_proofs ----------------------
(***************************************************************************)
(* What WebhookDeployment promises for every life of a certificate and     *)
(* every number of changes, failures and outages: no good certificate is   *)
(* replaced, the configurations are left with the CA of the stored         *)
(* certificate, and none expires while it is served.                       *)
(***************************************************************************)
EXTENDS WebhookDeployment, TLAPS

---------------------------------------------------------------------------
(* Templates                                                               *)

LEMMA BeforeNext ==
    ASSUME NEW tmpl, NEW n \in Nat \ {0}
    PROVE  /\ Before(tmpl, 1) = {}
           /\ Before(tmpl, n + 1) = Before(tmpl, n) \union {tmpl[n]}
<1>1. 1 .. n + 1 - 1 = (1 .. n - 1) \union {n} /\ 1 .. 1 - 1 = {}
    OBVIOUS
<1> QED BY <1>1 DEF Before

LEMMA TemplateObjects ==
    /\ Len(Template) = 4
    /\ Template[1] = "priorityClass" /\ Template[2] = "server"
    /\ Template[3] = "mutating" /\ Template[4] = "validating"
    /\ Len(BufferTemplate) = 2
    /\ BufferTemplate[1] = "bufferPriorityClass" /\ BufferTemplate[2] = "bufferDeployment"
    BY DEF Template, BufferTemplate

\* Every object of a template comes before its end.
LEMMA BeforeEnd ==
    /\ Before(Template, 4) \union {Template[4]} = WebhookObjs
    /\ Before(BufferTemplate, 2) \union {BufferTemplate[2]} = BufferObjs
<1>1. 1 .. 4 - 1 = {1, 2, 3} /\ 1 .. 2 - 1 = {1}
    OBVIOUS
<1>2. Before(Template, 4) = {Template[1], Template[2], Template[3]}
    BY <1>1 DEF Before
<1>3. Before(BufferTemplate, 2) = {BufferTemplate[1]}
    BY <1>1 DEF Before
<1> QED BY <1>2, <1>3, TemplateObjects DEF WebhookObjs, BufferObjs, Configurations

\* The objects of the two templates are different ones.
LEMMA Disjoint ==
    /\ BufferObjs \intersect WebhookObjs = {}
    /\ \A n \in 1 .. 4 : Template[n] \in WebhookObjs
    /\ \A n \in 1 .. 2 : BufferTemplate[n] \in BufferObjs
<1>1. 1 .. 4 = {1, 2, 3, 4} /\ 1 .. 2 = {1, 2}
    OBVIOUS
<1> QED BY <1>1, TemplateObjects DEF WebhookObjs, BufferObjs, Configurations

---------------------------------------------------------------------------
(* Certificates                                                            *)

\* Half of a natural number is one, and not more than the number.
LEMMA HalfLife ==
    /\ Expiration \in Nat \ {0}
    /\ Expiration \div 2 \in Nat /\ 2 * (Expiration \div 2) <= Expiration
    BY WebhookDeploymentAssumption DEF WebhookDeploymentAssumption

---------------------------------------------------------------------------
(* The inductive invariant                                                 *)

LEMMA InitInv == Init => IndInv
<1> SUFFICES ASSUME Init PROVE IndInv
    OBVIOUS
<1>1. TypeOK
    BY TemplateObjects DEF Init, TypeOK, Secrets, NoSecret, WebhookObjs
<1>2. CachesOK /\ BranchOK /\ ObjectsOK /\ LifeOK /\ faults <= MaxFaults
    BY HalfLife, WebhookDeploymentAssumption
    DEF Init, CachesOK, BranchOK, ObjectsOK, LifeOK, LongEnough, NoSecret, WebhookDeploymentAssumption
<1> QED BY <1>1, <1>2 DEF IndInv

\* ForceLoadConfiguration reads the configuration and starts with the buffer.
LEMMA StartInv == IndInv /\ Start => IndInv'
<1> SUFFICES ASSUME IndInv, Start PROVE IndInv'
    OBVIOUS
<1> USE DEF IndInv, Start, cluster, caches, counters
<1>0. pc' = "autoscaler" /\ i' = 1 /\ 1 \in 1 .. Len(BufferTemplate)
    BY TemplateObjects
<1>1. TypeOK'
    BY <1>0 DEF TypeOK
<1>2. CachesOK' /\ BranchOK' /\ LifeOK' /\ (faults <= MaxFaults)'
    BY DEF CachesOK, BranchOK, LifeOK, LongEnough
<1>3. ObjectsOK'
    BY BeforeNext DEF ObjectsOK
<1> QED BY <1>1, <1>2, <1>3

\* Deploy and Delete of pkg/autoscaler.
LEMMA BufferInv == IndInv /\ handleAutoscalerDeploy => IndInv'
<1> SUFFICES ASSUME IndInv, handleAutoscalerDeploy PROVE IndInv'
    OBVIOUS
<1> USE DEF IndInv, handleAutoscalerDeploy, caches, counters
<1>0. i \in 1 .. 2 /\ pc = "autoscaler"
    BY TemplateObjects DEF TypeOK
<1>1. \/ i < 2 /\ i' = i + 1 /\ i' \in 1 .. 2 /\ pc' = pc
         /\ Before(BufferTemplate, i') = Before(BufferTemplate, i) \union {BufferTemplate[i]}
      \/ i = 2 /\ i' = 1 /\ pc' = handleWebhookDeploy
    BY <1>0, TemplateObjects, BeforeNext DEF Advance
<1>2. handleWebhookDeploy = IF conf.webhook THEN "getSecret" ELSE "delete"
    BY DEF handleWebhookDeploy
<1>3. objs' = IF conf.autoscaler THEN objs \union {BufferTemplate[i]} ELSE objs \ {BufferTemplate[i]}
    BY DEF DeployBuffer, DeleteBuffer
<1>4. BufferTemplate[i] \in BufferObjs /\ BufferTemplate[i] \notin WebhookObjs
    BY <1>0, Disjoint
<1>5. TypeOK'
    BY <1>0, <1>1, <1>2, <1>3, <1>4, TemplateObjects DEF TypeOK
<1>6. CachesOK' /\ BranchOK' /\ (faults <= MaxFaults)'
    BY <1>0, <1>1, <1>2 DEF CachesOK, BranchOK
<1>7. LifeOK'
    BY <1>0, <1>1, <1>2, <1>3, <1>4 DEF LifeOK, LongEnough, WebhookObjs
<1>8. ObjectsOK'
  <2>1. CASE i < 2
    BY <2>1, <1>0, <1>1, <1>3 DEF ObjectsOK
  <2>2. CASE i = 2
    BY <2>2, <1>0, <1>1, <1>2, <1>3, BeforeEnd, BeforeNext DEF ObjectsOK
  <2> QED BY <2>1, <2>2, <1>0
<1> QED BY <1>5, <1>6, <1>7, <1>8

\* EnsureSecret reads the Secret from the cache.
LEMMA GetSecretInv == IndInv /\ GetSecret => IndInv'
<1> SUFFICES ASSUME IndInv, GetSecret PROVE IndInv'
    OBVIOUS
<1> USE DEF IndInv, GetSecret, cluster, caches, counters
<1>0. /\ pc = "getSecret" /\ pc' \in {"create", "update", "apply"} /\ i' = 1
      /\ 1 \in 1 .. Len(Template)
    BY TemplateObjects
<1>1. TypeOK'
    BY <1>0 DEF TypeOK, Secrets
<1>2. CachesOK' /\ BranchOK' /\ (faults <= MaxFaults)'
    BY <1>0 DEF CachesOK, BranchOK, NeedsNewCert
<1>3. LifeOK'
    BY <1>0, HalfLife DEF LifeOK, LongEnough, CachesOK, NeedsNewCert, TypeOK, Secrets
<1>4. ObjectsOK'
  <2>1. Before(Template, i') = {} /\ objs' = objs /\ conf' = conf
    BY <1>0, BeforeNext
  <2>2. pc' = "apply" => BundleOK'
    BY <1>0 DEF BundleOK, NeedsNewCert
  <2> QED BY <1>0, <2>1, <2>2 DEF ObjectsOK
<1> QED BY <1>1, <1>2, <1>3, <1>4

\* A new certificate is stored, and has more than half its life left.
LEMMA StoreInv == IndInv /\ pc \in {"create", "update"} /\ StoreSecret => IndInv'
<1> SUFFICES ASSUME IndInv, pc \in {"create", "update"}, StoreSecret PROVE IndInv'
    OBVIOUS
<1> USE DEF IndInv, StoreSecret, Written
<1>0. /\ pc' = "apply" /\ "secret" \in undelivered'
      /\ secret' = [id |-> issued + 1, notAfter |-> now + Expiration, sound |-> TRUE]
      /\ bundle' = issued + 1
    BY DEF newSecret, CreateCerts
<1>1. TypeOK'
    BY <1>0, HalfLife DEF TypeOK, Secrets
<1>2. CachesOK' /\ BranchOK' /\ (faults <= MaxFaults)'
    BY <1>0, HalfLife DEF CachesOK, BranchOK, TypeOK, Secrets
<1>3. LifeOK'
    BY <1>0, HalfLife DEF LifeOK, LongEnough, TypeOK, Secrets
<1>4. ObjectsOK'
  <2>1. Before(Template, i') = {} /\ objs' = objs /\ conf' = conf
    BY BeforeNext DEF BranchOK
  <2> QED BY <1>0, <2>1 DEF ObjectsOK, BundleOK
<1> QED BY <1>1, <1>2, <1>3, <1>4

\* Giving up leaves a request behind, and everything else as it is.
LEMMA RetryInv ==
    IndInv /\ Retry /\ faults' \in {faults, faults + 1} /\ faults' <= MaxFaults => IndInv'
<1> SUFFICES ASSUME IndInv, Retry, faults' \in {faults, faults + 1}, faults' <= MaxFaults
             PROVE  IndInv'
    OBVIOUS
<1> USE DEF IndInv, Retry, cluster, caches, locals
<1>0. pc' = "idle" /\ queued' /\ i \in 1 .. Len(Template)
    BY TemplateObjects DEF TypeOK
<1>1. TypeOK'
    BY <1>0 DEF TypeOK
<1>2. CachesOK' /\ BranchOK'
    BY <1>0 DEF CachesOK, BranchOK
<1>3. LifeOK'
    BY <1>0, HalfLife DEF LifeOK, LongEnough, TypeOK, Secrets
<1>4. ObjectsOK'
    BY <1>0 DEF ObjectsOK
<1> QED BY <1>1, <1>2, <1>3, <1>4

\* deploy.Webhook applies an object, a configuration with the CA.
LEMMA ApplyInv == IndInv /\ ApplyObject => IndInv'
<1> SUFFICES ASSUME IndInv, ApplyObject PROVE IndInv'
    OBVIOUS
<1> USE DEF IndInv, ApplyObject, caches, counters
<1>0. i \in 1 .. 4 /\ pc = "apply"
    BY TemplateObjects DEF TypeOK
<1>1. \/ i < 4 /\ i' = i + 1 /\ i' \in 1 .. 4 /\ pc' = pc
         /\ Before(Template, i') = Before(Template, i) \union {Template[i]}
      \/ i = 4 /\ i' = 1 /\ pc' = "idle"
    BY <1>0, TemplateObjects, BeforeNext DEF Advance
<1>2. Template[i] \in WebhookObjs /\ Template[i] \notin BufferObjs
    BY <1>0, Disjoint
<1>3. /\ ca' \in [Configurations -> Nat]
      /\ \A o \in Configurations : ca'[o] = IF o = Template[i] THEN bundle ELSE ca[o]
    BY DEF TypeOK
<1>4. TypeOK'
    BY <1>0, <1>1, <1>2, <1>3, TemplateObjects DEF TypeOK
<1>5. CachesOK' /\ BranchOK' /\ (faults <= MaxFaults)'
    BY <1>0, <1>1 DEF CachesOK, BranchOK
<1>6. LifeOK'
    BY <1>0, <1>1 DEF LifeOK, LongEnough
<1>7. ObjectsOK'
  <2>1. BundleOK' <=> BundleOK
    BY DEF BundleOK, NeedsNewCert
  <2>2. conf.webhook /\ (~conf.autoscaler => BufferObjs \intersect objs' = {})
    BY <1>0, <1>2 DEF ObjectsOK, BranchOK
  <2>3. \A o \in Configurations \intersect objs' :
            o \in Before(Template, i) \union {Template[i]} => ca'[o] = bundle
    BY <1>0, <1>3 DEF ObjectsOK
  <2>4. CASE i < 4
    BY <2>4, <1>0, <1>1, <2>1, <2>2, <2>3 DEF ObjectsOK
  <2>5. CASE i = 4
    <3>1. Configurations \subseteq Before(Template, i) \union {Template[i]}
      BY <2>5, BeforeEnd DEF WebhookObjs
    <3> QED BY <3>1, <2>5, <1>0, <1>1, <2>1, <2>2, <2>3 DEF ObjectsOK
  <2> QED BY <2>4, <2>5, <1>0
<1> QED BY <1>4, <1>5, <1>6, <1>7

\* deploy.Delete deletes an object, unless it must not be deleted.
LEMMA DeleteInv == IndInv /\ DeleteObject => IndInv'
<1> SUFFICES ASSUME IndInv, DeleteObject PROVE IndInv'
    OBVIOUS
<1> USE DEF IndInv, DeleteObject, caches, counters
<1>0. i \in 1 .. 4 /\ pc = "delete"
    BY TemplateObjects DEF TypeOK
<1>1. \/ i < 4 /\ i' = i + 1 /\ i' \in 1 .. 4 /\ pc' = pc
         /\ Before(Template, i') = Before(Template, i) \union {Template[i]}
      \/ i = 4 /\ i' = 1 /\ pc' = "idle"
    BY <1>0, TemplateObjects, BeforeNext DEF Advance
<1>2. TypeOK'
    BY <1>0, <1>1, TemplateObjects DEF TypeOK
<1>3. CachesOK' /\ BranchOK' /\ (faults <= MaxFaults)'
    BY <1>0, <1>1 DEF CachesOK, BranchOK
<1>4. LifeOK'
    BY <1>0, <1>1 DEF LifeOK, LongEnough
<1>5. ObjectsOK'
  <2>1. ~conf.webhook /\ (~conf.autoscaler => BufferObjs \intersect objs' = {})
    BY <1>0 DEF ObjectsOK, BranchOK
  <2>2. (Before(Template, i) \union {Template[i]}) \intersect objs' \subseteq NoDeletion
    BY <1>0 DEF ObjectsOK
  <2>3. CASE i < 4
    BY <2>3, <1>0, <1>1, <2>1, <2>2 DEF ObjectsOK
  <2>4. CASE i = 4
    BY <2>4, <1>0, <1>1, <2>1, <2>2, BeforeEnd DEF ObjectsOK
  <2> QED BY <2>3, <2>4, <1>0
<1> QED BY <1>2, <1>3, <1>4, <1>5

\* The operator stops and starts again with fresh caches.
LEMMA RestartInv == IndInv /\ Restart => IndInv'
<1> SUFFICES ASSUME IndInv, Restart PROVE IndInv'
    OBVIOUS
<1> USE DEF IndInv, Restart, Fault, cluster, locals
<1>0. pc' = "idle" /\ queued' /\ i \in 1 .. Len(Template)
    BY TemplateObjects DEF TypeOK
<1>1. TypeOK'
    BY <1>0 DEF TypeOK
<1>2. CachesOK' /\ BranchOK' /\ (faults <= MaxFaults)'
    BY <1>0, WebhookDeploymentAssumption
    DEF CachesOK, BranchOK, TypeOK, Secrets, WebhookDeploymentAssumption
<1>3. LifeOK'
    BY <1>0, HalfLife DEF LifeOK, LongEnough, TypeOK, Secrets
<1>4. ObjectsOK'
    BY <1>0 DEF ObjectsOK
<1> QED BY <1>1, <1>2, <1>3, <1>4

\* An event or a resync brings a request.
LEMMA DeliverInv == IndInv /\ (DeliverConfig \/ DeliverSecret \/ Resync) => IndInv'
<1> SUFFICES ASSUME IndInv, DeliverConfig \/ DeliverSecret \/ Resync PROVE IndInv'
    OBVIOUS
<1> USE DEF IndInv, DeliverConfig, DeliverSecret, Resync, cluster, locals, counters, caches
<1>0. queued' /\ UNCHANGED <<pc, i, objs, ca, bundle, conf, now, secret, mounted, faults>>
    OBVIOUS
<1>1. TypeOK'
    BY DEF TypeOK
<1>2. CachesOK'
    BY DEF CachesOK, TypeOK, Secrets
<1>3. BranchOK' /\ (faults <= MaxFaults)' /\ LifeOK'
    BY DEF BranchOK, NeedsNewCert, LifeOK, LongEnough
<1>4. ObjectsOK'
    BY <1>0 DEF ObjectsOK
<1> QED BY <1>1, <1>2, <1>3, <1>4

\* The kubelet brings the Secret into the volume.
LEMMA KubeletInv == IndInv /\ KubeletSync => IndInv'
<1> SUFFICES ASSUME IndInv, KubeletSync PROVE IndInv'
    OBVIOUS
<1> USE DEF IndInv, KubeletSync, locals, counters, caches
<1>0. mounted' \in {NoSecret, mounted, secret}
      /\ (mounted' = secret => "server" \in objs \/ secret = NoSecret)
    BY DEF Volume
<1>1. NoSecret \in Secrets /\ ~NoSecret.sound
    BY DEF NoSecret, Secrets
<1>2. TypeOK'
    BY <1>0, <1>1 DEF TypeOK
<1>3. CachesOK' /\ BranchOK' /\ (faults <= MaxFaults)'
    BY DEF CachesOK, BranchOK, NeedsNewCert
<1>4. LifeOK'
    BY <1>0, <1>1 DEF LifeOK, LongEnough
<1>5. ObjectsOK'
    BY DEF ObjectsOK, BundleOK, NeedsNewCert
<1> QED BY <1>2, <1>3, <1>4, <1>5

\* Another configuration; the event is under way.
LEMMA SetConfigInv == IndInv /\ SetConfig => IndInv'
<1> SUFFICES ASSUME IndInv, SetConfig PROVE IndInv'
    OBVIOUS
<1> USE DEF IndInv, SetConfig, Change, Written, locals
<1>1. TypeOK'
    BY DEF TypeOK
<1>2. CachesOK' /\ BranchOK' /\ (faults <= MaxFaults)' /\ LifeOK'
    BY DEF CachesOK, BranchOK, NeedsNewCert, LifeOK, LongEnough
<1>3. ObjectsOK'
    BY DEF ObjectsOK, BundleOK, NeedsNewCert
<1> QED BY <1>1, <1>2, <1>3

\* The Secret is deleted or damaged; what is left of it has no life to lose.
LEMMA SpoilSecretInv == IndInv /\ (RemoveSecret \/ DamageSecret) => IndInv'
<1> SUFFICES ASSUME IndInv, RemoveSecret \/ DamageSecret PROVE IndInv'
    OBVIOUS
<1> USE DEF IndInv, RemoveSecret, DamageSecret, Change, Written, locals
<1>0. /\ secret' \in Secrets /\ ~secret'.sound
      /\ secret'.notAfter \in {0, secret.notAfter} /\ "secret" \in undelivered'
  <2>1. CASE RemoveSecret
    BY <2>1 DEF Secrets, NoSecret
  <2>2. CASE DamageSecret
    <3>1. secret \in Secrets
      BY DEF TypeOK
    <3>2. secret' = [secret EXCEPT !.sound = FALSE]
      BY <2>2
    <3>3. secret' \in Secrets /\ ~secret'.sound /\ secret'.notAfter = secret.notAfter
      BY <3>1, <3>2 DEF Secrets
    <3> QED BY <2>2, <3>3
  <2> QED BY <2>1, <2>2
<1>1. TypeOK'
    BY <1>0 DEF TypeOK
<1>2. CachesOK'
  <2>1. now \in Nat /\ secret.notAfter <= now + Expiration
    BY DEF CachesOK, TypeOK
  <2>2. secret'.notAfter <= now + Expiration
    BY <1>0, <2>1, HalfLife
  <2> QED BY <1>0, <2>2 DEF CachesOK
<1>3. BranchOK' /\ (faults <= MaxFaults)' /\ LifeOK'
    BY <1>0 DEF BranchOK, NeedsNewCert, LifeOK, LongEnough
<1>4. ObjectsOK'
    BY <1>0 DEF ObjectsOK, BundleOK, NeedsNewCert
<1> QED BY <1>1, <1>2, <1>3, <1>4

\* An object is deleted by hand, and nothing sees it.
LEMMA RemoveObjectInv == IndInv /\ RemoveObject => IndInv'
<1> SUFFICES ASSUME IndInv, RemoveObject PROVE IndInv'
    OBVIOUS
<1> USE DEF IndInv, RemoveObject, Change, locals, caches
<1>0. objs' \subseteq objs
    OBVIOUS
<1>1. TypeOK'
    BY DEF TypeOK
<1>2. CachesOK' /\ BranchOK' /\ (faults <= MaxFaults)' /\ LifeOK'
    BY <1>0 DEF CachesOK, BranchOK, NeedsNewCert, LifeOK, LongEnough
<1>3. ObjectsOK'
    BY <1>0 DEF ObjectsOK, BundleOK, NeedsNewCert
<1> QED BY <1>1, <1>2, <1>3

\* At rest, a server that exists has a certificate with more than half its
\* life left, and its pods have that one in their volume.
LEMMA RestIsFresh ==
    ASSUME IndInv, AtRest, mounted = Volume
    PROVE  /\ "server" \in objs => secret.sound /\ now + Expiration \div 2 < secret.notAfter
           /\ mounted.sound => "server" \in objs /\ mounted = secret
<1>1. "server" \in objs => conf.webhook
    BY DEF IndInv, ObjectsOK, AtRest, WebhookObjs, NoDeletion
<1>2. "server" \in objs => ~NeedsNewCert(secret)
    BY <1>1 DEF IndInv, ObjectsOK, BundleOK, AtRest, CachesOK
<1>3. "server" \in objs => secret.sound /\ now + Expiration \div 2 < secret.notAfter
    BY <1>2, HalfLife DEF NeedsNewCert, IndInv, TypeOK, Secrets
<1>4. ~NoSecret.sound
    BY DEF NoSecret
<1> QED BY <1>3, <1>4 DEF Volume

\* A period passes: at rest it takes from the half that is left of the
\* certificate's life before the rotation, and otherwise there is an outage.
LEMMA TickInv == IndInv /\ Tick => IndInv'
<1> SUFFICES ASSUME IndInv, Tick PROVE IndInv'
    OBVIOUS
<1> USE DEF IndInv, Tick, cluster, caches, locals
<1>0. /\ now' = now + 1 /\ now \in Nat /\ queued' /\ faults' \in {faults, faults + 1}
      /\ faults' \in Nat /\ faults' <= MaxFaults
    BY WebhookDeploymentAssumption DEF TypeOK, Fault, WebhookDeploymentAssumption
<1>1. TypeOK'
    BY <1>0 DEF TypeOK
<1>2. CachesOK'
    BY <1>0, HalfLife DEF CachesOK, TypeOK, Secrets
<1>3. BranchOK'
    BY <1>0, HalfLife DEF BranchOK, NeedsNewCert, TypeOK, Secrets
<1>4. LifeOK'
  <2>1. CASE AtRest /\ mounted = Volume /\ UNCHANGED faults
    BY <2>1, <1>0, RestIsFresh, HalfLife DEF LifeOK, LongEnough, AtRest, TypeOK, Secrets
  <2>2. CASE Fault
    BY <2>2, <1>0, HalfLife DEF Fault, LifeOK, LongEnough, TypeOK, Secrets
  <2> QED BY <2>1, <2>2
<1>5. ObjectsOK'
    BY <1>0 DEF ObjectsOK
<1> QED BY <1>0, <1>1, <1>2, <1>3, <1>4, <1>5

LEMMA NextInv == IndInv /\ [Next]_vars => IndInv'
<1> SUFFICES ASSUME IndInv, [Next]_vars PROVE IndInv'
    OBVIOUS
<1>1. CASE CreateSecret
    BY <1>1, StoreInv, RetryInv DEF CreateSecret, IndInv
<1>2. CASE UpdateSecret
    BY <1>2, StoreInv, RetryInv DEF UpdateSecret, IndInv
<1>3. CASE CallFails
  <2>1. Retry /\ faults' = faults + 1 /\ faults' <= MaxFaults
    BY <1>3, WebhookDeploymentAssumption
    DEF CallFails, Fault, IndInv, TypeOK, WebhookDeploymentAssumption
  <2> QED BY <2>1, RetryInv
<1>4. CASE UNCHANGED vars
    BY <1>4 DEF vars, cluster, caches, locals, counters, IndInv, TypeOK, CachesOK, BranchOK,
       ObjectsOK, BundleOK, NeedsNewCert, LifeOK, LongEnough
<1> QED
    BY <1>1, <1>2, <1>3, <1>4, StartInv, BufferInv, GetSecretInv, ApplyInv, DeleteInv, RestartInv,
       DeliverInv, KubeletInv, SetConfigInv, SpoilSecretInv, RemoveObjectInv, TickInv
    DEF Next, Reconcile

---------------------------------------------------------------------------
(* The theorems                                                            *)

\* The invariant holds for every life of a certificate and every bound.
THEOREM Invariance == Spec => []IndInv
    BY InitInv, NextInv, PTL DEF Spec

\* When no request and no event is left over, the configurations have the CA
\* of the usable certificate in the Secret that EnsureSecret keeps, or nothing
\* is left of what is switched off.
THEOREM RestConsistency == Spec => []RestIsConsistent
<1>1. IndInv => RestIsConsistent
  <2> SUFFICES ASSUME IndInv, AtRest PROVE RestIsConsistent
    BY DEF RestIsConsistent
  <2>1. conf = cfg /\ secretSeen = secret
    BY DEF IndInv, CachesOK, AtRest
  <2>2. cfg.webhook => ~NeedsNewCert(secret) /\ bundle = secret.id
                       /\ \A o \in Configurations \intersect objs : ca[o] = bundle
    BY <2>1 DEF IndInv, ObjectsOK, BundleOK, AtRest
  <2>3. /\ ~cfg.webhook => objs \intersect WebhookObjs \subseteq NoDeletion
        /\ ~cfg.autoscaler => objs \intersect BufferObjs = {}
    BY <2>1 DEF IndInv, ObjectsOK, AtRest
  <2> QED BY <2>2, <2>3 DEF RestIsConsistent, NeedsNewCert
<1> QED BY <1>1, Invariance, PTL

\* EnsureSecret never replaces a good certificate: what it writes with the
\* resourceVersion it has read replaces what it has read, and a certificate
\* that needed to be replaced then still does.
THEOREM GoodCertificates == Spec => GoodCertificateKept
<1>1. IndInv /\ [Next]_vars =>
        [~NeedsNewCert(secret) /\ secret # NoSecret =>
            secret' = secret \/ secret' = NoSecret \/ ~secret'.sound]_vars
  <2> SUFFICES ASSUME IndInv, [Next]_vars, ~NeedsNewCert(secret), secret # NoSecret
               PROVE  secret' = secret \/ secret' = NoSecret \/ ~secret'.sound
    OBVIOUS
  <2>1. CASE CreateSecret
    BY <2>1 DEF CreateSecret, Retry, cluster
  <2>2. CASE UpdateSecret
    BY <2>2 DEF UpdateSecret, Retry, cluster, IndInv, BranchOK
  <2>3. CASE DamageSecret
    BY <2>3 DEF DamageSecret, IndInv, TypeOK, Secrets
  <2>4. CASE RemoveSecret
    BY <2>4 DEF RemoveSecret
  <2> QED
    BY <2>1, <2>2, <2>3, <2>4
    DEF Next, Reconcile, Start, handleAutoscalerDeploy, GetSecret, ApplyObject, DeleteObject,
        CallFails, Retry, Restart, DeliverConfig, DeliverSecret, Resync, KubeletSync, SetConfig,
        RemoveObject, Tick, cluster, vars
<1> QED BY <1>1, Invariance, PTL DEF Spec, GoodCertificateKept

\* With fewer failures and outages than periods in half the life of a
\* certificate, the webhook server never serves one that has expired.
THEOREM CertificatesInTime ==
    ASSUME MaxFaults <= Expiration \div 2
    PROVE  Spec => []NoExpiredCertificate
<1>1. IndInv => NoExpiredCertificate
    BY HalfLife, WebhookDeploymentAssumption
    DEF IndInv, LifeOK, LongEnough, NoExpiredCertificate, TypeOK, Secrets, WebhookDeploymentAssumption
<1> QED BY <1>1, Invariance, PTL

===========================================================================
