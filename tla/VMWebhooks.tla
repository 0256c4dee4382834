----------------------------- MODULE VMWebhooks -----------------------------
(***************************************************************************)
(* What the two webhooks for VirtualMachines compute: the patch of         *)
(* pkg/webhook/mutatingwebhook/vm_mutate.go and the verdict of             *)
(* pkg/webhook/validatingwebhook/validate_vm_request.go.                   *)
(*                                                                         *)
(* Of a VirtualMachine only what they read is kept.  `strings' tells       *)
(* whether all of resources and memory are maps of strings, which          *)
(* unstructured.NestedStringMap asks for; a map that is not there is empty.*)
(* A text of userData is told apart by its header, by whether it is YAML,  *)
(* has a user and what its ssh_authorized_keys are.                        *)
(***************************************************************************)
EXTENDS Integers

CONSTANTS
    Keys,        \* SSH keys
    Quantities   \* amounts of memory or CPU

maxTerminationGracePeriodSeconds == 180
manualRunStrategy == "Manual"
sandboxToleration == "sandbox-cnv"

\* The types of a volume with cloud-init data
supportedCloudInitConfigTypes == {"cloudInitNoCloud", "cloudInitConfigDrive"}

Resources == {"memory", "cpu"}
PartialMaps(S) == UNION {[T -> Quantities] : T \in SUBSET S}

UserData ==
    [kind : {"absent", "text", "notString"}, header : BOOLEAN, yaml : BOOLEAN,
     user : BOOLEAN, keys : {"none", "list", "nested", "other"}, list : SUBSET Keys]

VirtualMachine ==
    [runStrategy : {"none", "Manual", "Always", "notString"},
     grace : [kind : {"absent", "int", "other"}, secs : Int],
     tolerations : SUBSET {sandboxToleration, "own", "notAList"},
     volumes : {"none", "others", "cloudinitdisk"},
     cloudInit : UNION {[T -> UserData] : T \in SUBSET supportedCloudInitConfigTypes},
     strings : BOOLEAN,
     requests : PartialMaps(Resources), limits : PartialMaps(Resources),
     memory : PartialMaps({"guest", "maxGuest"})]

---------------------------------------------------------------------------
(* The mutating webhook                                                    *)

\* Mutant: the strategy is only set where there is none
ManualIfAbsent(vm) ==
    IF vm.runStrategy = "none" THEN [vm EXCEPT !.runStrategy = manualRunStrategy] ELSE vm

\* A strategy that is no string is left as it is
ensureManualRunStrategy(vm) ==
    IF vm.runStrategy = "notString" THEN vm
    ELSE [vm EXCEPT !.runStrategy = manualRunStrategy]

\* A limit that is not there becomes the request; without a request the limit
\* of memory becomes that of the guest.  Best effort: whatever cannot be read
\* leaves all limits alone.
ensureLimits(vm) ==
    LET asRequested ==
            [r \in DOMAIN vm.limits \union DOMAIN vm.requests |->
                IF r \in DOMAIN vm.limits THEN vm.limits[r] ELSE vm.requests[r]]
        Guest(m) == [r \in DOMAIN asRequested \union {"memory"} |->
                        IF r = "memory" THEN vm.memory[m] ELSE asRequested[r]]
    IN  IF ~vm.strings THEN vm
        ELSE [vm EXCEPT !.limits =
            IF "memory" \in DOMAIN asRequested THEN asRequested
            ELSE IF "maxGuest" \in DOMAIN vm.memory THEN Guest("maxGuest")
            ELSE IF "guest" \in DOMAIN vm.memory THEN Guest("guest")
            ELSE asRequested]

ensureTolerations(vm) ==
    IF vm.tolerations = {"notAList"} THEN vm
    ELSE [vm EXCEPT !.tolerations = @ \union {sandboxToleration}]

\* The first supported type that the volume has, or none
FirstType(vm) ==
    CASE "cloudInitNoCloud" \in DOMAIN vm.cloudInit -> "cloudInitNoCloud"
      [] DOMAIN vm.cloudInit = {"cloudInitConfigDrive"} -> "cloudInitConfigDrive"
      [] OTHER -> "none"

\* addSSHKeysToUserData: the text is parsed, gets the keys and a header
addSSHKeysToUserData(data, sshKeys) ==
    [data EXCEPT !.header = TRUE, !.keys = "list",
                 !.list = sshKeys \union (IF data.keys = "list" THEN @ ELSE {})]

\* The list is formatted into the text as one entry of a list of its own
defaultUserData(sshKeys) ==
    [kind |-> "text", header |-> TRUE, yaml |-> TRUE, user |-> FALSE,
     keys |-> "nested", list |-> sshKeys]

ensureVolumeConfig(vm, sshKeys) ==
    LET type == FirstType(vm)
    IN  IF type = "none" THEN vm
        ELSE [vm EXCEPT !.cloudInit[type] =
            IF @.kind = "text" THEN addSSHKeysToUserData(@, sshKeys) ELSE defaultUserData(sshKeys)]

\* Does ensureVolumeConfig return an error or panic, which ends the call?  No
\* volumes, no keys, no cloud-init volume, a text that is not YAML; userData that
\* is no string and keys that are no list.
VolumeConfigFails(vm, sshKeys) ==
    \/ vm.volumes # "cloudinitdisk" \/ sshKeys = {}
    \/ /\ FirstType(vm) # "none"
       /\ LET data == vm.cloudInit[FirstType(vm)]
          IN  \/ data.kind = "notString"
              \/ data.kind = "text" /\ (~data.yaml \/ data.keys = "other")

\* vmMutator: the object with its patches, unless VolumeConfigFails
vmMutator(vm, sshKeys) ==
    ensureVolumeConfig(ensureTolerations(ensureLimits(ensureManualRunStrategy(vm))), sshKeys)

---------------------------------------------------------------------------
(* Schema                                                                  *)

\* The API server and KubeVirt itself: types of fields, one source per volume
SchemaOK(vm) ==
    /\ vm.runStrategy # "notString"
    /\ vm.tolerations # {"notAList"}
    /\ vm.grace.kind # "other"
    /\ "cloudInitNoCloud" \in DOMAIN vm.cloudInit => "cloudInitConfigDrive" \notin DOMAIN vm.cloudInit
    /\ \A t \in DOMAIN vm.cloudInit : vm.cloudInit[t].kind # "notString"

---------------------------------------------------------------------------
(* The validating webhook                                                  *)

\* Mutant: the header is enough
HeaderOnly(data) == data.kind = "text" /\ data.header

hasUsername(data) == data.kind = "text" /\ data.header /\ data.yaml /\ data.user

validateCloudInitUsername(vm) ==
    /\ vm.volumes = "cloudinitdisk"
    /\ \E t \in DOMAIN vm.cloudInit : hasUsername(vm.cloudInit[t])

validateTerminationGracePeriodSeconds(vm) ==
    \/ vm.grace.kind = "absent"
    \/ vm.grace.kind = "int" /\ vm.grace.secs <= maxTerminationGracePeriodSeconds

\* Is the request allowed?
validateVM(vm, op) ==
    /\ op = "UPDATE" => vm.runStrategy \in {"none", manualRunStrategy}
    /\ op = "CREATE" => validateCloudInitUsername(vm)
    /\ validateTerminationGracePeriodSeconds(vm)
===========================================================================
