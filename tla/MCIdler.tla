------------------------------- MODULE MCIdler -------------------------------
(* A virtual machine whose instance hangs, the pod that imports its disk,  *)
(* and an Ansible platform that does not scale down its StatefulSet.       *)
EXTENDS IdlerController

OwnerNames  == {"vm", "vmi", "dv", "pvc", "aap", "sts"}
ChainOf     == [p \in {"vmPod", "importer", "aapPod"} |->
                    CASE p = "vmPod" -> <<"vm", "vmi">>
                      [] p = "importer" -> <<"vm", "dv", "pvc">>
                      [] OTHER -> <<"aap", "sts">>]
KindOf      == [o \in OwnerNames |->
                    CASE o = "vm" -> "VirtualMachine"
                      [] o = "vmi" -> "VirtualMachineInstance"
                      [] o = "dv" -> "DataVolume"
                      [] o = "aap" -> "AnsibleAutomationPlatform"
                      [] o = "sts" -> "StatefulSet"
                      [] OTHER -> "PersistentVolumeClaim"]
ShortTimeout == {40}
VMTimeouts == {-1, 0, 240}
==============================================================================
