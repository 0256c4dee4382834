SPECIFICATION Spec
CONSTANTS
    Pods = {"importer", "aapPod"}
    Owners = {"vm", "dv", "pvc", "aap", "sts"}
    Chain <- ChainOf
    Kind <- KindOf
    Stubborn = {"vm", "dv", "aap", "sts"}
    Timeouts <- ShortTimeout
    EmailCounts = {1}
    Starts = {0, 1}
    MaxNow = 50
    MaxChanges = 1
    MaxFaults = 0
CHECK_DEADLOCK FALSE
INVARIANT IdledInTime
INVARIANT SecondOwnerIdled
