SPECIFICATION Spec
CONSTANTS
    Pods = {"vmPod"}
    Owners = {"vm", "vmi"}
    Chain <- ChainOf
    Kind <- KindOf
    Stubborn = {"vm", "vmi"}
    Timeouts <- VMTimeouts
    EmailCounts = {0, 1, 2}
    Starts = {0, 2}
    MaxNow = 30
    MaxChanges = 1
    MaxFaults = 1
CHECK_DEADLOCK FALSE
 
INVARIANT PodDeletedAtLast
 
