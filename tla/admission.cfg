SPECIFICATION Spec
CONSTANTS
    Keys = {"k1", "k2"}
    Quantities = {1, 2}
    NoObject = NoObject
    VMs <- MCVMs
    VMUpdates <- Ruled
    MURs = {"jane", "john"}
    MaxWide = 2
    Configs <- MCConfigs
    Replicas = {"r"}
    Slots = {s1, s2}
    MaxRevision = 3
    MaxChanges = 1
CHECK_DEADLOCK FALSE
SYMMETRY SlotSymmetry
INVARIANT TypeOK
INVARIANT VMWithinRules
INVARIANT CreatedVMIsComplete
INVARIANT UntreatedOnlyIfMissed
PROPERTY MasterUserRecordKept
