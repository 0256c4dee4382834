SPECIFICATION FairSpec
CONSTANTS
    Node <- Nodes
    Labels <- MCLabels
    Capacity <- MCCapacity
    Load <- MCLoad
    MaxChanges = 3
    MaxFaults = 1
CHECK_DEADLOCK FALSE
INVARIANT IndInv
INVARIANT ReportIsCoherent
 
