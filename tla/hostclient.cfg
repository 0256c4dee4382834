SPECIFICATION FairSpec
CONSTANTS
    Callers = {p, q, r}
    NoCaller = NoCaller
    Kinds <- HostKinds
    MaxFaults = 2
INVARIANT IndInv
INVARIANT ClientIsWarm
PROPERTY ImplementsLazyClient
PROPERTY CallsReturn
PROPERTY ErrorsEnd
