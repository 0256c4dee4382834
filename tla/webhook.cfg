SPECIFICATION FairSpec
CONSTANTS
    Expiration = 4
    MaxNow = 5
    MaxChanges = 2
    MaxFaults = 1
INVARIANT IndInv
INVARIANT RestIsConsistent
INVARIANT NoExpiredCertificate
PROPERTY GoodCertificateKept
PROPERTY DeploymentConverges
