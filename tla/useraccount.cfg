SPECIFICATION Spec
CONSTANTS
  NoClaim = "none"
  Claims <- MCClaims
  Specs <- MCSpecs
  Skips = {TRUE, FALSE}
  Legacies = {TRUE, FALSE}
  Lagging = {"acc"}
  Intruders = FALSE
  MaxUIDs = 3
  MaxChanges = 2
  MaxFaults = 1
INVARIANT IndInv
 
PROPERTY ProvisionedIsMapped
PROPERTY DisabledIsRemoved
PROPERTY IdentitiesDeletedFirst
