SPECIFICATION FairSpec
CONSTANTS
  NoClaim = "none"
  Claims <- MCClaims
  Specs <- ToggleSpecs
  Skips = {TRUE, FALSE}
  Legacies = {FALSE}
  Lagging = {"user", "ident"}
  Intruders = TRUE
  MaxUIDs = 4
  MaxChanges = 2
  MaxFaults = 1
PROPERTY EventuallyProvisioned
PROPERTY EventuallyReported
PROPERTY DeletionCompletes
