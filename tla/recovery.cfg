SPECIFICATION FairSpec
CONSTANTS
  NoRef = "none"
  Types <- MCTypes
  CRRefs <- MCCRRefs
  NSRefs <- MCNSRefs
  RoleRefs <- MCRoleRefs
  Features <- MCFeatures
  ClusterObjs <- MCClusterObjs
  InnerObjs <- MCInnerObjs
  RBAC <- MCRBAC
  Grants <- MCGrants
  Labels <- MCLabels
  CRObjs <- MCCRObjs
  FeatureOf <- MCFeatureOf
  NSType <- MCNSType
  NSObjs <- MCNSObjs
  NSLabel <- MCNSLabel
  RoleGrants <- MCRoleGrants
  Specs <- RoleSpecs
  Lagging = {"nstt", "ns", "rbac"}
  ApplyKeeps = {TRUE}
  Losable = {}
  Intruders = TRUE
  MaxChanges = 1
  MaxFaults = 1
CHECK_DEADLOCK FALSE
PROPERTY EventuallyProvisioned
PROPERTY DeletionCompletes
