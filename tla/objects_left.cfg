SPECIFICATION Spec
CONSTANTS
  NoRef = "none"
  Types <- MCTypes
  CRRefs <- MCCRRefs
  NSRefs <- MCNSRefs
  RoleRefs <- MCRoleRefs
  Features <- MCFeatures
  ClusterObjs <- MCClusterObjs
  InnerObjs <- MCInnerObjs
  RBAC <- MCRBAC
  Grants <- MCGrants
  Labels <- MCLabels
  CRObjs <- MCCRObjs
  FeatureOf <- MCFeatureOf
  NSType <- MCNSType
  NSObjs <- MCNSObjs
  NSLabel <- MCNSLabel
  RoleGrants <- MCRoleGrants
  Specs <- ClusterSpecs
  Lagging = {"nstt"}
  ApplyKeeps = {TRUE}
  Losable = {}
  Intruders = FALSE
  MaxChanges = 1
  MaxFaults = 0
CHECK_DEADLOCK FALSE
INVARIANT NoClusterObjectsLeft
