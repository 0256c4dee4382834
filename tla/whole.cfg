SPECIFICATION Spec
CONSTANTS
  NoRef = "none"
  Types <- MCTypes
  CRRefs <- MCCRRefs
  NSRefs <- MCNSRefs
  RoleRefs <- MCRoleRefs
  Features <- MCFeatures
  ClusterObjs <- MCClusterObjs
  InnerObjs <- MCInnerObjs
  RBAC <- MCRBAC
  Grants <- MCGrants
  Labels <- MCLabels
  CRObjs <- MCCRObjs
  FeatureOf <- MCFeatureOf
  NSType <- MCNSType
  NSObjs <- MCNSObjs
  NSLabel <- MCNSLabel
  RoleGrants <- MCRoleGrants
  Specs <- WholeSpecs
  Lagging = {"nstt"}
  ApplyKeeps = {TRUE, FALSE}
  Losable = {"quota"}
  Intruders = FALSE
  MaxChanges = 2
  MaxFaults = 1
CHECK_DEADLOCK FALSE
INVARIANT ClusterAccounting
INVARIANT OrderInv
INVARIANT NoOrphanedNamespaces
 
PROPERTY ReadyIsCurrent
PROPERTY ClusterResourcesDeletedFirst
PROPERTY ReadyNamespacesComplete
