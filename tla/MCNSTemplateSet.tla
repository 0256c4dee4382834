-------------------------- MODULE MCNSTemplateSet --------------------------
(***************************************************************************)
(* Small instances of the NSTemplateSet controller: two tiers that differ  *)
(* in everything a tier is made of, and a third one that is empty.         *)
(***************************************************************************)
EXTENDS NSTemplateSetController

MCTypes == {"dev", "stage"}
MCCRRefs == {"c1", "c2"}
MCNSRefs == {"dev1", "dev2", "stage1"}
MCRoleRefs == {"r1", "r2"}
MCFeatures == {"f"}
MCClusterObjs == {"quota", "idler", "vm"}
MCInnerObjs == {"edit", "view", "netpol"}
MCRBAC == {"edit", "view"}
MCGrants == {"jane", "john"}
MCLabels == {"l1"}
MCCRObjs == [c1 |-> {"quota", "idler"}, c2 |-> {"quota", "vm"}]
MCFeatureOf == [quota |-> "none", idler |-> "none", vm |-> "f"]
MCNSType == [dev1 |-> "dev", dev2 |-> "dev", stage1 |-> "stage"]
MCNSObjs == [dev1 |-> {"edit", "netpol"}, dev2 |-> {"view"}, stage1 |-> {"edit"}]
MCNSLabel == [dev1 |-> "none", dev2 |-> "l1", stage1 |-> "none"]
MCRoleGrants == [r1 |-> {"jane"}, r2 |-> {"john"}]

Tier(c, f, n, r) == [cr |-> c, feat |-> f, ns |-> n, roles |-> r]

\* Cluster-scoped resources and features only
ClusterSpecs ==
    {Tier("c1", {}, {"dev1"}, "none"), Tier("c2", {"f"}, {"dev1"}, "none"),
     Tier("c2", {}, {"dev1"}, "none")}

\* Space roles only
RoleSpecs ==
    {Tier("none", {}, {"dev1"}, r) : r \in {"r1", "r2"}}

\* Whole tiers: the second has two namespaces and no space roles, the third the
\* cluster resources of the second without their feature and the rest of the first
WholeSpecs ==
    {Tier("c1", {}, {"dev1"}, "r1"), Tier("c2", {"f"}, {"dev2", "stage1"}, "none"),
     Tier("c2", {}, {"dev1"}, "r1")}
===========================================================================
