-------------------------- MODULE MCMemberStatus --------------------------
(***************************************************************************)
(* A node of both roles, one of one role, and one of none, being an infra  *)
(* node.                                                                   *)
(***************************************************************************)
EXTENDS MemberStatus

Nodes == {"m", "w", "i"}
MCLabels == [m |-> {"master", "worker"}, w |-> {"worker"}, i |-> {"infra", "worker"}]
MCCapacity == [m |-> 4, w |-> 8, i |-> 4]
MCLoad == [m |-> 1, w |-> 6, i |-> 4]
===========================================================================
