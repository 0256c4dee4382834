---------------------------- MODULE MCHostClient ---------------------------
(***************************************************************************)
(* The host client with three goroutines that ask for it.                  *)
(***************************************************************************)
EXTENDS HostClient

\* The two kinds that init lists
HostKinds == {"TierTemplate", "TierTemplateRevision"}
===========================================================================
