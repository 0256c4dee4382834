------------------------ MODULE MCWebhookDeployment ------------------------
(***************************************************************************)
(* The webhook deployment with certificates that live for four periods.    *)
(***************************************************************************)
EXTENDS WebhookDeployment
===========================================================================
