--------------------------- MODULE MCWebhookIngest ---------------------------
(* Every combination of faults, on requests that share an instance or not.  *)
EXTENDS WebhookIngest
=============================================================================
