--------------------------- MODULE MCProvisioning ---------------------------
(* A good and a poisoned event, sent at any moment of the apply.            *)
EXTENDS Provisioning
=============================================================================
