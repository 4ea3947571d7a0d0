-------------------------- MODULE MCWebhookPipeline --------------------------
EXTENDS WebhookPipeline

CONSTANTS d1, e1

(* Every delivery carries the same event, as from a sender that repeats itself. *)
SameBody == [d \in Delivery |-> e1]
=============================================================================
