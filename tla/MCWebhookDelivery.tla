--------------------------- MODULE MCWebhookDelivery ---------------------------
(* Small instances of WebhookDelivery: who owns which delivery.             *)
EXTENDS WebhookDelivery

CONSTANTS s1, s2

OneOwner  == [d \in Deliveries |-> s1]
TwoOwners == [d \in Deliveries |-> IF d = NumDeliveries THEN s2 ELSE s1]
=============================================================================
