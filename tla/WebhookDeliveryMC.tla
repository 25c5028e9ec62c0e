------------------------- MODULE WebhookDeliveryMC -------------------------
(* Instances of WebhookDelivery for TLC: the configurations give the        *)
(* constants model values.                                                  *)
EXTENDS WebhookDelivery
=============================================================================
