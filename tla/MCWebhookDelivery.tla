------------------------- MODULE MCWebhookDelivery --------------------------
(* Symmetric calls for the runs of WebhookDelivery. *)
EXTENDS WebhookDelivery, TLC

Symmetry == Permutations(Call)
=============================================================================
