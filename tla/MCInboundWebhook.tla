-------------------------- MODULE MCInboundWebhook --------------------------
(* Symmetric calls for the runs of InboundWebhook. *)
EXTENDS InboundWebhook, TLC

Symmetry == Permutations(Call)
=============================================================================
