--------------------------- MODULE MCWebhookRetry ---------------------------
(* Small instances of WebhookRetry for TLC. *)
EXTENDS WebhookRetry, TLC

\* The webhooks are interchangeable; symmetry is used where no liveness is checked.
Interchangeable == Permutations(Webhooks)
=============================================================================
