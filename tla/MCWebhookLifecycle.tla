------------------------- MODULE MCWebhookLifecycle -------------------------
(* WebhookLifecycle with one process, started again whenever it ends.       *)
EXTENDS WebhookLifecycle

OneKill == [term |-> 0, kill |-> 1, error |-> 0]
=============================================================================
