-------------------------- MODULE MCWebhookEvents --------------------------
EXTENDS WebhookEvents, TLC

CONSTANTS e1, e2, d1, d2, d3

\* the first event is delivered twice
Redelivered == d1 :> e1 @@ d2 :> e1 @@ d3 :> e2
=============================================================================
