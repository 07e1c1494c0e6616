--------------------------- MODULE MCWebhookTrigger ---------------------------
EXTENDS WebhookTrigger

CONSTANTS t1, t2, s1, s2

=============================================================================
