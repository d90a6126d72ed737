------------------------- MODULE MCWebhookPipeline -------------------------
(* Small instances of WebhookPipeline for TLC. *)
EXTENDS WebhookPipeline

CONSTANTS w1, w2

AllKinds      == {"captured", "failed", "dispute", "unhandled"}
CapturedKinds == {"captured"}
=============================================================================
