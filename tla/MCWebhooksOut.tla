--------------------------- MODULE MCWebhooksOut ---------------------------
(* Values for WebhooksOut: two events for one endpoint. *)
EXTENDS WebhooksOut

CONSTANTS v1, v2, e1

MCSubscribed == {<<v1, e1>>, <<v2, e1>>}
=============================================================================
