----------------------------- MODULE MCWebhooks -----------------------------
(* Two webhooks of one organization; an edit may set event types that do not *)
(* exist ("unknown").                                                        *)
EXTENDS Webhooks

MCSubscribed ==
    [s \in Settings |-> IF s = "all" THEN {} ELSE {"detected"}]
=============================================================================
