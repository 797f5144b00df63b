----------------------------- MODULE MCEventBus -----------------------------
(* One webhook edited between two settings is enough: the list holds         *)
(* registrations, and two of them may stand for two webhooks.                *)
EXTENDS EventBus, TLC

\* "detected" events only, or everything.
MCSubscribed == "narrow" :> {"detected"} @@ "all" :> {}
=============================================================================
