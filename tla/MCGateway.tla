----------------------------- MODULE MCGateway ------------------------------
(* Three calls with a pool that two of them fill. The kinds have a key that  *)
(* is used in every way and revoked, another one, and calls without.         *)
EXTENDS Gateway

CONSTANTS k1, k2

MCKinds ==
    {[mode |-> "stream", key |-> None], [mode |-> "stream", key |-> k1],
     [mode |-> "blocking", key |-> k1], [mode |-> "blocking", key |-> k2],
     [mode |-> "chat", key |-> None], [mode |-> "revoke", key |-> k1]}
=============================================================================
