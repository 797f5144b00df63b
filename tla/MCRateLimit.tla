----------------------------- MODULE MCRateLimit ----------------------------
(* An organization whose API and auth paths share a bucket, under limits that *)
(* differ by path and by tier, and the auth paths of an address.              *)
EXTENDS RateLimit, TLC

CONSTANTS w1, w2, acme, home, free, team

MCRequests == {<<acme, "api">>, <<acme, "auth">>, <<home, "auth">>}
MCApiLimit == free :> 2 @@ team :> 3
MCGatewayLimit == free :> 3 @@ team :> 3
=============================================================================
