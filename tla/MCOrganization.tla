--------------------------- MODULE MCOrganization ---------------------------
(* Two licences, one for a tier with a single rule, one for two rules, and   *)
(* the third that two requests at once may add.                              *)
EXTENDS Organization, TLC

CONSTANTS solo, team, l1, l2

MCTierOf == l1 :> solo @@ l2 :> team
MCMaxRules == Free :> 2 @@ solo :> 1 @@ team :> 2
=============================================================================
