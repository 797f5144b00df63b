----------------------------- MODULE MCAccounts -----------------------------
(* Three accounts of three emails when requests do not overlap, and as many  *)
(* as two requests at once can make when they do.                            *)
EXTENDS Accounts, TLC

CONSTANTS r1, r2, e1, e2, e3

MCMaxAccounts == "serial" :> 3 @@ "any" :> 2

Alike == Permutations({r1, r2}) \cup Permutations({e1, e2})
=============================================================================
