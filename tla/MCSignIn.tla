------------------------------ MODULE MCSignIn ------------------------------
(* Three requests at once, so that two may be behind the one that locks.     *)
EXTENDS SignIn, TLC

CONSTANTS r1, r2, r3

Alike == Permutations({r1, r2, r3})
=============================================================================
