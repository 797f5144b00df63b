-------------------------- MODULE MCChatPipeline ---------------------------
(***************************************************************************)
(* Small instances of ChatPipeline: two types, two or three keys, one of  *)
(* them of a type the policies block.                                      *)
(***************************************************************************)
EXTENDS ChatPipeline, TLC

CONSTANTS r1, r2, r3, ann, bob, ssn, email, secret

TwoKeys == {ann, bob}
MixedKeys == {ann, bob, ssn}
AllTypes == {email, secret}
KeyTypes == [k \in MixedKeys |-> IF k = ssn THEN secret ELSE email]
OneType == {email}
TwoKeyTypes == [k \in TwoKeys |-> email]

\* ann and bob are values of one type, the requests of one kind.
SameKind == Permutations({ann, bob}) \cup Permutations({r1, r2})
=============================================================================
