-------------------------- MODULE PlaceholderTable --------------------------
(***************************************************************************)
(* What a conversation's placeholder mapping promises: each sensitive      *)
(* value of the conversation is given one placeholder, TYPE_NNN, that no   *)
(* other value of the conversation has, the numbers of a type are handed   *)
(* out in sequence, and the text the conversation stores never uses any    *)
(* other placeholder for that value.                                       *)
(*                                                                         *)
(* A key is the pair (entity type, normalized value); table[k] is the      *)
(* number NNN of its placeholder, 0 while it has none.                     *)
(***************************************************************************)
EXTENDS Naturals

CONSTANTS
    Keys,       \* sensitive values, after normalization
    Types,      \* entity types (EMAIL, PERSON, ...)
    TypeOf      \* the type of each key

VARIABLES
    table,      \* key |-> number of its placeholder, 0 for none
    used        \* pairs <<key, number>> occurring in stored messages

vars == <<table, used>>

TypeOK ==
    /\ table \in [Keys -> Nat]
    /\ used \subseteq Keys \X Nat

\* Two keys with one placeholder are one key: the map can be inverted.
Invertible(f) ==
    \A j, k \in Keys :
        f[j] # 0 /\ f[j] = f[k] /\ TypeOf[j] = TypeOf[k] => j = k

\* The numbers given to the keys of type t are exactly 1 .. n.
NumberedUpTo(f, t, n) ==
    /\ \A k \in Keys : TypeOf[k] = t => f[k] \in 0 .. n
    /\ \A i \in 1 .. n : \E k \in Keys : TypeOf[k] = t /\ f[k] = i

Graph(f) == {<<k, f[k]>> : k \in {j \in Keys : f[j] # 0}}

Init ==
    /\ table = [k \in Keys |-> 0]
    /\ used = {}

\* A message is stored: keys seen for the first time enter the table, and the
\* message uses the table's placeholders.
Store ==
    /\ \A k \in Keys : table[k] # 0 => table'[k] = table[k]
    /\ Invertible(table')
    /\ used \subseteq used'
    /\ used' \subseteq Graph(table')

Spec == Init /\ [][Store]_vars
=============================================================================
