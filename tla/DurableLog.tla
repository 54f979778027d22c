----------------------------- MODULE DurableLog -----------------------------
(***************************************************************************)
(* What the bounded operational journal promises: every item has a         *)
(* version, appending moves one item to its next version, and nothing -    *)
(* rotation, folding, recovery, a restart - ever moves one back.           *)
(***************************************************************************)
EXTENDS Naturals

CONSTANTS Items,  \* attempts, deliveries, ...
          Last    \* the last version of an item

VARIABLE version  \* the version a reader finds of each item, 0 for none

Init == version \in [Items -> 0..Last]

Append(k) ==
  /\ version[k] < Last
  /\ version' = [version EXCEPT ![k] = @ + 1]

Next == \E k \in Items : Append(k)

Spec == Init /\ [][Next]_version
=============================================================================
