---------------------------- MODULE MCManualQueue ----------------------------
(* Instances of ManualQueue for TLC. *)
EXTENDS ManualQueue

CONSTANTS r1, r2, r3

ThreeIds == 1..3
TwoRequests == {r1, r2}
TwoTimes == 1..2
=============================================================================
