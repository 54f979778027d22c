---------------------------- MODULE MCScreening ----------------------------
(* Instances of Screening for TLC. *)
EXTENDS Screening

ThreeAttempts == 1..3
TwoMoves == {"seen", "closed"}
=============================================================================
