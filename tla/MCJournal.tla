------------------------------ MODULE MCJournal ------------------------------
(* Instances of Journal for TLC. *)
EXTENDS Journal

CONSTANTS k1, k2

TwoItems == {k1, k2}
NoLegacy == {}
OneLegacy == {<<k1, 1>>}
NoWindows == {}
AllWindows == {"fold", "truncate", "newline"}
FoldWindow == {"fold"}
TruncateWindow == {"truncate"}
NewlineWindow == {"newline"}
=============================================================================
