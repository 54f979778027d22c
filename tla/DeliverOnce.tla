---------------------------- MODULE DeliverOnce ----------------------------
(***************************************************************************)
(* What the desktop channel promises of each notification, whatever kills, *)
(* failed writes and lost answers do: its attempts are counted before they *)
(* are made, it is attempted again only after an attempt that certainly    *)
(* showed nothing, and so it is shown at most once.                        *)
(***************************************************************************)
EXTENDS Naturals

CONSTANTS Items,       \* notifications
          MaxAttempts  \* attempts to send one of them

VARIABLES stage,  \* of each notification: waiting, out, or over
          tries,  \* attempts counted so far, 0 when it is over
          shown   \* how often it has appeared on the desktop

vars == <<stage, tries, shown>>

Init ==
  /\ stage = [n \in Items |-> "waiting"]
  /\ tries = [n \in Items |-> 0]
  /\ shown = [n \in Items |-> 0]

Attempt(n) ==
  /\ stage[n] = "waiting"
  /\ tries[n] < MaxAttempts
  /\ stage' = [stage EXCEPT ![n] = "out"]
  /\ tries' = [tries EXCEPT ![n] = tries[n] + 1]
  /\ UNCHANGED shown

\* One call of the channel may show several of the notifications that are out.
Show(S) ==
  /\ \A n \in S : stage[n] = "out" /\ shown[n] = 0
  /\ shown' = [n \in Items |-> IF n \in S THEN 1 ELSE shown[n]]
  /\ UNCHANGED <<stage, tries>>

Retry(n) ==
  /\ stage[n] = "out"
  /\ shown[n] = 0
  /\ stage' = [stage EXCEPT ![n] = "waiting"]
  /\ UNCHANGED <<tries, shown>>

End(n) ==
  /\ stage[n] \in {"waiting", "out"}
  /\ stage' = [stage EXCEPT ![n] = "over"]
  /\ tries' = [tries EXCEPT ![n] = 0]
  /\ UNCHANGED shown

Next ==
  \/ \E n \in Items : Attempt(n) \/ Retry(n) \/ End(n)
  \/ \E S \in SUBSET Items : Show(S)

Spec == Init /\ [][Next]_vars
=============================================================================
