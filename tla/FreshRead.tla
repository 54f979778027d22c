------------------------------ MODULE FreshRead ------------------------------
(***************************************************************************)
(* What a read of the local service promises, whatever caches and loads    *)
(* shared between requests lie in between: an answer is the data as it was *)
(* at some moment between the request and the answer.  Data only grows,    *)
(* record by record, so this says that every record of the answer is at    *)
(* least as new as at the request, and not newer than now.                 *)
(***************************************************************************)
EXTENDS Naturals

CONSTANTS Readers, Records, Queries, None

VARIABLES data,   \* the version of each record
          since,  \* of each request: its records as they were then, or None
          reply   \* the answers that were given last, None for the others

vars == <<data, since, reply>>

Newer(a, b) == \A r \in DOMAIN a : a[r] >= b[r]

Init ==
  /\ data = [r \in Records |-> 0]
  /\ since = [p \in Readers |-> None]
  /\ reply = [p \in Readers |-> None]

Grow ==
  /\ data' \in [Records -> 0..2]
  /\ Newer(data', data)
  /\ UNCHANGED <<since, reply>>

Ask(p, q) ==
  /\ since[p] = None
  /\ since' = [since EXCEPT ![p] = [r \in q |-> data[r]]]
  /\ UNCHANGED <<data, reply>>

\* Several requests end in one step, with one answer or without any.
End(A) ==
  /\ since' = [p \in Readers |-> IF p \in A THEN None ELSE since[p]]
  /\ \A p \in Readers \ A : reply'[p] = None
  /\ \A p \in A : reply'[p] # None =>
       /\ DOMAIN reply'[p] = DOMAIN since[p]
       /\ Newer(reply'[p], since[p])
       /\ Newer([r \in DOMAIN reply'[p] |-> data[r]], reply'[p])
  /\ DOMAIN reply' = Readers
  /\ UNCHANGED data

Next ==
  \/ Grow
  \/ \E p \in Readers, q \in Queries : Ask(p, q)
  \/ \E A \in SUBSET {p \in Readers : since[p] # None} : End(A)

Spec == Init /\ [][Next]_vars
=============================================================================
