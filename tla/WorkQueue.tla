------------------------------ MODULE WorkQueue ------------------------------
(***************************************************************************)
(* What the durable queue of manual operations promises its callers,       *)
(* whatever threads, crashes and clocks do: a request is active at most    *)
(* once, at most one operation runs, a finished operation stays finished,  *)
(* and the only way back from running is to be queued again.               *)
(***************************************************************************)
CONSTANTS Ids, Requests, NoRequest

VARIABLES status,   \* where each operation is in its life
          request   \* the request each accepted operation stands for

vars == <<status, request>>

Active(s) == s \in {"queued", "running"}
Finished(s) == s \in {"succeeded", "failed"}

Init ==
  /\ status = [i \in Ids |-> "absent"]
  /\ request = [i \in Ids |-> NoRequest]

\* A new operation: only when no active operation stands for the same request.
Submit(i, r) ==
  /\ status[i] = "absent"
  /\ \A j \in Ids : Active(status[j]) => request[j] # r
  /\ status' = [status EXCEPT ![i] = "queued"]
  /\ request' = [request EXCEPT ![i] = r]

\* One operation starts, alone.
Start(i) ==
  /\ status[i] = "queued"
  /\ \A j \in Ids : status[j] # "running"
  /\ status' = [status EXCEPT ![i] = "running"]
  /\ UNCHANGED request

\* The running operation ends, one way or the other.
Complete(i) ==
  /\ status[i] = "running"
  /\ \E s \in {"succeeded", "failed"} : status' = [status EXCEPT ![i] = s]
  /\ UNCHANGED request

\* The running operation was interrupted by a restart and is queued again.
Requeue(i) ==
  /\ status[i] = "running"
  /\ status' = [status EXCEPT ![i] = "queued"]
  /\ UNCHANGED request

Next ==
  \E i \in Ids :
    \/ \E r \in Requests : Submit(i, r)
    \/ Start(i)
    \/ Complete(i)
    \/ Requeue(i)

Spec == Init /\ [][Next]_vars
=============================================================================
