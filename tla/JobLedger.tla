------------------------------ MODULE JobLedger ------------------------------
(***************************************************************************)
(* What the scheduler promises about the attempts of its jobs, whatever    *)
(* interrupts it: a job is attempted again on a day only after an attempt  *)
(* that failed in a way worth retrying, never more often than its budget,  *)
(* one attempt at a time over all jobs, and what is recorded stays.        *)
(***************************************************************************)
EXTENDS Naturals, Sequences

CONSTANTS Jobs, Days,
          MaxAttempts  \* attempts of a job on one day

VARIABLE status  \* of the attempts of each job on each day, in their order

Init == status = [j \in Jobs |-> [d \in Days |-> <<>>]]

Running(j, d) == \E n \in DOMAIN status[j][d] : status[j][d][n] = "running"

Retryable(q) == q = <<>> \/ q[Len(q)] = "failed"

Start(j, d) ==
  /\ Retryable(status[j][d])
  /\ Len(status[j][d]) < MaxAttempts
  /\ \A i \in Jobs, e \in Days : ~Running(i, e)
  /\ status' = [status EXCEPT ![j] = [status[j] EXCEPT ![d] = Append(status[j][d], "running")]]

Finish(j, d, n, s) ==
  /\ status[j][d][n] = "running"
  /\ status' = [status EXCEPT ![j] = [status[j] EXCEPT ![d] =
                  [status[j][d] EXCEPT ![n] = s]]]

Next ==
  \E j \in Jobs, d \in Days :
    \/ Start(j, d)
    \/ \E n \in DOMAIN status[j][d], s \in {"succeeded", "failed", "blocked"} :
         Finish(j, d, n, s)

Spec == Init /\ [][Next]_status
=============================================================================
