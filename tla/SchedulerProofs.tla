--------------------------- MODULE SchedulerProofs ---------------------------
(***************************************************************************)
(* Safety of Scheduler for every set of jobs, every clock, day, budget and *)
(* backoff, and every bound: the types and the budget of provider calls;   *)
(* and what the history says: retries keep their discipline, no finished   *)
(* attempt is forgotten by the observers, and the attempts implement       *)
(* JobLedger.                                                              *)
(*                                                                         *)
(* The history rests on who may write: an outcome is only recorded of an   *)
(* attempt that is running, and an attempt is only started by a job that   *)
(* is due at the reading of the clock its claim took.  The ledger needs    *)
(* one thing more: while the clock is never set back, the attempt that     *)
(* runs is the latest of its job, so that a recovery finds it before       *)
(* another is started.                                                     *)
(***************************************************************************)
EXTENDS Scheduler, SequenceTheorems, TLAPS

Readings == 0..MaxClock
Histories == [Jobs -> [Days -> Seq(Attempt)]]

\* Readings of the clock fall on days that have a place in the history.
LEMMA DayType == ASSUME NEW t \in Readings PROVE Day(t) \in Days
<1> DEFINE q == t \div DayLength
           p == MaxClock \div DayLength
<1>1. /\ DayLength \in Nat /\ DayLength > 0
      /\ t \in Nat /\ MaxClock \in Nat /\ t <= MaxClock
  BY TimeAssumption, SchedulerBounds DEF Readings
<1>2. q \in Nat /\ p \in Nat
  BY <1>1
<1>3. DayLength * q <= t
  BY <1>1
<1>4. MaxClock < DayLength * (p + 1)
  BY <1>1
<1>5. q <= p
  <2> SUFFICES ASSUME q >= p + 1 PROVE FALSE
    BY <1>2
  <2>1. DayLength * q >= DayLength * (p + 1)
    BY <1>1, <1>2
  <2> QED
    BY <2>1, <1>1, <1>2, <1>3, <1>4
<1> QED
  BY <1>2, <1>5 DEF Day, Days

\* Recording an outcome changes one attempt and no number of attempts.
LEMMA OutcomeEffect ==
  ASSUME attempts \in Histories,
         NEW a \in Jobs \X Days \X Nat, a[3] \in 1..Len(attempts[a[1]][a[2]]),
         NEW s \in Statuses, NEW t \in Nat
  PROVE  /\ Outcome(a, s, t) \in Histories
         /\ \A j \in Jobs, d \in Days : Len(Outcome(a, s, t)[j][d]) = Len(attempts[j][d])
<1> DEFINE old == attempts[a[1]][a[2]]
           new == [old EXCEPT ![a[3]].status = s, ![a[3]].completed = t]
<1>1. a[1] \in Jobs /\ a[2] \in Days /\ a[3] \in Nat
  OBVIOUS
<1>2. old \in Seq(Attempt) /\ old[a[3]] \in Attempt
  BY <1>1 DEF Histories
<1>3. new \in Seq(Attempt) /\ Len(new) = Len(old)
  <2> DEFINE n == a[3]
             ended == [old[n] EXCEPT !.status = s, !.completed = t]
  <2>1. n \in DOMAIN old
    BY <1>2
  <2>2. ended \in Attempt
    BY <1>2 DEF Attempt
  <2>3. new = [old EXCEPT ![n] = ended]
    BY <1>2, <2>1 DEF Attempt
  <2> HIDE DEF n, ended, new, old
  <2>4. [old EXCEPT ![n] = ended] \in Seq(Attempt)
    BY <1>2, <2>1, <2>2
  <2> QED
    BY <1>2, <2>1, <2>3, <2>4
<1>4. Outcome(a, s, t) =
        [attempts EXCEPT ![a[1]] = [attempts[a[1]] EXCEPT ![a[2]] = new]]
  BY DEF Outcome
<1> HIDE DEF new
<1>5. Outcome(a, s, t) \in Histories
  BY <1>1, <1>3, <1>4 DEF Histories
<1>6. ASSUME NEW j \in Jobs, NEW d \in Days
      PROVE  Len(Outcome(a, s, t)[j][d]) = Len(attempts[j][d])
  BY <1>1, <1>3, <1>4 DEF Histories
<1> QED
  BY <1>5, <1>6

\* Starting an attempt adds one to its job and day and to no other.
LEMMA StartedEffect ==
  ASSUME attempts \in Histories, NEW j \in Jobs, NEW t \in Readings
  PROVE  /\ Started(j, t) \in Histories
         /\ Len(Started(j, t)[j][Day(t)]) = Len(attempts[j][Day(t)]) + 1
         /\ \A i \in Jobs, d \in Days :
              i # j \/ d # Day(t) => Started(j, t)[i][d] = attempts[i][d]
<1> DEFINE old == attempts[j][Day(t)]
           at == [status |-> "running", started |-> t, completed |-> 0]
           new == Append(old, at)
<1>1. Day(t) \in Days /\ t \in Nat
  BY DayType DEF Readings
<1>2. at \in Attempt
  BY <1>1 DEF Attempt, Statuses
<1>3. old \in Seq(Attempt)
  BY <1>1 DEF Histories
<1>4. new \in Seq(Attempt) /\ Len(new) = Len(old) + 1
  BY <1>2, <1>3
<1>5. Started(j, t) =
        [attempts EXCEPT ![j] = [attempts[j] EXCEPT ![Day(t)] = new]]
  BY DEF Started
<1> HIDE DEF new
<1>6. Started(j, t) \in Histories
  BY <1>1, <1>4, <1>5 DEF Histories
<1>7. Len(Started(j, t)[j][Day(t)]) = Len(old) + 1
  BY <1>1, <1>4, <1>5 DEF Histories
<1>8. ASSUME NEW i \in Jobs, NEW d \in Days, i # j \/ d # Day(t)
      PROVE  Started(j, t)[i][d] = attempts[i][d]
  BY <1>1, <1>5, <1>8 DEF Histories
<1> QED
  BY <1>6, <1>7, <1>8

-----------------------------------------------------------------------------
(* The inductive invariant *)

\* The attempt in hand is on record.
CurRecorded ==
  cur[1] \in Jobs /\ cur[2] \in Days /\ cur[3] \in 1..Len(attempts[cur[1]][cur[2]])

\* What the thread knows at each of its steps: a claimed job has budget left,
\* the attempt in hand is on record, and its provider is not called yet.
InHand ==
  /\ clock \in Readings /\ now \in Readings
  /\ thread = "start" =>
       active \in Jobs /\ Len(attempts[active][Day(now)]) < MaxAttempts
  /\ thread \in {"call", "calling", "finish", "notify"} => CurRecorded
  /\ thread = "call" => calls[cur[1]][cur[2]] < Len(attempts[cur[1]][cur[2]])
  /\ thread = "finish" => outcome \in Outcomes

IInv == TypeOK /\ InHand /\ CallsBudgeted

\* Nothing is recorded and nothing called.
LEMMA InitIInv == Init => IInv
<1> SUFFICES ASSUME Init PROVE IInv
  OBVIOUS
<1>1. TypeOK
  BY JobsAssumption DEF Init, TypeOK, Threads, NoAttempt, Attempt
<1>2. InHand
  BY SchedulerBounds DEF Init, InHand, Readings
<1>3. CallsBudgeted
  BY TimeAssumption DEF Init, CallsBudgeted
<1> QED
  BY <1>1, <1>2, <1>3 DEF IInv

\* A step that leaves the attempts and calls alone keeps the budget.
LEMMA BudgetKept ==
  ASSUME CallsBudgeted, UNCHANGED <<attempts, calls>>
  PROVE  CallsBudgeted'
BY DEF CallsBudgeted

\* Under the invariant the attempts of a day are counted, within the budget.
LEMMA Counted ==
  ASSUME IInv, NEW j \in Jobs, NEW d \in Days
  PROVE  /\ attempts[j][d] \in Seq(Attempt) /\ Len(attempts[j][d]) \in Nat
         /\ Len(attempts[j][d]) <= MaxAttempts
         /\ calls[j][d] \in Nat /\ calls[j][d] <= Len(attempts[j][d])
<1>1. attempts[j][d] \in Seq(Attempt) /\ calls[j][d] \in Nat
  BY DEF IInv, TypeOK
<1>2. Len(attempts[j][d]) \in Nat
  BY <1>1
<1> QED
  BY <1>1, <1>2 DEF IInv, CallsBudgeted

\* Recording an outcome keeps the numbers of attempts, starting one adds to a
\* day that has budget left: either way the budget is kept.
LEMMA RecordedInBudget ==
  ASSUME IInv,
         \/ UNCHANGED attempts
         \/ \E a \in Jobs \X Days \X Nat, s \in Statuses, t \in Nat :
              a[3] \in 1..Len(attempts[a[1]][a[2]]) /\ attempts' = Outcome(a, s, t)
         \/ thread = "start" /\ attempts' = Started(active, now)
  PROVE  /\ attempts' \in Histories
         /\ \A j \in Jobs, d \in Days :
              Len(attempts[j][d]) <= Len(attempts'[j][d])
              /\ Len(attempts'[j][d]) <= MaxAttempts
              /\ (thread # "start" \/ j # active => Len(attempts'[j][d]) = Len(attempts[j][d]))
<1>1. attempts \in Histories
  BY DEF IInv, TypeOK, Histories
<1>2. CASE UNCHANGED attempts
  BY <1>1, <1>2, Counted
<1>3. ASSUME NEW a \in Jobs \X Days \X Nat, NEW s \in Statuses, NEW t \in Nat,
             a[3] \in 1..Len(attempts[a[1]][a[2]]), attempts' = Outcome(a, s, t)
      PROVE  /\ attempts' \in Histories
             /\ \A j \in Jobs, d \in Days : Len(attempts'[j][d]) = Len(attempts[j][d])
  BY <1>1, <1>3, OutcomeEffect
<1>4. CASE thread = "start" /\ attempts' = Started(active, now)
  <2>1. /\ active \in Jobs /\ now \in Readings /\ Day(now) \in Days
        /\ Len(attempts[active][Day(now)]) < MaxAttempts
    BY <1>4, DayType DEF IInv, InHand
  <2>2. /\ attempts' \in Histories
        /\ Len(attempts'[active][Day(now)]) = Len(attempts[active][Day(now)]) + 1
        /\ \A i \in Jobs, d \in Days :
             i # active \/ d # Day(now) => attempts'[i][d] = attempts[i][d]
    BY <1>1, <1>4, <2>1, StartedEffect
  <2>3. MaxAttempts \in Nat
    BY TimeAssumption
  <2>4. ASSUME NEW j \in Jobs, NEW d \in Days
        PROVE  /\ Len(attempts[j][d]) <= Len(attempts'[j][d])
               /\ Len(attempts'[j][d]) <= MaxAttempts
               /\ (j # active => Len(attempts'[j][d]) = Len(attempts[j][d]))
    <3>1. Len(attempts[j][d]) \in Nat /\ Len(attempts[j][d]) <= MaxAttempts
      BY Counted
    <3>2. CASE j = active /\ d = Day(now)
      BY <2>1, <2>2, <2>3, <3>1, <3>2
    <3>3. CASE j # active \/ d # Day(now)
      BY <2>2, <3>1, <3>3
    <3> QED
      BY <3>2, <3>3
  <2> QED
    BY <1>4, <2>2, <2>4
<1>5. CASE \E a \in Jobs \X Days \X Nat, s \in Statuses, t \in Nat :
              a[3] \in 1..Len(attempts[a[1]][a[2]]) /\ attempts' = Outcome(a, s, t)
  <2>1. /\ attempts' \in Histories
        /\ \A j \in Jobs, d \in Days : Len(attempts'[j][d]) = Len(attempts[j][d])
    BY <1>3, <1>5
  <2> QED
    BY <2>1, Counted
<1> QED
  BY <1>2, <1>4, <1>5

\* A write that fails leaves the attempts as they were or as it would have.
LEMMA FaultEffect ==
  ASSUME IInv, WriteFault
  PROVE  /\ attempts' \in Histories
         /\ \A j \in Jobs, d \in Days :
              Len(attempts[j][d]) <= Len(attempts'[j][d])
              /\ Len(attempts'[j][d]) <= MaxAttempts
              /\ (thread # "start" \/ j # active => Len(attempts'[j][d]) = Len(attempts[j][d]))
<1>1. CASE UNCHANGED attempts
  BY <1>1, RecordedInBudget
<1>2. ASSUME NEW a \in Interrupted, attempts' = Outcome(a, "failed", now)
      PROVE  \E b \in Jobs \X Days \X Nat, s \in Statuses, t \in Nat :
               b[3] \in 1..Len(attempts[b[1]][b[2]]) /\ attempts' = Outcome(b, s, t)
  <2>1. a \in Jobs \X Days \X Nat /\ a[3] \in 1..Len(attempts[a[1]][a[2]])
    BY DEF Interrupted, Running, Recorded
  <2>2. "failed" \in Statuses /\ now \in Nat
    BY DEF IInv, TypeOK, Statuses, Outcomes
  <2> QED
    BY <1>2, <2>1, <2>2
<1>3. CASE thread = "start" /\ attempts' = Started(active, now)
  BY <1>3, RecordedInBudget
<1>4. ASSUME thread = "finish", attempts' = Outcome(cur, outcome, clock)
      PROVE  \E b \in Jobs \X Days \X Nat, s \in Statuses, t \in Nat :
               b[3] \in 1..Len(attempts[b[1]][b[2]]) /\ attempts' = Outcome(b, s, t)
  <2>1. cur \in Jobs \X Days \X Nat /\ cur[3] \in 1..Len(attempts[cur[1]][cur[2]])
    BY <1>4, JobsAssumption DEF IInv, TypeOK, InHand, CurRecorded, NoAttempt, NoJob
  <2>2. outcome \in Statuses /\ clock \in Nat
    BY <1>4 DEF IInv, TypeOK, InHand, Statuses
  <2> QED
    BY <1>4, <2>1, <2>2
<1>5. \/ UNCHANGED attempts
      \/ \E a \in Interrupted : attempts' = Outcome(a, "failed", now)
      \/ thread = "start" /\ attempts' = Started(active, now)
      \/ thread = "finish" /\ attempts' = Outcome(cur, outcome, clock)
  BY DEF WriteFault
<1> QED
  BY <1>1, <1>2, <1>3, <1>4, <1>5, RecordedInBudget

\* A call of a provider counts once, for one job and day.
LEMMA CalledEffect ==
  ASSUME IInv, NEW j \in Jobs, NEW d \in Days
  PROVE  /\ Called(j, d) \in [Jobs -> [Days -> Nat]]
         /\ Called(j, d)[j][d] = calls[j][d] + 1
         /\ \A i \in Jobs, e \in Days : i # j \/ e # d => Called(j, d)[i][e] = calls[i][e]
<1>1. calls \in [Jobs -> [Days -> Nat]]
  BY DEF IInv, TypeOK
<1> DEFINE n == calls[j][d] + 1
           new == [calls[j] EXCEPT ![d] = n]
<1>2. n \in Nat /\ calls[j] \in [Days -> Nat]
  BY <1>1
<1>3. Called(j, d) = [calls EXCEPT ![j] = new]
  BY DEF Called
<1> HIDE DEF n
<1>4. new \in [Days -> Nat] /\ new[d] = n /\ \A e \in Days : e # d => new[e] = calls[j][e]
  BY <1>2
<1> HIDE DEF new
<1>5. Called(j, d) \in [Jobs -> [Days -> Nat]]
  BY <1>1, <1>3, <1>4
<1>6. Called(j, d)[j][d] = n
  BY <1>1, <1>3, <1>4
<1>7. ASSUME NEW i \in Jobs, NEW e \in Days, i # j \/ e # d
      PROVE  Called(j, d)[i][e] = calls[i][e]
  <2>1. CASE i # j
    BY <1>1, <1>3, <2>1
  <2>2. CASE i = j /\ e # d
    BY <1>1, <1>3, <1>4, <2>2
  <2> QED
    BY <1>7, <2>1, <2>2
<1> QED
  BY <1>5, <1>6, <1>7 DEF n

\* Every step keeps the types.
LEMMA StepTypeOK == IInv /\ [Next]_vars => TypeOK'
<1> SUFFICES ASSUME IInv, [Next]_vars PROVE TypeOK'
  OBVIOUS
<1> USE DEF IInv, TypeOK, Threads, store, tick, hist, bounds
<1>1. CASE ClockTicks
  BY <1>1 DEF ClockTicks
<1>2. CASE ClockStepsBack
  BY <1>2 DEF ClockStepsBack
<1>3. CASE Boot
  BY <1>3, SchedulerBounds DEF Boot, Finished, Recorded
<1>4. CASE Stop
  BY <1>4 DEF Stop
<1>5. CASE Deadline
  BY <1>5 DEF Deadline, ProcessEnds
<1>6. CASE Crash
  BY <1>6 DEF Crash, ProcessEnds
<1>7. ASSUME NEW R \in SUBSET Jobs, Reconcile(R) PROVE TypeOK'
  BY <1>7 DEF Reconcile
<1>8. CASE ThreadEnds
  BY <1>8 DEF ThreadEnds
<1>9. CASE TickBegins
  BY <1>9 DEF TickBegins, Fails
<1>10. CASE Plan
  BY <1>10 DEF Plan
<1>11. CASE TickEnds
  BY <1>11 DEF TickEnds, TickOver
<1>12. ASSUME NEW a \in Recorded, Recover(a) PROVE TypeOK'
  <2>1. a \in Jobs \X Days \X Nat /\ a[3] \in 1..Len(attempts[a[1]][a[2]])
    BY DEF Recorded
  <2>2. attempts' \in [Jobs -> [Days -> Seq(Attempt)]]
    BY <1>12, <2>1, OutcomeEffect DEF Recover, Histories, Statuses, Outcomes
  <2> QED
    BY <1>12, <2>1, <2>2 DEF Recover
<1>13. ASSUME NEW a \in Recorded, RecoverTooEarly(a) PROVE TypeOK'
  BY <1>13 DEF RecoverTooEarly, TickOver
<1>14. ASSUME NEW j \in Jobs, Claim(j) PROVE TypeOK'
  BY <1>14 DEF Claim
<1>15. CASE Start
  <2>1. active \in Jobs /\ now \in Readings /\ Day(now) \in Days
    BY <1>15, DayType DEF Start, InHand
  <2>2. attempts' \in [Jobs -> [Days -> Seq(Attempt)]]
    BY <1>15, <2>1, StartedEffect DEF Start, Histories
  <2>3. Len(attempts[active][Day(now)]) + 1 \in Nat
    BY <2>1
  <2> QED
    BY <1>15, <2>1, <2>2, <2>3 DEF Start
<1>16. CASE Call
  <2>1. cur[1] \in Jobs /\ cur[2] \in Days
    BY <1>16 DEF Call, InHand, CurRecorded
  <2>2. calls' = Called(cur[1], cur[2]) \/ UNCHANGED calls
    BY <1>16 DEF Call
  <2>3. Called(cur[1], cur[2]) \in [Jobs -> [Days -> Nat]]
    BY <2>1, CalledEffect
  <2>4. calls' \in [Jobs -> [Days -> Nat]]
    BY <2>2, <2>3
  <2> QED
    BY <1>16, <2>4 DEF Call, Outcomes
<1>17. CASE Return
  BY <1>17 DEF Return, Outcomes
<1>18. CASE Finish
  <2>1. cur \in Jobs \X Days \X Nat /\ cur[3] \in 1..Len(attempts[cur[1]][cur[2]])
    BY <1>18, JobsAssumption DEF Finish, InHand, CurRecorded, NoAttempt, NoJob
  <2>2. attempts' \in [Jobs -> [Days -> Seq(Attempt)]]
    BY <1>18, <2>1, OutcomeEffect DEF Finish, InHand, Histories, Statuses
  <2> QED
    BY <1>18, <2>2 DEF Finish
<1>19. CASE FinishTooEarly
  BY <1>19 DEF FinishTooEarly, TickOver
<1>20. CASE Notify
  <2>1. cur \in Jobs \X Days \X Nat
    BY <1>20, JobsAssumption DEF Notify, InHand, CurRecorded, NoAttempt, NoJob
  <2>2. /\ observed' \subseteq Jobs \X Days \X Nat /\ pending' \subseteq Jobs \X Days \X Nat
        /\ faults' \in Nat
    BY <1>20, <2>1 DEF Notify, Fails
  <2>3. /\ thread' \in Threads /\ now' \in Nat /\ jobs' \subseteq Jobs /\ queue' \subseteq Jobs
        /\ active' = NoJob /\ cur' = NoAttempt /\ outcome' = "none"
    BY <1>20 DEF Notify, TickOver
  <2>4. UNCHANGED <<attempts, registry, clock, cancel, hist, backs, crashes>>
    BY <1>20 DEF Notify
  <2> QED
    BY <2>2, <2>3, <2>4
<1>21. CASE MemoryBreach
  BY <1>21 DEF MemoryBreach
<1>22. CASE WriteFault
  <2>1. attempts' \in [Jobs -> [Days -> Seq(Attempt)]]
    BY <1>22, FaultEffect DEF Histories
  <2>2. /\ faults' = faults + 1 /\ TickOver
        /\ UNCHANGED <<observed, registry, clock, cancel, pending, hist, backs, crashes>>
    BY <1>22 DEF WriteFault, Fails
  <2> QED
    BY <2>1, <2>2 DEF TickOver
<1>23. CASE UNCHANGED vars
  BY <1>23 DEF vars
<1> QED
  BY <1>1, <1>2, <1>3, <1>4, <1>5, <1>6, <1>7, <1>8, <1>9, <1>10, <1>11, <1>12, <1>13,
     <1>14, <1>15, <1>16, <1>17, <1>18, <1>19, <1>20, <1>21, <1>22, <1>23
  DEF Next, ThreadStep

\* A step that leaves the thread where it is, and the attempt in hand alone,
\* leaves what the thread knows.
LEMMA InHandKept ==
  ASSUME IInv, clock' \in Readings,
         UNCHANGED <<attempts, calls, thread, now, active, cur, outcome>>
  PROVE  InHand'
BY DEF IInv, InHand, CurRecorded

\* Where no attempt is in hand the thread only knows the time.
LEMMA InHandResting ==
  ASSUME clock' \in Readings, now' \in Readings, thread' \in {"off", "idle", "recover", "next"}
  PROVE  InHand'
BY DEF InHand

\* Every step keeps what the thread knows of the attempt in hand: the claim
\* checks the budget, and only the thread records attempts and makes calls.
LEMMA StepInHand == IInv /\ [Next]_vars => InHand'
<1> SUFFICES ASSUME IInv, [Next]_vars PROVE InHand'
  OBVIOUS
<1> USE DEF store, tick, hist, bounds
<1>a. clock \in Readings /\ now \in Readings /\ clock \in Nat /\ 0 \in Readings
  BY SchedulerBounds DEF IInv, InHand, Readings
<1>b. attempts \in Histories
  BY DEF IInv, TypeOK, Histories
<1>1. CASE ClockTicks
  <2>1. clock' \in Readings
    BY <1>1, <1>a, SchedulerBounds DEF ClockTicks, Readings
  <2> QED
    BY <1>1, <2>1, InHandKept DEF ClockTicks
<1>2. CASE ClockStepsBack
  <2>1. clock' \in Readings
    BY <1>2, <1>a, SchedulerBounds DEF ClockStepsBack, Readings
  <2> QED
    BY <1>2, <2>1, InHandKept DEF ClockStepsBack
<1>3. CASE Boot
  BY <1>3, <1>a, InHandResting DEF Boot
<1>4. CASE Stop
  BY <1>4, <1>a, InHandKept DEF Stop
<1>5. CASE Deadline
  BY <1>5, <1>a, InHandResting DEF Deadline, ProcessEnds
<1>6. CASE Crash
  BY <1>6, <1>a, InHandResting DEF Crash, ProcessEnds
<1>7. ASSUME NEW R \in SUBSET Jobs, Reconcile(R) PROVE InHand'
  BY <1>7, <1>a, InHandKept DEF Reconcile
<1>8. CASE ThreadEnds
  BY <1>8, <1>a, InHandResting DEF ThreadEnds
<1>9. CASE TickBegins
  BY <1>9, <1>a, InHandResting DEF TickBegins
<1>10. CASE Plan
  BY <1>10, <1>a, InHandResting DEF Plan
<1>11. CASE TickEnds
  BY <1>11, <1>a, InHandResting DEF TickEnds, TickOver
<1>12. ASSUME NEW a \in Recorded, Recover(a) PROVE InHand'
  <2>1. a \in Jobs \X Days \X Nat /\ a[3] \in 1..Len(attempts[a[1]][a[2]])
    BY DEF Recorded
  <2>2. "failed" \in Statuses /\ now \in Nat
    BY DEF IInv, TypeOK, Statuses, Outcomes
  <2>3. \A j \in Jobs, d \in Days : Len(attempts'[j][d]) = Len(attempts[j][d])
    BY <1>12, <1>b, <2>1, <2>2, OutcomeEffect DEF Recover
  <2>4. CurRecorded'
    BY <1>12, <2>1, <2>3 DEF Recover, CurRecorded
  <2> QED
    BY <1>12, <1>a, <2>4 DEF Recover, InHand
<1>13. ASSUME NEW a \in Recorded, RecoverTooEarly(a) PROVE InHand'
  BY <1>13, <1>a, InHandResting DEF RecoverTooEarly, TickOver
<1>14. ASSUME NEW j \in Jobs, Claim(j) PROVE InHand'
  <2>1. CASE Due(j, clock) /\ j \in registry
    <3>1. Day(clock) \in Days
      BY <1>a, DayType
    <3>2. attempts[j][Day(clock)] = <<>> => Len(attempts[j][Day(clock)]) = 0
      OBVIOUS
    <3>3. Len(attempts[j][Day(clock)]) < MaxAttempts
      BY <2>1, <3>2, TimeAssumption DEF Due
    <3>4. /\ thread' = "start" /\ active' = j
          /\ UNCHANGED <<attempts, clock>> /\ now' = clock
      BY <1>14, <2>1 DEF Claim
    <3>5. Day(now') = Day(clock)
      BY <3>4
    <3> QED
      BY <1>a, <3>3, <3>4, <3>5 DEF InHand
  <2>2. CASE ~(Due(j, clock) /\ j \in registry)
    <3>1. thread' = "next" /\ now' = clock /\ UNCHANGED clock
      BY <1>14, <2>2 DEF Claim
    <3> QED
      BY <1>a, <3>1, InHandResting
  <2> QED
    BY <2>1, <2>2
<1>15. CASE Start
  <2> DEFINE n == Len(attempts[active][Day(now)])
             m == Len(attempts'[active][Day(now)])
  <2>1. active \in Jobs /\ Day(now) \in Days
    BY <1>15, DayType DEF Start, IInv, InHand
  <2>2. n \in Nat /\ calls[active][Day(now)] \in Nat /\ calls[active][Day(now)] <= n
    BY <2>1, Counted
  <2>3. m = n + 1
    BY <1>15, <1>a, <1>b, <2>1, StartedEffect DEF Start
  <2>4. cur' = <<active, Day(now), n + 1>> /\ thread' = "call" /\ UNCHANGED <<clock, now, calls>>
    BY <1>15 DEF Start
  <2>5. cur'[1] = active /\ cur'[2] = Day(now) /\ cur'[3] = n + 1
    BY <2>4
  <2> HIDE DEF n
  <2>6. n + 1 \in 1..m /\ calls[active][Day(now)] < m
    BY <2>2, <2>3
  <2>7. CurRecorded'
    BY <2>1, <2>5, <2>6 DEF CurRecorded
  <2> QED
    BY <1>a, <2>4, <2>5, <2>6, <2>7 DEF InHand
<1>16. CASE Call
  <2>1. CurRecorded' /\ now' \in Readings /\ clock' \in Readings
    BY <1>16, <1>a DEF Call, IInv, InHand, CurRecorded
  <2>2. thread' \in {"calling", "finish"} /\ (thread' = "finish" => outcome' = "failed")
    BY <1>16 DEF Call
  <2> QED
    BY <2>1, <2>2 DEF InHand, Outcomes
<1>17. CASE Return
  <2>1. CurRecorded' /\ now' \in Readings /\ clock' \in Readings
    BY <1>17, <1>a DEF Return, IInv, InHand, CurRecorded
  <2>2. thread' = "finish" /\ outcome' \in Outcomes
    BY <1>17 DEF Return, Outcomes
  <2> QED
    BY <2>1, <2>2 DEF InHand
<1>18. CASE Finish
  <2>1. CurRecorded
    BY <1>18 DEF Finish, IInv, InHand
  <2>2. cur \in Jobs \X Days \X Nat /\ cur[3] \in 1..Len(attempts[cur[1]][cur[2]])
    BY <2>1, JobsAssumption DEF IInv, TypeOK, CurRecorded, NoAttempt, NoJob
  <2>3. outcome \in Statuses
    BY <1>18 DEF Finish, IInv, InHand, Statuses
  <2>4. \A j \in Jobs, d \in Days : Len(attempts'[j][d]) = Len(attempts[j][d])
    BY <1>18, <1>a, <1>b, <2>2, <2>3, OutcomeEffect DEF Finish
  <2>5. CurRecorded'
    BY <1>18, <2>1, <2>4 DEF Finish, CurRecorded
  <2> QED
    BY <1>18, <1>a, <2>5 DEF Finish, InHand
<1>19. CASE FinishTooEarly
  BY <1>19, <1>a, InHandResting DEF FinishTooEarly, TickOver
<1>20. CASE Notify
  <2>1. thread' \in {"idle", "recover", "next"} /\ now' \in {0, now} /\ UNCHANGED clock
    BY <1>20 DEF Notify, TickOver
  <2> QED
    BY <1>a, <2>1, InHandResting
<1>21. CASE MemoryBreach
  BY <1>21, <1>a, InHandKept DEF MemoryBreach
<1>22. CASE WriteFault
  BY <1>22, <1>a, InHandResting DEF WriteFault, TickOver
<1>23. CASE UNCHANGED vars
  BY <1>23, <1>a, InHandKept DEF vars
<1> QED
  BY <1>1, <1>2, <1>3, <1>4, <1>5, <1>6, <1>7, <1>8, <1>9, <1>10, <1>11, <1>12, <1>13,
     <1>14, <1>15, <1>16, <1>17, <1>18, <1>19, <1>20, <1>21, <1>22, <1>23
  DEF Next, ThreadStep

\* In every step the numbers of attempts stay within the budget, none falls,
\* and only the start of a claimed job raises one, its own.
LEMMA StepRecords ==
  ASSUME IInv, [Next]_vars
  PROVE  \A j \in Jobs, d \in Days :
           Len(attempts[j][d]) <= Len(attempts'[j][d])
           /\ Len(attempts'[j][d]) <= MaxAttempts
           /\ (thread # "start" \/ j # active => Len(attempts'[j][d]) = Len(attempts[j][d]))
<1> USE DEF store
<1>1. ASSUME UNCHANGED attempts
      PROVE  \A j \in Jobs, d \in Days :
               Len(attempts[j][d]) <= Len(attempts'[j][d])
               /\ Len(attempts'[j][d]) <= MaxAttempts
               /\ (thread # "start" \/ j # active => Len(attempts'[j][d]) = Len(attempts[j][d]))
  BY <1>1, RecordedInBudget
<1>2. ASSUME NEW a \in Recorded, Recover(a)
      PROVE  \E b \in Jobs \X Days \X Nat, s \in Statuses, t \in Nat :
               b[3] \in 1..Len(attempts[b[1]][b[2]]) /\ attempts' = Outcome(b, s, t)
  <2>1. a \in Jobs \X Days \X Nat /\ a[3] \in 1..Len(attempts[a[1]][a[2]])
    BY DEF Recorded
  <2>2. "failed" \in Statuses /\ now \in Nat
    BY DEF IInv, TypeOK, Statuses, Outcomes
  <2> QED
    BY <1>2, <2>1, <2>2 DEF Recover
<1>3. CASE Finish
  <2>1. cur \in Jobs \X Days \X Nat /\ cur[3] \in 1..Len(attempts[cur[1]][cur[2]])
    BY <1>3, JobsAssumption
    DEF Finish, IInv, TypeOK, InHand, CurRecorded, NoAttempt, NoJob
  <2>2. outcome \in Statuses /\ clock \in Nat /\ attempts' = Outcome(cur, outcome, clock)
    BY <1>3 DEF Finish, IInv, TypeOK, InHand, Statuses
  <2> QED
    BY <2>1, <2>2, RecordedInBudget
<1>4. CASE Start
  BY <1>4, RecordedInBudget DEF Start
<1>5. CASE WriteFault
  BY <1>5, FaultEffect
<1>6. \/ UNCHANGED attempts
      \/ \E a \in Recorded : Recover(a)
      \/ Finish \/ Start \/ WriteFault
  BY DEF Next, ThreadStep, ClockTicks, ClockStepsBack, Boot, Stop, Deadline, Crash, Reconcile,
         ThreadEnds, TickBegins, Plan, TickEnds, RecoverTooEarly, Claim, Call, Return,
         FinishTooEarly, Notify, MemoryBreach, vars
<1> QED
  BY <1>1, <1>2, <1>3, <1>4, <1>5, <1>6, RecordedInBudget

\* Every step keeps the budget: a call is made only while the attempt it is
\* for is not yet called.
LEMMA StepBudget == IInv /\ [Next]_vars => CallsBudgeted'
<1> SUFFICES ASSUME IInv, [Next]_vars,
                    NEW j \in Jobs, NEW d \in Days
             PROVE  calls'[j][d] <= Len(attempts'[j][d])
  <2>1. MaxAttempts \in Nat
    BY TimeAssumption
  <2> QED
    BY <2>1, StepRecords DEF CallsBudgeted
<1>1. /\ calls[j][d] \in Nat /\ Len(attempts[j][d]) \in Nat
      /\ calls[j][d] <= Len(attempts[j][d])
  BY Counted
<1>2. Len(attempts[j][d]) <= Len(attempts'[j][d])
  BY StepRecords
<1>3. Len(attempts'[j][d]) \in Nat
  <2>1. attempts'[j][d] \in Seq(Attempt)
    BY StepTypeOK DEF TypeOK
  <2> QED
    BY <2>1
<1>4. CASE UNCHANGED calls
  BY <1>1, <1>2, <1>3, <1>4
<1>5. CASE Call /\ calls' = Called(cur[1], cur[2])
  <2>1. /\ cur[1] \in Jobs /\ cur[2] \in Days
        /\ calls[cur[1]][cur[2]] < Len(attempts[cur[1]][cur[2]])
    BY <1>5 DEF Call, IInv, InHand, CurRecorded
  <2>2. CASE j = cur[1] /\ d = cur[2]
    <3>1. calls'[j][d] = calls[j][d] + 1
      BY <1>5, <2>1, <2>2, CalledEffect
    <3>2. calls[j][d] < Len(attempts[j][d])
      BY <2>1, <2>2
    <3> QED
      BY <1>1, <1>2, <1>3, <3>1, <3>2
  <2>3. CASE j # cur[1] \/ d # cur[2]
    <3>1. calls'[j][d] = calls[j][d]
      BY <1>5, <2>1, <2>3, CalledEffect
    <3> QED
      BY <1>1, <1>2, <1>3, <3>1
  <2> QED
    BY <2>2, <2>3
<1>6. UNCHANGED calls \/ (Call /\ calls' = Called(cur[1], cur[2]))
  BY DEF Next, ThreadStep, ClockTicks, ClockStepsBack, Boot, Stop, Deadline, Crash, Reconcile,
         ThreadEnds, TickBegins, Plan, TickEnds, Recover, RecoverTooEarly, Claim, Start, Call,
         Return, Finish, FinishTooEarly, Notify, MemoryBreach, WriteFault, vars, hist
<1> QED
  BY <1>4, <1>5, <1>6

-----------------------------------------------------------------------------
(* The theorems *)

\* The thread never acts on an attempt that is not on record, whatever kills
\* the process, cancels the run or fails a write.
THEOREM Invariance == Spec => []IInv
<1>1. IInv /\ [Next]_vars => IInv'
  BY StepTypeOK, StepInHand, StepBudget DEF IInv
<1> QED
  BY InitIInv, <1>1, PTL DEF Spec

\* The variables have their types in every state.
THEOREM TypeCorrect == Spec => []TypeOK
<1>1. IInv => TypeOK
  BY DEF IInv
<1> QED
  BY Invariance, <1>1, PTL

\* Providers are called within the budget of the day (_run_job,
\* max_attempts_per_day), for every number of jobs, days, crashes and faults.
THEOREM Budgeted == Spec => []CallsBudgeted
<1>1. IInv => CallsBudgeted
  BY DEF IInv
<1> QED
  BY Invariance, <1>1, PTL

-----------------------------------------------------------------------------
(* Withdrawn jobs *)

\* A job withdrawn while it was not active is out of the registry and stays
\* inactive.
Out == \A j \in withdrawn : j \notin registry /\ j # active

\* A claim looks at the registry, a reconciliation at the active job.
LEMMA StepOut == TypeOK /\ Out /\ [Next]_vars => Out'
<1> SUFFICES ASSUME TypeOK, Out, [Next]_vars PROVE Out'
  OBVIOUS
<1> USE DEF Out, store, tick, hist, bounds
<1>1. NoJob \notin withdrawn
  BY JobsAssumption DEF TypeOK, NoJob
<1>2. CASE UNCHANGED <<registry, withdrawn>> /\ active' \in {active, NoJob}
  BY <1>1, <1>2
<1>3. ASSUME NEW R \in SUBSET Jobs, Reconcile(R) PROVE Out'
  BY <1>3 DEF Reconcile
<1>4. ASSUME NEW j \in Jobs, Claim(j) PROVE Out'
  BY <1>4 DEF Claim
<1>5. \/ UNCHANGED <<registry, withdrawn>> /\ active' \in {active, NoJob}
      \/ \E R \in SUBSET Jobs : Reconcile(R)
      \/ \E j \in Jobs : Claim(j)
  BY DEF Next, ThreadStep, ClockTicks, ClockStepsBack, Boot, Stop, Deadline, Crash,
     ProcessEnds,
         ThreadEnds, TickBegins, Plan, TickEnds, TickOver, Recover, RecoverTooEarly, Start,
         Call, Return, Finish, FinishTooEarly, Notify, MemoryBreach, WriteFault, vars
<1> QED
  BY <1>2, <1>3, <1>4, <1>5

\* A withdrawn job is not started, even by a tick that had it listed
\* (_claim_registered_job takes the registry's lock to look again).
THEOREM WithdrawnStaysOut == Spec => WithdrawnNotStarted
<1> DEFINE NotStarted == \A j \in withdrawn, d \in Days :
                           Len(attempts'[j][d]) = Len(attempts[j][d])
<1>1. Init => Out
  BY DEF Init, Out
<1>2. IInv /\ Out /\ [Next]_vars => Out'
  BY StepOut DEF IInv
<1>3. IInv /\ Out /\ [Next]_vars => [NotStarted]_vars
  <2> SUFFICES ASSUME IInv, Out, [Next]_vars,
                      NEW j \in withdrawn, NEW d \in Days
               PROVE  Len(attempts'[j][d]) = Len(attempts[j][d])
    OBVIOUS
  <2>1. j \in Jobs /\ j # active
    BY DEF IInv, TypeOK, Out
  <2> QED
    BY <2>1, StepRecords
<1> QED
  BY <1>1, <1>2, <1>3, Invariance, PTL DEF Spec, WithdrawnNotStarted

-----------------------------------------------------------------------------
(* The history *)


At(a) == attempts[a[1]][a[2]][a[3]]

Opened == thread \in {"call", "calling", "finish"}

\* The attempt in hand is running until its outcome is recorded, and a job that
\* is about to start is due.
Held ==
  /\ ~Opened /\ thread # "notify" => cur = NoAttempt
  /\ Opened => At(cur).status = "running"
  /\ thread = "start" => Due(active, now)

-----------------------------------------------------------------------------
(* The two writes of the history *)

\* An outcome replaces status and completion ...
LEMMA EndedAttempt ==
  ASSUME NEW r \in Attempt, NEW s \in Statuses, NEW t \in Nat
  PROVE  [r EXCEPT !.status = s, !.completed = t]
           = [status |-> s, started |-> r.started, completed |-> t]
<1> DEFINE u == [r EXCEPT !.status = s]
           e == [status |-> s, started |-> r.started, completed |-> t]
<1>1. PICK x \in Statuses, y \in Nat, z \in Nat :
        r = [status |-> x, started |-> y, completed |-> z]
  BY DEF Attempt
<1>2. u = [status |-> s, started |-> y, completed |-> z] /\ r.started = y
  BY <1>1
<1> HIDE DEF u
<1>3. [u EXCEPT !.completed = t] = e
  BY <1>2
<1> QED
  BY <1>3, Zenon DEF u

Ended(q, n, s, t) == [q EXCEPT ![n].status = s, ![n].completed = t]
End(r, s, t) == [status |-> s, started |-> r.started, completed |-> t]

\* ... of one attempt of its day.
LEMMA EndedFields ==
  ASSUME NEW q \in Seq(Attempt), NEW n \in 1..Len(q), NEW s \in Statuses, NEW t \in Nat
  PROVE  /\ Ended(q, n, s, t) = [q EXCEPT ![n] = End(q[n], s, t)]
         /\ End(q[n], s, t) \in Attempt
<1>1. q[n] \in Attempt /\ n \in DOMAIN q
  OBVIOUS
<1>2. [q EXCEPT ![n].status = s, ![n].completed = t]
        = [q EXCEPT ![n] = [q[n] EXCEPT !.status = s, !.completed = t]]
  BY <1>1 DEF Attempt
<1>3. [q[n] EXCEPT !.status = s, !.completed = t] = End(q[n], s, t)
  BY <1>1, EndedAttempt DEF End
<1>4. End(q[n], s, t) \in Attempt
  BY <1>1 DEF End, Attempt
<1> QED
  BY <1>2, <1>3, <1>4 DEF Ended

\* An outcome is recorded at its attempt and nowhere else.
LEMMA OutcomeFields ==
  ASSUME attempts \in Histories, NEW a \in Recorded,
         NEW s \in Statuses, NEW t \in Nat, attempts' = Outcome(a, s, t)
  PROVE  /\ At(a)' = [status |-> s, started |-> At(a).started, completed |-> t]
         /\ \A j \in Jobs, d \in Days :
              /\ Len(attempts'[j][d]) = Len(attempts[j][d])
              /\ \A n \in 1..Len(attempts[j][d]) :
                   <<j, d, n>> # a => attempts'[j][d][n] = attempts[j][d][n]
         /\ Recorded' = Recorded
<1> DEFINE old == attempts[a[1]][a[2]]
           end == End(old[a[3]], s, t)
           new == Ended(old, a[3], s, t)
<1>1. /\ a[1] \in Jobs /\ a[2] \in Days /\ a[3] \in Nat /\ a[3] \in 1..Len(old)
      /\ a \in Jobs \X Days \X Nat /\ a = <<a[1], a[2], a[3]>>
  BY DEF Recorded
<1>2. old \in Seq(Attempt) /\ old[a[3]] \in Attempt
  BY <1>1 DEF Histories
<1>3. attempts' = [attempts EXCEPT ![a[1]] = [attempts[a[1]] EXCEPT ![a[2]] = new]]
  BY DEF Outcome, Ended
<1>4. new = [old EXCEPT ![a[3]] = end] /\ end \in Attempt
  BY <1>1, <1>2, EndedFields
<1> HIDE DEF end, new
<1>5. /\ new[a[3]] = end
      /\ \A n \in 1..Len(old) : n # a[3] => new[n] = old[n]
  BY <1>1, <1>2, <1>4
<1>6. attempts'[a[1]][a[2]] = new
  BY <1>1, <1>3 DEF Histories
<1>7. \A j \in Jobs, d \in Days : j # a[1] \/ d # a[2] => attempts'[j][d] = attempts[j][d]
  BY <1>1, <1>3 DEF Histories
<1>8. \A j \in Jobs, d \in Days : Len(attempts'[j][d]) = Len(attempts[j][d])
  BY <1>1, OutcomeEffect
<1>9. ASSUME NEW j \in Jobs, NEW d \in Days, NEW n \in 1..Len(attempts[j][d]),
             <<j, d, n>> # a
      PROVE  attempts'[j][d][n] = attempts[j][d][n]
  <2>1. CASE j = a[1] /\ d = a[2]
    <3>1. n # a[3]
      BY <1>1, <1>9, <2>1
    <3> QED
      BY <1>5, <1>6, <2>1, <3>1
  <2> QED
    BY <1>7, <2>1
<1>10. Recorded' = Recorded
  BY <1>8 DEF Recorded
<1> QED
  BY <1>5, <1>6, <1>8, <1>9, <1>10 DEF At, end, End

\* A start adds a running attempt to its day and changes no other.
LEMMA StartedFields ==
  ASSUME attempts \in Histories, NEW j \in Jobs, NEW t \in Readings,
         attempts' = Started(j, t)
  PROVE  LET old == attempts[j][Day(t)]
             new == attempts'[j][Day(t)]
         IN  /\ old \in Seq(Attempt) /\ Len(old) \in Nat
             /\ Len(new) = Len(old) + 1
             /\ new[Len(old) + 1] = [status |-> "running", started |-> t, completed |-> 0]
             /\ \A n \in 1..Len(old) : new[n] = old[n]
             /\ \A i \in Jobs, d \in Days :
                  i # j \/ d # Day(t) => attempts'[i][d] = attempts[i][d]
<1> DEFINE old == attempts[j][Day(t)]
           at == [status |-> "running", started |-> t, completed |-> 0]
           new == Append(old, at)
<1>1. Day(t) \in Days
  BY DayType
<1>2. old \in Seq(Attempt) /\ Len(old) \in Nat
  BY <1>1 DEF Histories
<1>3. attempts' = [attempts EXCEPT ![j] = [attempts[j] EXCEPT ![Day(t)] = new]]
  BY DEF Started
<1>4. at \in Attempt
  BY DEF Attempt, Statuses, Readings
<1> HIDE DEF at
<1>5. /\ Len(new) = Len(old) + 1 /\ new[Len(old) + 1] = at
      /\ \A n \in 1..Len(old) : new[n] = old[n]
  BY <1>2, <1>4
<1> HIDE DEF new
<1>6. attempts'[j][Day(t)] = new
  BY <1>1, <1>3 DEF Histories
<1>7. \A i \in Jobs, d \in Days : i # j \/ d # Day(t) => attempts'[i][d] = attempts[i][d]
  BY <1>1, <1>3 DEF Histories
<1> QED
  BY <1>2, <1>5, <1>6, <1>7 DEF at

\* An outcome comes to one running attempt.
Ends(a) ==
  a \in Running /\ \E s \in Outcomes, t \in Nat : attempts' = Outcome(a, s, t)

\* The attempt in hand is a running one of the history.
LEMMA CurRunning ==
  ASSUME IInv, Held, Opened
  PROVE  cur \in Running
<1>1. CurRecorded /\ At(cur).status = "running"
  BY DEF IInv, InHand, Held, Opened
<1>2. cur \in Jobs \X Days \X Nat /\ cur[3] \in 1..Len(attempts[cur[1]][cur[2]])
  BY <1>1, JobsAssumption DEF IInv, TypeOK, CurRecorded, NoAttempt, NoJob
<1>3. Len(attempts[cur[1]][cur[2]]) <= MaxAttempts /\ Len(attempts[cur[1]][cur[2]]) \in Nat
  BY <1>2, Counted
<1>4. cur[3] \in 1..MaxAttempts
  BY <1>2, <1>3, TimeAssumption
<1>5. cur \in Jobs \X Days \X (1..MaxAttempts)
  BY <1>2, <1>4
<1> QED
  BY <1>1, <1>2, <1>5 DEF Running, Recorded, Status, At

\* Every step leaves the history alone, ends a running attempt, or starts the
\* claimed job.
LEMMA StepHistory ==
  ASSUME IInv, Held, [Next]_vars
  PROVE  \/ UNCHANGED attempts
         \/ \E a \in Running : Ends(a)
         \/ thread = "start" /\ attempts' = Started(active, now)
<1> USE DEF store
<1>0. clock \in Nat /\ now \in Nat
  BY DEF IInv, TypeOK
<1>1. ASSUME NEW a \in Recorded, Recover(a) PROVE Ends(a)
  BY <1>0, <1>1 DEF Recover, NextInterrupted, Interrupted, Ends, Outcomes
<1>2. CASE Finish
  <2>1. cur \in Running /\ outcome \in Outcomes
    BY <1>2, CurRunning DEF Finish, Opened, IInv, InHand
  <2> QED
    BY <1>0, <1>2, <2>1 DEF Finish, Ends
<1>3. CASE Start
  BY <1>3 DEF Start
<1>4. CASE WriteFault
  <2>1. CASE \E a \in Interrupted : attempts' = Outcome(a, "failed", now)
    BY <1>0, <2>1 DEF Interrupted, Ends, Outcomes
  <2>2. CASE thread = "finish" /\ attempts' = Outcome(cur, outcome, clock)
    <3>1. cur \in Running /\ outcome \in Outcomes
      BY <2>2, CurRunning DEF Opened, IInv, InHand
    <3> QED
      BY <1>0, <2>2, <3>1 DEF Ends
  <2> QED
    BY <1>4, <2>1, <2>2 DEF WriteFault
<1>5. \/ UNCHANGED attempts
      \/ \E a \in Recorded : Recover(a)
      \/ Finish \/ Start \/ WriteFault
  BY DEF Next, ThreadStep, ClockTicks, ClockStepsBack, Boot, Stop, Deadline, Crash, Reconcile,
         ThreadEnds, TickBegins, Plan, TickEnds, RecoverTooEarly, Claim, Call, Return,
         FinishTooEarly, Notify, MemoryBreach, vars
<1> QED
  BY <1>1, <1>2, <1>3, <1>4, <1>5 DEF Ends

-----------------------------------------------------------------------------
(* The attempt in hand *)

\* Nothing is in hand.
LEMMA InitHeld == Init => Held
BY DEF Init, Held, Opened

\* A step that leaves the history and the work in hand alone keeps Held.
LEMMA HeldKept ==
  ASSUME Held, UNCHANGED <<attempts, thread, now, active, cur>>
  PROVE  Held'
BY DEF Held, Opened, At, Due, Day

\* A thread that rests holds no attempt.
LEMMA HeldResting ==
  ASSUME thread' \in {"off", "idle", "recover", "next"}, cur' = NoAttempt
  PROVE  Held'
BY DEF Held, Opened

\* A step within a run keeps the attempt in hand and its record.
LEMMA HeldRunning ==
  ASSUME Held, Opened, UNCHANGED <<attempts, cur>>, thread' \in {"calling", "finish"}
  PROVE  Held'
BY DEF Held, Opened, At

\* Every step keeps the attempt in hand running until its outcome is recorded.
LEMMA StepHeld == IInv /\ Held /\ [Next]_vars => Held'
<1> SUFFICES ASSUME IInv, Held, [Next]_vars PROVE Held'
  OBVIOUS
<1> USE DEF store, tick, hist, bounds
<1>1. CASE UNCHANGED <<attempts, thread, now, active, cur>>
  BY <1>1, HeldKept
<1>2. CASE Boot \/ Deadline \/ Crash
  BY <1>2, HeldResting DEF Boot, Deadline, Crash, ProcessEnds, Down, Held, Opened
<1>3. CASE ThreadEnds \/ TickBegins \/ Plan \/ TickEnds
  BY <1>3, HeldResting DEF ThreadEnds, TickBegins, Plan, TickEnds, TickOver, Held, Opened
<1>4. ASSUME NEW a \in Recorded, Recover(a) PROVE Held'
  BY <1>4 DEF Recover, Held, Opened
<1>5. ASSUME NEW a \in Recorded, RecoverTooEarly(a) PROVE Held'
  BY <1>5, HeldResting DEF RecoverTooEarly, TickOver
<1>6. ASSUME NEW j \in Jobs, Claim(j) PROVE Held'
  <2>1. cur = NoAttempt /\ UNCHANGED <<attempts, cur>> /\ now' = clock
    BY <1>6 DEF Claim, Held, Opened
  <2>2. CASE Due(j, clock) /\ j \in registry
    <3>1. active' = j /\ thread' = "start"
      BY <1>6, <2>2 DEF Claim
    <3>2. Due(active, now)'
      BY <2>1, <2>2, <3>1 DEF Due, Day
    <3> QED
      BY <2>1, <3>1, <3>2 DEF Held, Opened
  <2>3. CASE ~(Due(j, clock) /\ j \in registry)
    <3>1. thread' = "next"
      BY <1>6, <2>3 DEF Claim
    <3> QED
      BY <2>1, <3>1, HeldResting
  <2> QED
    BY <2>2, <2>3
<1>7. CASE Start
  <2> DEFINE n == Len(attempts[active][Day(now)])
  <2>1. active \in Jobs /\ now \in Readings /\ attempts \in Histories
    BY <1>7 DEF Start, IInv, InHand, TypeOK, Histories
  <2>2. attempts'[active][Day(now)][n + 1] =
          [status |-> "running", started |-> now, completed |-> 0]
    BY <1>7, <2>1, StartedFields DEF Start
  <2>3. attempts'[active][Day(now)][n + 1].status = "running"
    BY <2>2
  <2>4. cur' = <<active, Day(now), n + 1>> /\ thread' = "call"
    BY <1>7 DEF Start
  <2>5. cur'[1] = active /\ cur'[2] = Day(now) /\ cur'[3] = n + 1
    BY <2>4
  <2>6. At(cur)'.status = "running"
    BY <2>3, <2>5 DEF At
  <2> QED
    BY <2>4, <2>6 DEF Held, Opened
<1>8. CASE Call \/ Return
  BY <1>8, HeldRunning DEF Call, Return, Opened
<1>9. CASE Finish
  BY <1>9 DEF Finish, Held, Opened
<1>10. CASE FinishTooEarly \/ WriteFault
  BY <1>10, HeldResting DEF FinishTooEarly, WriteFault, TickOver
<1>11. CASE Notify
  BY <1>11, HeldResting DEF Notify, TickOver
<1>12. \/ UNCHANGED <<attempts, thread, now, active, cur>>
       \/ Boot \/ Deadline \/ Crash
       \/ ThreadEnds \/ TickBegins \/ Plan \/ TickEnds
       \/ \E a \in Recorded : Recover(a) \/ RecoverTooEarly(a)
       \/ \E j \in Jobs : Claim(j)
       \/ Start \/ Call \/ Return \/ Finish \/ FinishTooEarly \/ Notify \/ WriteFault
  BY DEF Next, ThreadStep, ClockTicks, ClockStepsBack, Stop, Reconcile, MemoryBreach, vars
<1> QED
  BY <1>1, <1>2, <1>3, <1>4, <1>5, <1>6, <1>7, <1>8, <1>9, <1>10, <1>11, <1>12

-----------------------------------------------------------------------------
(* Retries *)

\* An outcome comes to the last attempt of its day: one that was running has
\* no successor.
LEMMA EndsDisciplined ==
  ASSUME IInv, RetryDiscipline, NEW a \in Running, Ends(a)
  PROVE  RetryDiscipline'
<1>1. attempts \in Histories
  BY DEF IInv, TypeOK, Histories
<1>2. PICK s \in Outcomes, t \in Nat : attempts' = Outcome(a, s, t)
  BY DEF Ends
<1>3. a \in Recorded /\ s \in Statuses /\ At(a).status = "running"
  BY DEF Running, Statuses, Status, At
<1>4. /\ At(a)'.started = At(a).started
      /\ \A j \in Jobs, d \in Days : \A n \in 1..Len(attempts[j][d]) :
           <<j, d, n>> # a => attempts'[j][d][n] = attempts[j][d][n]
      /\ Recorded' = Recorded
  BY <1>1, <1>2, <1>3, OutcomeFields
<1>5. SUFFICES ASSUME NEW b \in Recorded
               PROVE  LET at == attempts'[b[1]][b[2]] IN
                      /\ at[b[3]].started >= Scheduled(b[2])
                      /\ b[3] > 1 => /\ at[b[3] - 1].status = "failed"
                                     /\ at[b[3]].started >= at[b[3] - 1].completed
                                                              + Delay(b[3] - 1)
  BY <1>4 DEF RetryDiscipline
<1> DEFINE p == attempts[b[1]][b[2]]
           q == attempts'[b[1]][b[2]]
<1>6. /\ b[1] \in Jobs /\ b[2] \in Days /\ b[3] \in 1..MaxAttempts
      /\ b = <<b[1], b[2], b[3]>> /\ b[3] <= Len(p)
      /\ p \in Seq(Attempt) /\ Len(p) \in Nat
  BY <1>1 DEF Recorded, Histories
<1>7. /\ p[b[3]].started >= Scheduled(b[2])
      /\ b[3] > 1 => /\ p[b[3] - 1].status = "failed"
                     /\ p[b[3]].started >= p[b[3] - 1].completed + Delay(b[3] - 1)
  BY DEF RetryDiscipline
<1>8. b[3] \in 1..Len(p) /\ (b[3] > 1 => b[3] - 1 \in 1..Len(p))
  BY <1>6
<1>9. q[b[3]].started = p[b[3]].started
  BY <1>4, <1>6, <1>8 DEF At
<1>10. ASSUME b[3] > 1 PROVE q[b[3] - 1] = p[b[3] - 1]
  <2>1. <<b[1], b[2], b[3] - 1>> # a
    BY <1>3, <1>7, <1>10 DEF At
  <2> QED
    BY <1>4, <1>6, <1>8, <1>10, <2>1
<1> HIDE DEF p, q
<1> QED
  BY <1>7, <1>9, <1>10 DEF p, q

\* A start follows an attempt that failed and its backoff, or opens the day.
LEMMA StartDisciplined ==
  ASSUME IInv, Held, RetryDiscipline, thread = "start", attempts' = Started(active, now)
  PROVE  RetryDiscipline'
<1> DEFINE old == attempts[active][Day(now)]
           new == attempts'[active][Day(now)]
           n == Len(old)
<1>1. /\ attempts \in Histories /\ active \in Jobs /\ now \in Readings /\ now \in Nat
      /\ Day(now) \in Days
  BY DayType DEF IInv, InHand, TypeOK, Histories
<1>2. /\ old \in Seq(Attempt) /\ n \in Nat
      /\ Len(new) = n + 1
      /\ new[n + 1] = [status |-> "running", started |-> now, completed |-> 0]
      /\ \A k \in 1..n : new[k] = old[k]
      /\ \A i \in Jobs, d \in Days :
           i # active \/ d # Day(now) => attempts'[i][d] = attempts[i][d]
  BY <1>1, StartedFields
<1>3. /\ now >= Scheduled(Day(now))
      /\ n > 0 => old[n].status = "failed" /\ now >= old[n].completed + Delay(n)
  <2>1. Due(active, now)
    BY DEF Held
  <2>2. old = <<>> => n = 0
    OBVIOUS
  <2> QED
    BY <2>1, <2>2 DEF Due
<1>4. SUFFICES ASSUME NEW b \in Recorded'
               PROVE  LET at == attempts'[b[1]][b[2]] IN
                      /\ at[b[3]].started >= Scheduled(b[2])
                      /\ b[3] > 1 => /\ at[b[3] - 1].status = "failed"
                                     /\ at[b[3]].started >= at[b[3] - 1].completed
                                                              + Delay(b[3] - 1)
  BY DEF RetryDiscipline
<1>5. /\ b[1] \in Jobs /\ b[2] \in Days /\ b[3] \in 1..MaxAttempts
      /\ b = <<b[1], b[2], b[3]>> /\ b[3] <= Len(attempts'[b[1]][b[2]])
  BY DEF Recorded
<1> HIDE DEF old, new, n
<1>6. CASE b[1] = active /\ b[2] = Day(now) /\ b[3] = n + 1
  <2>1. new[b[3]].started = now /\ (b[3] > 1 => n > 0 /\ b[3] - 1 = n /\ new[n] = old[n])
    BY <1>2, <1>6
  <2>2. attempts'[b[1]][b[2]] = new
    BY <1>6 DEF new
  <2> QED
    BY <1>3, <1>6, <2>1, <2>2
<1>7. CASE b[1] = active /\ b[2] = Day(now) /\ b[3] # n + 1
  <2>1. b[3] \in 1..n /\ (b[3] > 1 => b[3] - 1 \in 1..n)
    BY <1>2, <1>5, <1>7, TimeAssumption DEF new
  <2>2. new[b[3]] = old[b[3]] /\ (b[3] > 1 => new[b[3] - 1] = old[b[3] - 1])
    BY <1>2, <2>1
  <2>3. attempts'[b[1]][b[2]] = new /\ attempts[b[1]][b[2]] = old
    BY <1>7 DEF new, old
  <2>4. b \in Recorded
    BY <1>5, <1>7, <2>1 DEF Recorded, n, old
  <2> QED
    BY <2>2, <2>3, <2>4 DEF RetryDiscipline
<1>8. CASE b[1] # active \/ b[2] # Day(now)
  <2>1. attempts'[b[1]][b[2]] = attempts[b[1]][b[2]]
    BY <1>2, <1>5, <1>8
  <2>2. b \in Recorded
    BY <1>5, <2>1 DEF Recorded
  <2> QED
    BY <2>1, <2>2 DEF RetryDiscipline
<1> QED
  BY <1>6, <1>7, <1>8

\* The thread holds what it should and retries keep their discipline.
HInv == Held /\ RetryDiscipline

\* Every step keeps both.
LEMMA StepHInv == IInv /\ HInv /\ [Next]_vars => HInv'
<1> SUFFICES ASSUME IInv, Held, RetryDiscipline, [Next]_vars PROVE HInv'
  BY DEF HInv
<1>1. ASSUME UNCHANGED attempts PROVE RetryDiscipline'
  BY <1>1 DEF RetryDiscipline, Recorded
<1>2. ASSUME NEW a \in Running, Ends(a) PROVE RetryDiscipline'
  BY <1>2, EndsDisciplined
<1>3. ASSUME thread = "start", attempts' = Started(active, now) PROVE RetryDiscipline'
  BY <1>3, StartDisciplined
<1>4. RetryDiscipline'
  BY <1>1, <1>2, <1>3, StepHistory
<1> QED
  BY <1>4, StepHeld DEF HInv

\* The thread holds an attempt exactly while it runs.
THEOREM HeldThroughout == Spec => []HInv
<1>1. Init => HInv
  <2>1. ASSUME Init PROVE Recorded = {}
    BY <2>1, TimeAssumption DEF Init, Recorded
  <2> QED
    BY <2>1, InitHeld DEF HInv, RetryDiscipline
<1> QED
  BY <1>1, StepHInv, Invariance, PTL DEF Spec

\* An attempt follows another of its job and day only if that one failed in a
\* way worth retrying, and only after the backoff that follows it
\* (_job_status, _retry_delay_seconds), whatever the clock does, for every
\* budget and backoff.
THEOREM Disciplined == Spec => []RetryDiscipline
<1>1. HInv => RetryDiscipline
  BY DEF HInv
<1> QED
  BY HeldThroughout, <1>1, PTL

-----------------------------------------------------------------------------
(* Notifications *)

\* An outcome finishes its attempt and no other.
LEMMA FinishedByOutcome ==
  ASSUME IInv, NEW a \in Running, Ends(a)
  PROVE  Finished' \subseteq Finished \cup {a}
<1>1. attempts \in Histories
  BY DEF IInv, TypeOK, Histories
<1>2. PICK s \in Outcomes, t \in Nat : attempts' = Outcome(a, s, t)
  BY DEF Ends
<1>3. a \in Recorded /\ s \in Statuses
  BY DEF Running, Statuses
<1>4. /\ \A j \in Jobs, d \in Days : \A n \in 1..Len(attempts[j][d]) :
           <<j, d, n>> # a => attempts'[j][d][n] = attempts[j][d][n]
      /\ Recorded' = Recorded
  BY <1>1, <1>2, <1>3, OutcomeFields
<1>5. SUFFICES ASSUME NEW b \in Recorded, Status(b)' # "running", b # a
               PROVE  Status(b) # "running"
  BY <1>4 DEF Finished
<1>6. /\ b[1] \in Jobs /\ b[2] \in Days /\ b[3] \in 1..Len(attempts[b[1]][b[2]])
      /\ b = <<b[1], b[2], b[3]>>
  BY <1>1 DEF Recorded, Histories
<1>7. attempts'[b[1]][b[2]][b[3]] = attempts[b[1]][b[2]][b[3]]
  BY <1>4, <1>5, <1>6
<1> QED
  BY <1>5, <1>7 DEF Status

\* A start finishes none.
LEMMA FinishedByStart ==
  ASSUME IInv, thread = "start", attempts' = Started(active, now)
  PROVE  Finished' \subseteq Finished
<1> DEFINE old == attempts[active][Day(now)]
           new == attempts'[active][Day(now)]
           n == Len(old)
<1>1. /\ attempts \in Histories /\ active \in Jobs /\ now \in Readings /\ Day(now) \in Days
  BY DayType DEF IInv, InHand, TypeOK, Histories
<1>2. /\ n \in Nat /\ Len(new) = n + 1
      /\ new[n + 1] = [status |-> "running", started |-> now, completed |-> 0]
      /\ \A k \in 1..n : new[k] = old[k]
      /\ \A i \in Jobs, d \in Days :
           i # active \/ d # Day(now) => attempts'[i][d] = attempts[i][d]
  BY <1>1, StartedFields
<1>3. SUFFICES ASSUME NEW b \in Recorded', Status(b)' # "running"
               PROVE  b \in Recorded /\ Status(b) # "running"
  BY DEF Finished
<1>4. /\ b \in Jobs \X Days \X (1..MaxAttempts)
      /\ b[1] \in Jobs /\ b[2] \in Days /\ b[3] \in 1..MaxAttempts
      /\ b[3] <= Len(attempts'[b[1]][b[2]])
  BY DEF Recorded
<1>5. attempts'[b[1]][b[2]][b[3]].status # "running"
  BY <1>3 DEF Status
<1> HIDE DEF old, new, n
<1>6. CASE b[1] = active /\ b[2] = Day(now)
  <2>1. b[3] # n + 1
    BY <1>2, <1>5, <1>6 DEF new
  <2>2. b[3] \in 1..n
    BY <1>2, <1>4, <1>6, <2>1, TimeAssumption DEF new
  <2>3. attempts'[b[1]][b[2]][b[3]] = attempts[b[1]][b[2]][b[3]]
    BY <1>2, <1>6, <2>2 DEF new, old
  <2> QED
    BY <1>4, <1>5, <1>6, <2>2, <2>3 DEF Recorded, Status, n, old
<1>7. CASE b[1] # active \/ b[2] # Day(now)
  <2>1. attempts'[b[1]][b[2]] = attempts[b[1]][b[2]]
    BY <1>2, <1>4, <1>7
  <2> QED
    BY <1>4, <1>5, <2>1 DEF Recorded, Status
<1> QED
  BY <1>6, <1>7

\* Every step keeps the finished attempts known, as long as a write that fails
\* leaves nothing behind.
LEMMA StepNotForgotten ==
  ASSUME ~TornWrites, IInv, Held, FinishedNotForgotten, [Next]_vars
  PROVE  FinishedNotForgotten'
<1> USE DEF store, tick, hist, bounds
<1>1. cur = NoAttempt => cur \notin Recorded
  BY JobsAssumption DEF NoAttempt, NoJob, Recorded
<1>2. Opened => cur \in Running
  BY CurRunning
<1>3. thread # "notify" => cur \notin Finished
  BY <1>1, <1>2 DEF Held, Running, Finished
<1>4. UNCHANGED attempts => Finished' = Finished
  BY DEF Finished, Recorded, Status
<1>5. ASSUME UNCHANGED attempts, thread # "notify",
             cancel' # "stop" => cancel # "stop",
             observed \cup pending \subseteq observed' \cup pending'
      PROVE  FinishedNotForgotten'
  BY <1>3, <1>4, <1>5 DEF FinishedNotForgotten
<1>6. ASSUME UNCHANGED <<attempts, observed, pending, cur>>,
             cancel' # "stop" => cancel # "stop"
      PROVE  FinishedNotForgotten'
  BY <1>4, <1>6 DEF FinishedNotForgotten
<1>7. ASSUME cancel' = "stop" PROVE FinishedNotForgotten'
  BY <1>7 DEF FinishedNotForgotten
<1>8. CASE Boot
  BY <1>4, <1>8 DEF Boot, FinishedNotForgotten
<1>9. ASSUME NEW a \in Recorded, Recover(a) PROVE FinishedNotForgotten'
  <2>1. Ends(a) /\ a \in Running
    BY <1>9 DEF Recover, NextInterrupted, Interrupted, Ends, Outcomes, IInv, TypeOK
  <2>2. Finished' \subseteq Finished \cup {a}
    BY <2>1, FinishedByOutcome
  <2> QED
    BY <1>3, <1>9, <2>2 DEF Recover, FinishedNotForgotten
<1>10. CASE Finish
  <2>1. cur \in Running /\ Ends(cur)
    BY <1>2, <1>10 DEF Finish, Opened, Ends, IInv, InHand, TypeOK
  <2>2. Finished' \subseteq Finished \cup {cur}
    BY <2>1, FinishedByOutcome
  <2> QED
    BY <1>10, <2>2 DEF Finish, FinishedNotForgotten
<1>11. CASE Start
  <2>1. Finished' \subseteq Finished
    BY <1>11, FinishedByStart DEF Start
  <2> QED
    BY <1>3, <1>11, <2>1 DEF Start, FinishedNotForgotten
<1>12. CASE Notify
  BY <1>4, <1>12 DEF Notify, TickOver, FinishedNotForgotten
<1>13. CASE TickBegins
  <2>1. observed \cup pending \subseteq observed' \cup pending'
    BY <1>13 DEF TickBegins
  <2> QED
    BY <1>5, <1>13, <2>1 DEF TickBegins
<1>14. CASE Plan \/ TickEnds \/ FinishTooEarly
  BY <1>5, <1>14 DEF Plan, TickEnds, FinishTooEarly, TickOver
<1>15. ASSUME NEW a \in Recorded, RecoverTooEarly(a) PROVE FinishedNotForgotten'
  BY <1>5, <1>15 DEF RecoverTooEarly, TickOver
<1>16. ASSUME NEW j \in Jobs, Claim(j) PROVE FinishedNotForgotten'
  BY <1>6, <1>16 DEF Claim
<1>17. CASE WriteFault
  <2>1. UNCHANGED <<attempts, observed, pending, cancel>> /\ thread # "notify"
    BY <1>17 DEF WriteFault
  <2> QED
    BY <1>5, <2>1
<1>18. CASE Call \/ Return \/ ThreadEnds \/ ClockTicks \/ ClockStepsBack \/ UNCHANGED vars
  BY <1>6, <1>18 DEF Call, Return, ThreadEnds, ClockTicks, ClockStepsBack, vars
<1>19. CASE MemoryBreach \/ \E R \in SUBSET Jobs : Reconcile(R)
  BY <1>6, <1>19 DEF MemoryBreach, Reconcile
<1>20. CASE Stop \/ Deadline \/ Crash
  BY <1>7, <1>20 DEF Stop, Deadline, Crash, ProcessEnds
<1> QED
  BY <1>8, <1>9, <1>10, <1>11, <1>12, <1>13, <1>14, <1>15, <1>16, <1>17, <1>18, <1>19, <1>20
  DEF Next, ThreadStep

\* In a running service no finished attempt is forgotten by the observers
\* (_notify, _pending_notifications, the replay at the start): each is known to
\* them or kept for the next tick.  A failed write that leaves its record
\* behind is the exception, and is the assumption here.
THEOREM NoneForgotten ==
  ASSUME ~TornWrites
  PROVE  Spec => []FinishedNotForgotten
<1>1. Init => FinishedNotForgotten
  BY DEF Init, FinishedNotForgotten
<1>2. IInv /\ HInv /\ FinishedNotForgotten /\ [Next]_vars => FinishedNotForgotten'
  BY StepNotForgotten DEF HInv
<1> QED
  BY <1>1, <1>2, Invariance, HeldThroughout, PTL DEF Spec

-----------------------------------------------------------------------------
(* One attempt at a time *)

\* No attempt started after the clock's reading, each is filed under its day,
\* and at the start of one, none started after it.
Past ==
  /\ now <= clock
  /\ \A a \in Recorded : At(a).started <= clock /\ Day(At(a).started) = a[2]
  /\ thread = "start" => \A a \in Recorded : At(a).started <= now

\* At most one attempt runs, the latest of its job: a recovery finds it.  None
\* runs from the recovery to the next start.
Sole ==
  /\ \A a \in Running : Latest(a) /\ \A b \in Running : b = a
  /\ thread \in {"next", "start", "notify"} => Running = {}

LInv == Past /\ Sole

\* A recorded attempt has its place in the history.
LEMMA Placed ==
  ASSUME IInv, NEW a \in Recorded
  PROVE  /\ a[1] \in Jobs /\ a[2] \in Days /\ a[3] \in 1..Len(attempts[a[1]][a[2]])
         /\ a[3] \in Nat /\ a = <<a[1], a[2], a[3]>>
         /\ attempts[a[1]][a[2]] \in Seq(Attempt)
         /\ At(a) \in Attempt /\ At(a).started \in Nat
<1>1. /\ a[1] \in Jobs /\ a[2] \in Days /\ a[3] \in Nat
      /\ a[3] \in 1..Len(attempts[a[1]][a[2]]) /\ a = <<a[1], a[2], a[3]>>
  BY DEF Recorded
<1>2. attempts[a[1]][a[2]] \in Seq(Attempt)
  BY <1>1 DEF IInv, TypeOK
<1>3. At(a) \in Attempt
  BY <1>1, <1>2 DEF At
<1> QED
  BY <1>1, <1>2, <1>3 DEF Attempt

\* An outcome changes no start, and ends the one attempt that runs.
LEMMA EndsSole ==
  ASSUME IInv, LInv, NEW a \in Running, Ends(a)
  PROVE  /\ Recorded' = Recorded /\ Running' = {}
         /\ \A b \in Recorded : At(b)'.started = At(b).started
<1>1. attempts \in Histories
  BY DEF IInv, TypeOK, Histories
<1>2. PICK s \in Outcomes, t \in Nat : attempts' = Outcome(a, s, t)
  BY DEF Ends
<1>3. a \in Recorded /\ s \in Statuses
  BY DEF Running, Statuses
<1>4. /\ At(a)' = [status |-> s, started |-> At(a).started, completed |-> t]
      /\ \A j \in Jobs, d \in Days : \A n \in 1..Len(attempts[j][d]) :
           <<j, d, n>> # a => attempts'[j][d][n] = attempts[j][d][n]
      /\ Recorded' = Recorded
  BY <1>1, <1>2, <1>3, OutcomeFields
<1>5. ASSUME NEW b \in Recorded, b # a PROVE At(b)' = At(b)
  BY <1>4, <1>5, Placed DEF At
<1>6. At(a)'.started = At(a).started /\ At(a)'.status = s
  BY <1>4
<1>7. ASSUME NEW b \in Recorded, Status(b)' = "running" PROVE FALSE
  <2>1. b # a
    BY <1>6, <1>7 DEF Status, At, Outcomes
  <2>2. b \in Running
    BY <1>5, <1>7, <2>1 DEF Status, At, Running
  <2> QED
    BY <2>1, <2>2 DEF LInv, Sole
<1> QED
  BY <1>4, <1>5, <1>6, <1>7 DEF Running

\* A start records one attempt, the only one running and the latest of its job.
LEMMA StartSole ==
  ASSUME IInv, LInv, thread = "start", attempts' = Started(active, now)
  PROVE  /\ \A a \in Recorded' :
              At(a)'.started \in Nat /\ At(a)'.started <= now /\ Day(At(a)'.started) = a[2]
         /\ \A a \in Running' : Latest(a)' /\ \A b \in Running' : b = a
<1> DEFINE old == attempts[active][Day(now)]
           new == attempts'[active][Day(now)]
           n == Len(old)
<1>1. /\ attempts \in Histories /\ active \in Jobs /\ now \in Readings /\ now \in Nat
      /\ Day(now) \in Days
  BY DayType DEF IInv, InHand, TypeOK, Histories
<1>2. /\ n \in Nat /\ Len(new) = n + 1
      /\ new[n + 1] = [status |-> "running", started |-> now, completed |-> 0]
      /\ \A k \in 1..n : new[k] = old[k]
      /\ \A i \in Jobs, d \in Days :
           i # active \/ d # Day(now) => attempts'[i][d] = attempts[i][d]
  BY <1>1, StartedFields
<1>3. PICK c : /\ c = <<active, Day(now), n + 1>>
               /\ c[1] = active /\ c[2] = Day(now) /\ c[3] = n + 1
  <2> DEFINE e == <<active, Day(now), n + 1>>
  <2>1. e[1] = active /\ e[2] = Day(now) /\ e[3] = n + 1
    OBVIOUS
  <2> QED
    BY <2>1
<1> HIDE DEF n
<1>4. At(c)' = [status |-> "running", started |-> now, completed |-> 0]
  BY <1>2, <1>3 DEF At
<1>5. ASSUME NEW a \in Recorded', a # c
      PROVE  /\ a \in Recorded /\ At(a)' = At(a)
             /\ a[1] = active /\ a[2] = Day(now) => a[3] <= n
  <2>1. /\ a \in Jobs \X Days \X (1..MaxAttempts) /\ a = <<a[1], a[2], a[3]>>
        /\ a[1] \in Jobs /\ a[2] \in Days /\ a[3] \in 1..MaxAttempts
        /\ a[3] <= Len(attempts'[a[1]][a[2]])
    BY DEF Recorded
  <2>2. CASE a[1] = active /\ a[2] = Day(now)
    <3>1. a[3] # n + 1
      BY <1>3, <1>5, <2>1, <2>2
    <3>2. a[3] \in 1..n
      BY <1>2, <2>1, <2>2, <3>1, TimeAssumption
    <3> QED
      BY SMTT(40), <1>2, <2>1, <2>2, <3>2 DEF Recorded, At, n
  <2>3. CASE a[1] # active \/ a[2] # Day(now)
    <3>1. attempts'[a[1]][a[2]] = attempts[a[1]][a[2]]
      BY <1>2, <2>1, <2>3
    <3> QED
      BY <2>1, <2>3, <3>1 DEF Recorded, At
  <2> QED
    BY <2>2, <2>3
<1>6. ASSUME NEW a \in Recorded'
      PROVE  At(a)'.started \in Nat /\ At(a)'.started <= now /\ Day(At(a)'.started) = a[2]
  <2>1. CASE a = c
    BY <1>1, <1>3, <1>4, <2>1
  <2>2. CASE a # c
    BY <1>5, <2>2, Placed DEF LInv, Past
  <2> QED
    BY <2>1, <2>2
<1>7. ASSUME NEW a \in Running' PROVE a = c
  <2>1. a \in Recorded' /\ At(a)'.status = "running"
    BY DEF Running, Status, At
  <2>2. ASSUME a # c PROVE FALSE
    <3>1. a \in Recorded /\ At(a).status = "running"
      BY <1>5, <2>1, <2>2
    <3>2. a \in Running
      BY <3>1 DEF Running, Status, At
    <3> QED
      BY <3>2 DEF LInv, Sole
  <2> QED
    BY <2>2
<1>8. ASSUME c \in Recorded' PROVE Latest(c)'
  <2>1. SUFFICES ASSUME NEW b \in Recorded', b[1] = c[1] PROVE Before(b, c)'
    BY <1>8 DEF Latest
  <2>2. At(b)'.started < now \/ (At(b)'.started = now /\ b[3] <= c[3])
    <3>1. CASE b = c
      BY <1>1, <1>2, <1>3, <1>4, <3>1
    <3>2. CASE b # c
      <4>1. At(b)'.started <= now /\ At(b)'.started \in Nat /\ Day(At(b)'.started) = b[2]
        BY <1>6
      <4>2. b[3] \in Nat
        BY TimeAssumption DEF Recorded
      <4>3. At(b)'.started = now => b[3] <= n
        BY <1>3, <1>5, <2>1, <3>2, <4>1
      <4> QED
        BY <1>1, <1>2, <1>3, <4>1, <4>2, <4>3
    <3> QED
      BY <3>1, <3>2
  <2>3. At(c)'.started = now
    BY <1>4
  <2> QED
    BY <2>2, <2>3 DEF Before, At
<1>9. ASSUME NEW a \in Running' PROVE a \in Recorded'
  BY DEF Running
<1> QED
  BY <1>6, <1>7, <1>8, <1>9

\* Where the history is left alone, so is what runs.
LEMMA HistoryKept ==
  ASSUME UNCHANGED attempts
  PROVE  /\ Recorded' = Recorded /\ Running' = Running
         /\ \A a : At(a)' = At(a)
         /\ \A a : Latest(a) => Latest(a)'
BY DEF Recorded, Running, Status, At, Latest, Before

\* A step that leaves the history alone keeps the order, if time does not fall
\* back and no job is claimed while an attempt runs.
LEMMA LKept ==
  ASSUME IInv, LInv, UNCHANGED attempts,
         clock' \in Nat, clock <= clock', now' \in Nat, now' <= clock',
         thread' = "start" => now' = clock \/ (thread = "start" /\ now' = now),
         thread' \in {"next", "start", "notify"} => Running = {}
  PROVE  LInv'
<1>1. clock \in Nat /\ now \in Nat
  BY DEF IInv, TypeOK
<1>2. \A a \in Recorded : At(a).started \in Nat
  BY Placed
<1>3. Past'
  BY <1>1, <1>2, HistoryKept DEF LInv, Past
<1>4. Sole'
  BY HistoryKept DEF LInv, Sole
<1> QED
  BY <1>3, <1>4 DEF LInv

\* So does the end of the attempt that runs.
LEMMA LEnds ==
  ASSUME IInv, LInv, NEW a \in Running, Ends(a),
         UNCHANGED clock, now' \in Nat, now' <= clock, thread' # "start"
  PROVE  LInv'
BY EndsSole DEF LInv, Past, Sole

\* And the start of an attempt while none runs.
LEMMA LStarts ==
  ASSUME IInv, LInv, thread = "start", attempts' = Started(active, now),
         UNCHANGED clock, now' \in Nat, now' <= clock, thread' \in {"call", "idle"}
  PROVE  LInv'
<1>1. clock \in Nat /\ now \in Nat /\ now <= clock
  BY DEF IInv, TypeOK, LInv, Past
<1>2. /\ \A a \in Recorded' :
           At(a)'.started \in Nat /\ At(a)'.started <= now /\ Day(At(a)'.started) = a[2]
      /\ \A a \in Running' : Latest(a)' /\ \A b \in Running' : b = a
  BY StartSole
<1> QED
  BY <1>1, <1>2 DEF LInv, Past, Sole

\* If the clock is never set back, every step keeps the order of the history.
LEMMA StepLInv ==
  ASSUME MaxBacks = 0, IInv, Held, LInv, [Next]_vars
  PROVE  LInv'
<1> USE DEF store, tick, hist, bounds
<1>1. clock \in Nat /\ now \in Nat /\ now <= clock /\ backs \in Nat
  BY DEF IInv, TypeOK, LInv, Past
<1>2. thread \in {"next", "start", "notify"} => Running = {}
  BY DEF LInv, Sole
<1>3. Opened => cur \in Running
  BY CurRunning
<1>4. CASE ClockTicks
  BY <1>1, <1>2, <1>4, LKept DEF ClockTicks
<1>5. ~ClockStepsBack
  BY <1>1 DEF ClockStepsBack
<1>6. CASE Boot \/ Deadline \/ Crash
  BY <1>1, <1>6, LKept DEF Boot, Deadline, Crash, ProcessEnds
<1>7. CASE Stop \/ MemoryBreach \/ UNCHANGED vars \/ \E R \in SUBSET Jobs : Reconcile(R)
  BY <1>1, <1>2, <1>7, LKept DEF Stop, MemoryBreach, Reconcile, vars
<1>8. CASE ThreadEnds \/ TickBegins \/ TickEnds \/ FinishTooEarly
  BY <1>1, <1>8, LKept DEF ThreadEnds, TickBegins, TickEnds, FinishTooEarly, TickOver
<1>9. CASE Plan
  <2>1. Running = {}
    BY <1>9 DEF Plan, Interrupted, LInv, Sole
  <2> QED
    BY <1>1, <1>9, <2>1, LKept DEF Plan
<1>10. ASSUME NEW a \in Recorded, Recover(a) PROVE LInv'
  <2>1. a \in Running /\ Ends(a)
    BY <1>1, <1>10 DEF Recover, NextInterrupted, Interrupted, Ends, Outcomes
  <2> QED
    BY <1>1, <1>10, <2>1, LEnds DEF Recover
<1>11. ASSUME NEW a \in Recorded, RecoverTooEarly(a) PROVE LInv'
  BY <1>1, <1>11, LKept DEF RecoverTooEarly, TickOver
<1>12. ASSUME NEW j \in Jobs, Claim(j) PROVE LInv'
  <2>1. Running = {} /\ now' = clock /\ UNCHANGED <<attempts, clock>>
    BY <1>2, <1>12 DEF Claim
  <2> QED
    BY <1>1, <2>1, LKept
<1>13. CASE Start
  BY <1>1, <1>13, LStarts DEF Start
<1>14. CASE Call \/ Return
  BY <1>1, <1>14, LKept DEF Call, Return
<1>15. CASE Finish
  <2>1. cur \in Running /\ Ends(cur)
    BY <1>1, <1>3, <1>15 DEF Finish, Opened, Ends, IInv, InHand
  <2> QED
    BY <1>1, <1>15, <2>1, LEnds DEF Finish
<1>16. CASE Notify
  BY <1>1, <1>2, <1>16, LKept DEF Notify, TickOver
<1>17. CASE WriteFault
  <2>1. now' = 0 /\ thread' = "idle" /\ UNCHANGED clock
    BY <1>17 DEF WriteFault, TickOver
  <2>2. CASE UNCHANGED attempts
    BY <1>1, <2>1, <2>2, LKept
  <2>3. CASE \E a \in Running : Ends(a)
    BY <1>1, <2>1, <2>3, LEnds
  <2>4. CASE thread = "start" /\ attempts' = Started(active, now)
    BY <1>1, <2>1, <2>4, LStarts
  <2> QED
    BY <2>2, <2>3, <2>4, StepHistory
<1> QED
  BY <1>4, <1>5, <1>6, <1>7, <1>8, <1>9, <1>10, <1>11, <1>12, <1>13, <1>14, <1>15, <1>16,
     <1>17
  DEF Next, ThreadStep

\* If the clock is never set back, at most one attempt runs in all the history.
THEOREM OneAtATime ==
  ASSUME MaxBacks = 0
  PROVE  Spec => []LInv
<1>1. Init => LInv
  <2> SUFFICES ASSUME Init PROVE LInv
    OBVIOUS
  <2>1. Recorded = {}
    BY TimeAssumption DEF Init, Recorded
  <2>2. Running = {}
    BY <2>1 DEF Running
  <2> QED
    BY <2>1, <2>2 DEF Init, LInv, Past, Sole
<1>2. IInv /\ HInv /\ LInv /\ [Next]_vars => LInv'
  BY StepLInv DEF HInv
<1> QED
  BY <1>1, <1>2, Invariance, HeldThroughout, PTL DEF Spec

-----------------------------------------------------------------------------
(* The ledger *)

MarksOf(q) == [n \in DOMAIN q |-> q[n].status]
Marks == [j \in Jobs |-> [d \in Days |-> MarksOf(attempts[j][d])]]

\* The marks of a day are its attempts' statuses, in their order.
LEMMA MarkSeq ==
  ASSUME NEW q \in Seq(Attempt)
  PROVE  /\ MarksOf(q) \in Seq(Statuses) /\ Len(MarksOf(q)) = Len(q) /\ Len(q) \in Nat
         /\ DOMAIN MarksOf(q) = 1..Len(q)
         /\ \A n \in 1..Len(q) : MarksOf(q)[n] = q[n].status
<1>1. Len(q) \in Nat /\ DOMAIN q = 1..Len(q)
  OBVIOUS
<1>2. ASSUME NEW n \in 1..Len(q) PROVE q[n].status \in Statuses
  <2>1. q[n] \in Attempt
    OBVIOUS
  <2> QED
    BY <2>1 DEF Attempt
<1>3. MarksOf(q) = [n \in 1..Len(q) |-> q[n].status]
  BY <1>1 DEF MarksOf
<1> QED
  BY <1>1, <1>2, <1>3

\* A new attempt adds a mark ...
LEMMA MarkAppend ==
  ASSUME NEW q \in Seq(Attempt), NEW r \in Attempt
  PROVE  MarksOf(Append(q, r)) = Append(MarksOf(q), r.status)
<1> DEFINE p == Append(q, r)
           m == Append(MarksOf(q), r.status)
<1>1. Len(q) \in Nat /\ p \in Seq(Attempt) /\ Len(p) = Len(q) + 1 /\ p[Len(q) + 1] = r
      /\ \A n \in 1..Len(q) : p[n] = q[n]
  OBVIOUS
<1>2. r.status \in Statuses
  BY DEF Attempt
<1>3. /\ MarksOf(p) \in Seq(Statuses) /\ Len(MarksOf(p)) = Len(q) + 1
      /\ \A n \in 1..(Len(q) + 1) : MarksOf(p)[n] = p[n].status
  BY <1>1, MarkSeq
<1>4. /\ MarksOf(q) \in Seq(Statuses) /\ Len(MarksOf(q)) = Len(q)
      /\ \A n \in 1..Len(q) : MarksOf(q)[n] = q[n].status
  BY MarkSeq
<1> HIDE DEF p
<1>5. /\ m \in Seq(Statuses) /\ Len(m) = Len(q) + 1 /\ m[Len(q) + 1] = r.status
      /\ \A n \in 1..Len(q) : m[n] = q[n].status
  BY <1>1, <1>2, <1>4
<1>6. ASSUME NEW n \in 1..(Len(q) + 1) PROVE MarksOf(p)[n] = m[n]
  <2>1. CASE n \in 1..Len(q)
    BY <1>1, <1>3, <1>5, <2>1
  <2>2. CASE n = Len(q) + 1
    BY <1>1, <1>3, <1>5, <2>2
  <2>3. n \in 1..Len(q) \/ n = Len(q) + 1
    BY <1>1
  <2> QED
    BY <2>1, <2>2, <2>3
<1> HIDE DEF m
<1>7. MarksOf(p) = m
  BY <1>3, <1>5, <1>6, SeqEqual
<1> QED
  BY <1>7 DEF p, m

\* ... and an outcome changes one.
LEMMA MarkEnd ==
  ASSUME NEW q \in Seq(Attempt), NEW k \in 1..Len(q), NEW r \in Attempt
  PROVE  MarksOf([q EXCEPT ![k] = r]) = [MarksOf(q) EXCEPT ![k] = r.status]
<1> DEFINE p == [q EXCEPT ![k] = r]
           m == [MarksOf(q) EXCEPT ![k] = r.status]
<1>1. Len(q) \in Nat /\ p \in Seq(Attempt) /\ Len(p) = Len(q) /\ p[k] = r
      /\ \A n \in 1..Len(q) : n # k => p[n] = q[n]
  OBVIOUS
<1>2. r.status \in Statuses
  BY DEF Attempt
<1>3. /\ MarksOf(p) \in Seq(Statuses) /\ Len(MarksOf(p)) = Len(q)
      /\ \A n \in 1..Len(q) : MarksOf(p)[n] = p[n].status
  BY <1>1, MarkSeq
<1>4. /\ MarksOf(q) \in Seq(Statuses) /\ Len(MarksOf(q)) = Len(q)
      /\ \A n \in 1..Len(q) : MarksOf(q)[n] = q[n].status
  BY MarkSeq
<1> HIDE DEF p
<1>5. /\ m \in Seq(Statuses) /\ Len(m) = Len(q) /\ m[k] = r.status
      /\ \A n \in 1..Len(q) : n # k => m[n] = q[n].status
  BY <1>1, <1>2, <1>4
<1>6. ASSUME NEW n \in 1..Len(q) PROVE MarksOf(p)[n] = m[n]
  BY <1>1, <1>3, <1>5
<1> HIDE DEF m
<1>7. MarksOf(p) = m
  BY <1>3, <1>5, <1>6, SeqEqual
<1> QED
  BY <1>7 DEF p, m

\* A change of one day of the history changes its marks.
LEMMA MarksChanged ==
  ASSUME attempts \in Histories, NEW j \in Jobs, NEW d \in Days, NEW q,
         attempts' = [attempts EXCEPT ![j] = [attempts[j] EXCEPT ![d] = q]]
  PROVE  Marks' = [Marks EXCEPT ![j] = [Marks[j] EXCEPT ![d] = MarksOf(q)]]
<1>1. /\ attempts'[j][d] = q
      /\ \A i \in Jobs, e \in Days : i # j \/ e # d => attempts'[i][e] = attempts[i][e]
  BY DEF Histories
<1> DEFINE row == [Marks[j] EXCEPT ![d] = MarksOf(q)]
           new == [Marks EXCEPT ![j] = row]
<1>2. row = [e \in Days |-> MarksOf(attempts'[j][e])]
  BY <1>1 DEF Marks
<1>3. ASSUME NEW i \in Jobs, i # j
      PROVE  [e \in Days |-> MarksOf(attempts[i][e])]
               = [e \in Days |-> MarksOf(attempts'[i][e])]
  BY <1>1, <1>3
<1>4. Marks' = [i \in Jobs |-> [e \in Days |-> MarksOf(attempts'[i][e])]]
  BY DEF Marks, MarksOf
<1>5. new = [i \in Jobs |-> [e \in Days |-> MarksOf(attempts'[i][e])]]
  BY <1>2, <1>3 DEF Marks
<1> QED
  BY <1>4, <1>5

\* The first history is the ledger's.
LEMMA LedgerInit == Init => Ledger!Init
<1> SUFFICES ASSUME Init PROVE Marks = [j \in Jobs |-> [d \in Days |-> <<>>]]
  BY DEF Ledger!Init, Marks, MarksOf
<1>1. ASSUME NEW j \in Jobs, NEW d \in Days PROVE MarksOf(attempts[j][d]) = <<>>
  <2>1. attempts[j][d] = <<>> /\ attempts[j][d] \in Seq(Attempt)
    BY DEF Init
  <2>2. MarksOf(attempts[j][d]) \in Seq(Statuses) /\ Len(MarksOf(attempts[j][d])) = 0
    BY <2>1, MarkSeq
  <2> HIDE DEF MarksOf
  <2> QED
    BY <2>2
<1> QED
  BY <1>1 DEF Marks

\* The end of a running attempt is a Finish of the ledger.
LEMMA LedgerEnds ==
  ASSUME IInv, NEW a \in Running, Ends(a)
  PROVE  Ledger!Next
<1> DEFINE old == attempts[a[1]][a[2]]
<1>1. attempts \in Histories
  BY DEF IInv, TypeOK, Histories
<1>2. PICK s \in Outcomes, t \in Nat : attempts' = Outcome(a, s, t)
  BY DEF Ends
<1>3. /\ a[1] \in Jobs /\ a[2] \in Days /\ a[3] \in 1..Len(old)
      /\ old \in Seq(Attempt) /\ s \in Statuses
      /\ old[a[3]].status = "running"
  BY Placed DEF Running, Statuses, Status
<1> DEFINE end == End(old[a[3]], s, t)
           new == [old EXCEPT ![a[3]] = end]
<1>4. Ended(old, a[3], s, t) = new /\ end \in Attempt
  BY <1>3, EndedFields
<1>5. attempts' = [attempts EXCEPT ![a[1]] = [attempts[a[1]] EXCEPT ![a[2]] =
                      Ended(old, a[3], s, t)]]
  BY <1>2 DEF Outcome, Ended
<1>6. Marks' = [Marks EXCEPT ![a[1]] = [Marks[a[1]] EXCEPT ![a[2]] = MarksOf(new)]]
  BY ZenonT(60), <1>1, <1>3, <1>4, <1>5, MarksChanged
<1>7. end.status = s
  BY DEF End
<1>8. MarksOf(new) = [MarksOf(old) EXCEPT ![a[3]] = s]
  BY <1>3, <1>4, <1>7, MarkEnd
<1>9. Marks[a[1]][a[2]] = MarksOf(old)
  BY <1>3 DEF Marks
<1>10. a[3] \in DOMAIN MarksOf(old) /\ MarksOf(old)[a[3]] = "running"
  BY <1>3, MarkSeq
<1> HIDE DEF old, end, new
<1>11. Marks' = [Marks EXCEPT ![a[1]] = [Marks[a[1]] EXCEPT ![a[2]] =
                   [Marks[a[1]][a[2]] EXCEPT ![a[3]] = s]]]
  BY <1>6, <1>8, <1>9
<1>12. Marks[a[1]][a[2]][a[3]] = "running" /\ a[3] \in DOMAIN Marks[a[1]][a[2]]
  BY <1>9, <1>10
<1>13. Ledger!Finish(a[1], a[2], a[3], s)
  BY <1>11, <1>12 DEF Ledger!Finish, Marks, MarksOf
<1>14. a[3] \in DOMAIN Marks[a[1]][a[2]] /\ s \in {"succeeded", "failed", "blocked"}
  BY <1>12 DEF Outcomes
<1> QED
  BY <1>3, <1>13, <1>14 DEF Ledger!Next, Marks, MarksOf

\* A start adds a running mark.
LEMMA StartMarks ==
  ASSUME attempts \in Histories, NEW j \in Jobs, NEW d \in Days, NEW r \in Attempt,
         attempts' = [attempts EXCEPT ![j] = [attempts[j] EXCEPT ![d] =
                        Append(attempts[j][d], r)]]
  PROVE  Marks' = [Marks EXCEPT ![j] = [Marks[j] EXCEPT ![d] = Append(Marks[j][d], r.status)]]
<1>1. Marks' = [Marks EXCEPT ![j] = [Marks[j] EXCEPT ![d] =
                   MarksOf(Append(attempts[j][d], r))]]
  BY ZenonT(60), MarksChanged
<1>2. attempts[j][d] \in Seq(Attempt)
  BY DEF Histories
<1>3. MarksOf(Append(attempts[j][d], r)) = Append(MarksOf(attempts[j][d]), r.status)
  BY <1>2, MarkAppend
<1>4. Marks[j][d] = MarksOf(attempts[j][d])
  BY DEF Marks
<1> QED
  BY <1>1, <1>3, <1>4

Starts == thread = "start" /\ attempts' = Started(active, now)

\* The start of a due job while nothing runs is a Start of the ledger.
LEMMA LedgerStarts ==
  ASSUME IInv, Held, LInv, Starts
  PROVE  Ledger!Next
<1>0. PICK j \in Jobs, e \in Days : j = active /\ e = Day(now)
  BY DayType DEF IInv, InHand, Starts
<1> DEFINE old == attempts[j][e]
           at == [status |-> "running", started |-> now, completed |-> 0]
<1>1. /\ attempts \in Histories /\ now \in Nat
      /\ Len(old) < MaxAttempts /\ old \in Seq(Attempt)
  BY <1>0 DEF IInv, InHand, TypeOK, Histories, Starts
<1>2. at \in Attempt /\ at.status = "running"
  BY <1>1 DEF Attempt, Statuses
<1>3. attempts' = [attempts EXCEPT ![j] = [attempts[j] EXCEPT ![e] =
                     Append(attempts[j][e], at)]]
  BY <1>0 DEF Starts, Started
<1>4. Marks[j][e] = MarksOf(old)
  BY <1>1 DEF Marks
<1>5. Marks' = [Marks EXCEPT ![j] = [Marks[j] EXCEPT ![e] = Append(Marks[j][e], "running")]]
  <2> HIDE DEF at
  <2>1. Marks' = [Marks EXCEPT ![j] = [Marks[j] EXCEPT ![e] = Append(Marks[j][e], at.status)]]
    BY ZenonT(60), <1>0, <1>1, <1>2, <1>3, StartMarks
  <2> QED
    BY <1>2, <2>1
<1>6. /\ MarksOf(old) \in Seq(Statuses) /\ Len(MarksOf(old)) = Len(old) /\ Len(old) \in Nat
      /\ \A n \in 1..Len(old) : MarksOf(old)[n] = old[n].status
  BY <1>1, MarkSeq
<1>7. old = <<>> \/ old[Len(old)].status = "failed"
  BY <1>0 DEF Held, Due, Starts
<1>8. MarksOf(old) = <<>> \/ MarksOf(old)[Len(MarksOf(old))] = "failed"
  <2>1. CASE Len(old) = 0
    BY <1>6, <2>1
  <2>2. CASE Len(old) # 0
    <3>1. Len(old) \in 1..Len(old) /\ old # <<>>
      BY <1>1, <1>6, <2>2
    <3> QED
      BY <1>6, <1>7, <3>1
  <2> QED
    BY <2>1, <2>2
<1>9. Ledger!Retryable(Marks[j][e]) /\ Len(Marks[j][e]) < MaxAttempts
  BY <1>1, <1>4, <1>6, <1>8 DEF Ledger!Retryable
<1>10. ASSUME NEW i \in Jobs, NEW d \in Days, NEW n \in DOMAIN Marks[i][d],
              Marks[i][d][n] = "running"
       PROVE  FALSE
  <2>1. attempts[i][d] \in Seq(Attempt)
    BY <1>1 DEF Histories
  <2>2. Marks[i][d] = MarksOf(attempts[i][d])
    BY DEF Marks
  <2>3. n \in 1..Len(attempts[i][d]) /\ attempts[i][d][n].status = "running"
    BY <1>10, <2>1, <2>2, MarkSeq
  <2>4. Len(attempts[i][d]) <= MaxAttempts /\ Len(attempts[i][d]) \in Nat
    BY Counted
  <2>5. n \in 1..MaxAttempts /\ n <= Len(attempts[i][d])
    BY <2>3, <2>4, TimeAssumption
  <2>6. <<i, d, n>> \in Running
    BY <2>3, <2>5 DEF Running, Recorded, Status
  <2> QED
    BY <2>6 DEF LInv, Sole, Starts
<1>11. Ledger!Start(j, e)
  <2>1. \A i \in Jobs, d \in Days : ~Ledger!Running(i, d)
    BY <1>10 DEF Ledger!Running, Marks, MarksOf
  <2> QED
    BY <1>5, <1>9, <2>1 DEF Ledger!Start, Marks, MarksOf
<1> QED
  BY <1>11 DEF Ledger!Next

\* If the clock is never set back, every step is a step of the ledger or leaves
\* it alone: attempts run one at a time, each once, in a budget, and what is
\* recorded stays (module JobLedger).
THEOREM Implementation ==
  ASSUME MaxBacks = 0
  PROVE  Spec => ImplementsJobLedger
<1> DEFINE LedgerStep == [Ledger!Next]_Marks
<1>1. IInv /\ HInv /\ LInv /\ [Next]_vars => LedgerStep
  <2> SUFFICES ASSUME IInv, HInv, LInv, [Next]_vars
               PROVE  Ledger!Next \/ UNCHANGED Marks
    OBVIOUS
  <2>1. CASE UNCHANGED attempts
    BY <2>1 DEF Marks, MarksOf
  <2> QED
    BY <2>1, StepHistory, LedgerEnds, LedgerStarts DEF HInv, Starts
<1> QED
  BY LedgerInit, <1>1, Invariance, HeldThroughout, OneAtATime, PTL
  DEF Spec, ImplementsJobLedger, Ledger!Spec, Marks, MarksOf
=============================================================================
