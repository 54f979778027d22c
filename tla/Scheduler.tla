------------------------------ MODULE Scheduler ------------------------------
(***************************************************************************)
(* MultiAssetScheduler (application/multi_asset_scheduler.py) in the       *)
(* process of scripts/serve_investment_analyst.py: one thread ticks, runs  *)
(* every due job and records its attempts; HTTP threads replace the        *)
(* registry of jobs; signals and kills end the process, which a supervisor *)
(* starts again.                                                           *)
(*                                                                         *)
(* The attempts are what the journal (module Journal) holds.  The process  *)
(* lock allows one scheduler, the only writer.  A local day is DayLength   *)
(* readings of the clock, and the clock may step back.                     *)
(***************************************************************************)
EXTENDS Naturals, Sequences, FiniteSets

CONSTANTS
  Jobs,           \* job ids, ordered like their text
  DayLength,      \* clock readings in a local day
  RunAt,          \* the reading of a day from which its jobs are due
  MaxAttempts,    \* max_attempts_per_day
  Backoff,        \* retry_backoff_seconds
  MemoryCeiling,  \* --memory-ceiling-mb is given
  TornWrites,     \* a failed append may have left its record in the journal
  MaxClock,       \* bound: the last reading of the clock
  MaxBacks,       \* bound: steps back of the clock
  MaxCrashes,     \* bound: kills and stops of the process
  MaxFaults       \* bound: failed writes and failed observers

NoJob == 0

ASSUME JobsAssumption == Jobs \subseteq Nat \ {0} /\ Jobs # {} /\ IsFiniteSet(Jobs)
ASSUME TimeAssumption ==
  /\ DayLength \in Nat \ {0} /\ RunAt \in Nat /\ RunAt < DayLength
  /\ MaxAttempts \in Nat \ {0} /\ Backoff \in Nat \ {0}
ASSUME SchedulerBounds ==
  /\ MaxClock \in Nat /\ MaxBacks \in Nat /\ MaxCrashes \in Nat /\ MaxFaults \in Nat
  /\ MemoryCeiling \in BOOLEAN /\ TornWrites \in BOOLEAN

VARIABLES
  attempts,   \* durable: the attempts of each job on each local day
  observed,   \* durable: the finished attempts every observer has taken
  registry,   \* the registered jobs (restored from the preferences at start)
  clock,      \* the wall clock
  thread,     \* where the scheduler thread is; "off" when there is none
  cancel,     \* why its operation control is cancelled, "no" if it is not
  now,        \* the reading of the clock the current step works with
  jobs,       \* the registry this tick works with
  queue,      \* the due jobs of this tick that are still to run
  active,     \* _active_job_id
  cur,        \* the attempt in hand: job, day, number
  outcome,    \* what the run of that attempt came to
  pending,    \* _pending_notifications
  calls,      \* history: how often each job's provider was called on each day
  withdrawn,  \* history: the jobs a registry left out while they were not active
  backs, crashes, faults  \* bounds used so far

store == <<attempts, observed>>
tick == <<now, jobs, queue, active, cur, outcome>>
hist == <<calls, withdrawn>>
bounds == <<backs, crashes, faults>>
vars == <<attempts, observed, registry, clock, thread, cancel, now, jobs, queue,
          active, cur, outcome, pending, calls, withdrawn, backs, crashes, faults>>

Day(t) == t \div DayLength
Days == 0..Day(MaxClock)
Scheduled(d) == d * DayLength + RunAt
Outcomes == {"succeeded", "failed", "blocked"}  \* failed: retryable
NoAttempt == <<NoJob, 0, 0>>

Status(a) == attempts[a[1]][a[2]][a[3]].status
Recorded == {a \in Jobs \X Days \X (1..MaxAttempts) : a[3] <= Len(attempts[a[1]][a[2]])}
Finished == {a \in Recorded : Status(a) # "running"}
Running == {a \in Recorded : Status(a) = "running"}

\* The order of the history, for attempts of one job.
Before(a, b) ==
  LET s == attempts[a[1]][a[2]][a[3]].started
      t == attempts[b[1]][b[2]][b[3]].started
  IN  s < t \/ (s = t /\ a[3] <= b[3])

\* _latest_by_job
Latest(a) == a \in Recorded /\ \A b \in Recorded : b[1] = a[1] => Before(b, a)

\* Fault: the comparison with the active job is the wrong way round.
InterruptedActive == {a \in Running : Latest(a) /\ a[1] = active}

\* Running, although no job is active while a tick recovers.
Interrupted == {a \in Running : Latest(a)}

\* _retry_delay_seconds
Delay(n) == Backoff * 2 ^ (n - 1)

\* Fault: the delay runs from the start of the attempt.
DueFromStart(j, t) ==
  LET today == attempts[j][Day(t)]
      last == today[Len(today)]
  IN  /\ t >= Scheduled(Day(t))
      /\ \/ today = <<>>
         \/ /\ last.status = "failed"
            /\ Len(today) < MaxAttempts
            /\ t >= last.started + Delay(Len(today))

\* Fault: a job that failed for good is tried again.
DueWhenBlocked(j, t) ==
  LET today == attempts[j][Day(t)]
      last == today[Len(today)]
  IN  /\ t >= Scheduled(Day(t))
      /\ \/ today = <<>>
         \/ /\ last.status \in {"failed", "blocked"}
            /\ Len(today) < MaxAttempts
            /\ t >= last.completed + Delay(Len(today))

\* Fault: a job is due only at the reading it is scheduled for.
DueOnTheMinute(j, t) == t = Scheduled(Day(t)) /\ attempts[j][Day(t)] = <<>>

\* _job_status: the job is due at this reading of the clock.
Due(j, t) ==
  LET today == attempts[j][Day(t)]
      last == today[Len(today)]
  IN  /\ t >= Scheduled(Day(t))
      /\ \/ today = <<>>
         \/ /\ last.status = "failed"
            /\ Len(today) < MaxAttempts
            /\ t >= last.completed + Delay(Len(today))

-----------------------------------------------------------------------------
Init ==
  /\ attempts = [j \in Jobs |-> [d \in Days |-> <<>>]]
  /\ observed = {}
  /\ registry = Jobs
  /\ clock = 0
  /\ thread = "off"
  /\ cancel = "stop"
  /\ now = 0
  /\ jobs = {}
  /\ queue = {}
  /\ active = NoJob
  /\ cur = NoAttempt
  /\ outcome = "none"
  /\ pending = {}
  /\ calls = [j \in Jobs |-> [d \in Days |-> 0]]
  /\ withdrawn = {}
  /\ backs = 0
  /\ crashes = 0
  /\ faults = 0

-----------------------------------------------------------------------------
(* The clock, the process, the registry *)

ClockTicks ==
  /\ clock < MaxClock
  /\ clock' = clock + 1
  /\ UNCHANGED <<store, registry, thread, cancel, tick, pending, hist, bounds>>

ClockStepsBack ==
  /\ backs < MaxBacks
  /\ clock' \in 0..(clock - 1)
  /\ backs' = backs + 1
  /\ UNCHANGED <<store, registry, thread, cancel, tick, pending, hist, crashes, faults>>

\* The process is gone, or has not started: there is no thread to come back.
Down == thread = "off" /\ cancel = "stop"

ProcessEnds ==
  /\ thread' = "off"
  /\ cancel' = "stop"
  /\ pending' = {}
  /\ now' = 0
  /\ jobs' = {}
  /\ queue' = {}
  /\ active' = NoJob
  /\ cur' = NoAttempt
  /\ outcome' = "none"

\* The service starts: every observer is given the finished attempts again.
Boot ==
  /\ Down
  /\ observed' = observed \cup Finished
  /\ thread' = "idle"
  /\ cancel' = "no"
  /\ pending' = {}
  /\ UNCHANGED <<attempts, registry, clock, tick, hist, bounds>>

\* SIGTERM or SIGINT: the stop event cancels the thread's operation control.
Stop ==
  /\ ~Down
  /\ cancel # "stop"
  /\ crashes < MaxCrashes
  /\ crashes' = crashes + 1
  /\ cancel' = "stop"
  /\ UNCHANGED <<store, registry, clock, thread, tick, pending, hist, backs, faults>>

\* The shutdown deadline passes: the daemon thread dies where it stands.
Deadline ==
  /\ cancel = "stop"
  /\ thread # "off"
  /\ ProcessEnds
  /\ UNCHANGED <<store, registry, clock, hist, bounds>>

Crash ==
  /\ ~Down
  /\ crashes < MaxCrashes
  /\ crashes' = crashes + 1
  /\ ProcessEnds
  /\ UNCHANGED <<store, registry, clock, hist, backs, faults>>

\* reconcile_jobs, after the preferences are saved: never an empty registry.
Reconcile(R) ==
  /\ ~Down
  /\ R # registry
  /\ registry' = R
  /\ withdrawn' = {j \in Jobs \ R : j # active}
  /\ UNCHANGED <<store, clock, thread, cancel, tick, pending, calls, bounds>>

-----------------------------------------------------------------------------
(* A tick *)

Fails == faults < MaxFaults /\ faults' = faults + 1

\* tick is left, by its end or an exception, which run_forever catches: what it
\* held is gone and the active job is released.
TickOver ==
  /\ thread' = "idle"
  /\ now' = 0
  /\ jobs' = {}
  /\ queue' = {}
  /\ active' = NoJob
  /\ cur' = NoAttempt
  /\ outcome' = "none"

\* run_forever's condition: a cancelled control ends the thread.
ThreadEnds ==
  /\ thread = "idle"
  /\ cancel # "no"
  /\ thread' = "off"
  /\ UNCHANGED <<store, registry, clock, cancel, tick, pending, hist, bounds>>

\* Fault: a failed notification is given up.
TickBeginsGivingUp ==
  /\ thread = "idle"
  /\ cancel = "no"
  /\ pending' = {}
  /\ now' = clock
  /\ jobs' = registry
  /\ thread' = "recover"
  /\ UNCHANGED <<store, registry, clock, cancel, queue, active, cur, outcome, hist, bounds>>

\* A tick notifies again what failed, reads the clock and takes the registry.
TickBegins ==
  /\ thread = "idle"
  /\ cancel = "no"
  /\ \/ observed' = observed \cup pending /\ pending' = {} /\ UNCHANGED faults
     \/ \E A \in SUBSET pending \ {{}} :
          /\ Fails
          /\ observed' = observed \cup (pending \ A)
          /\ pending' = A
  /\ now' = clock
  /\ jobs' = registry
  /\ thread' = "recover"
  /\ UNCHANGED <<attempts, registry, clock, cancel, queue, active, cur, outcome, hist,
                 backs, crashes>>

Outcome(a, s, t) ==
  [attempts EXCEPT ![a[1]] = [attempts[a[1]] EXCEPT ![a[2]] =
     [attempts[a[1]][a[2]] EXCEPT ![a[3]].status = s, ![a[3]].completed = t]]]

\* _recover_interrupted takes the jobs in their order.
NextInterrupted(a) == a \in Interrupted /\ \A b \in Interrupted : a[1] <= b[1]

\* An attempt found running is recorded as interrupted, which is retryable.
Recover(a) ==
  /\ thread = "recover"
  /\ NextInterrupted(a)
  /\ now >= attempts[a[1]][a[2]][a[3]].started
  /\ attempts' = Outcome(a, "failed", now)
  /\ cur' = a
  /\ thread' = "notify"
  /\ UNCHANGED <<observed, registry, clock, cancel, now, jobs, queue, active, outcome,
                 pending, hist, bounds>>

\* It started later than the clock reads now: no such attempt validates.
RecoverTooEarly(a) ==
  /\ thread = "recover"
  /\ NextInterrupted(a)
  /\ now < attempts[a[1]][a[2]][a[3]].started
  /\ TickOver
  /\ UNCHANGED <<store, registry, clock, cancel, pending, hist, bounds>>

\* Nothing is interrupted any more: the due jobs of the tick are listed.
Plan ==
  /\ thread = "recover"
  /\ Interrupted = {}
  /\ queue' = {j \in jobs : Due(j, now)}
  /\ thread' = "next"
  /\ UNCHANGED <<store, registry, clock, cancel, now, jobs, active, cur, outcome, pending,
                 hist, bounds>>

NextDue(j) == j \in queue /\ \A i \in queue : j <= i

\* Fault: the claim does not look at the registry again.
ClaimSnapshot(j) ==
  /\ thread = "next"
  /\ cancel = "no"
  /\ NextDue(j)
  /\ queue' = queue \ {j}
  /\ now' = clock
  /\ IF Due(j, clock)
     THEN active' = j /\ thread' = "start"
     ELSE UNCHANGED <<active, thread>>
  /\ UNCHANGED <<store, registry, clock, cancel, jobs, cur, outcome, pending, hist, bounds>>

\* The clock is read again; the job runs if it is still due and registered.
Claim(j) ==
  /\ thread = "next"
  /\ cancel = "no"
  /\ NextDue(j)
  /\ queue' = queue \ {j}
  /\ now' = clock
  /\ IF Due(j, clock) /\ j \in registry
     THEN active' = j /\ thread' = "start"
     ELSE UNCHANGED <<active, thread>>
  /\ UNCHANGED <<store, registry, clock, cancel, jobs, cur, outcome, pending, hist, bounds>>

\* The queue is done, or the control is cancelled before the next job.
TickEnds ==
  /\ thread = "next"
  /\ queue = {} \/ cancel # "no"
  /\ TickOver
  /\ UNCHANGED <<store, registry, clock, cancel, pending, hist, bounds>>

-----------------------------------------------------------------------------
(* _run_job *)

Started(j, t) ==
  [attempts EXCEPT ![j] = [attempts[j] EXCEPT ![Day(t)] =
     Append(attempts[j][Day(t)], [status |-> "running", started |-> t, completed |-> 0])]]

Called(j, d) == [calls EXCEPT ![j] = [calls[j] EXCEPT ![d] = calls[j][d] + 1]]

\* Fault: the provider is called before the attempt is recorded.
StartLate ==
  /\ thread = "start"
  /\ calls' = Called(active, Day(now))
  /\ \/ /\ attempts' = Started(active, now)
        /\ cur' = <<active, Day(now), Len(attempts[active][Day(now)]) + 1>>
        /\ thread' = "call"
        /\ UNCHANGED active
     \/ /\ thread' = "idle"
        /\ active' = NoJob
        /\ UNCHANGED <<attempts, cur>>
  /\ UNCHANGED <<observed, registry, clock, cancel, now, jobs, queue, outcome,
                 pending, withdrawn, bounds>>

\* The attempt is recorded as running ...
Start ==
  /\ thread = "start"
  /\ attempts' = Started(active, now)
  /\ cur' = <<active, Day(now), Len(attempts[active][Day(now)]) + 1>>
  /\ thread' = "call"
  /\ UNCHANGED <<observed, registry, clock, cancel, now, jobs, queue, active, outcome,
                 pending, hist, bounds>>

\* ... and the provider called, unless the control is cancelled by now.
Call ==
  /\ thread = "call"
  /\ IF cancel = "no"
     THEN /\ calls' = Called(cur[1], cur[2])
          /\ thread' = "calling"
          /\ UNCHANGED outcome
     ELSE /\ outcome' = "failed"
          /\ thread' = "finish"
          /\ UNCHANGED calls
  /\ UNCHANGED <<store, registry, clock, cancel, now, jobs, queue, active, cur, pending,
                 withdrawn, bounds>>

\* The watchdog finds too much memory in use: it cancels the control it was
\* given, the one run_forever made for all its ticks.
MemoryBreach ==
  /\ MemoryCeiling
  /\ thread = "calling"
  /\ cancel = "no"
  /\ cancel' = "breach"
  /\ UNCHANGED <<store, registry, clock, thread, tick, pending, hist, bounds>>

\* Fault: the run may come to an outcome that no attempt of it can have.
ReturnSkipped ==
  /\ thread = "calling"
  /\ outcome' \in Outcomes \cup {"skipped"}
  /\ thread' = "finish"
  /\ UNCHANGED <<store, registry, clock, cancel, now, jobs, queue, active, cur, pending,
                 hist, bounds>>

\* The run returns or raises: a cancelled control rules success out, a breach
\* makes the failure final unless the job had one of its own.
Return ==
  /\ thread = "calling"
  /\ outcome' \in IF cancel = "no" THEN Outcomes ELSE {"failed", "blocked"}
  /\ thread' = "finish"
  /\ UNCHANGED <<store, registry, clock, cancel, now, jobs, queue, active, cur, pending,
                 hist, bounds>>

\* The outcome is recorded with the time it ended.
Finish ==
  /\ thread = "finish"
  /\ clock >= attempts[cur[1]][cur[2]][cur[3]].started
  /\ attempts' = Outcome(cur, outcome, clock)
  /\ thread' = "notify"
  /\ UNCHANGED <<observed, registry, clock, cancel, tick, pending, hist, bounds>>

\* The clock reads earlier than the start: the outcome does not validate, the
\* tick raises and the attempt stays running.
FinishTooEarly ==
  /\ thread = "finish"
  /\ clock < attempts[cur[1]][cur[2]][cur[3]].started
  /\ TickOver
  /\ UNCHANGED <<store, registry, clock, cancel, pending, hist, bounds>>

\* _notify: the observers take the attempt, or one fails and it is kept for
\* the next tick; a job that ran is released, and a cancelled tick ends.
Notify ==
  /\ thread = "notify"
  /\ \/ observed' = observed \cup {cur} /\ UNCHANGED <<pending, faults>>
     \/ Fails /\ pending' = pending \cup {cur} /\ UNCHANGED observed
  /\ IF active # NoJob /\ cancel # "no"
     THEN TickOver
     ELSE /\ thread' = IF active = NoJob THEN "recover" ELSE "next"
          /\ active' = NoJob
          /\ cur' = NoAttempt
          /\ outcome' = "none"
          /\ UNCHANGED <<now, jobs, queue>>
  /\ UNCHANGED <<attempts, registry, clock, cancel, hist, backs, crashes>>

\* An append to the journal fails and the tick raises; the record may be in
\* the journal all the same (its fsync or the rotation after it failed).
WriteFault ==
  /\ Fails
  /\ \/ /\ thread \in {"recover", "start", "finish"}
        /\ UNCHANGED attempts
        /\ thread = "recover" => Interrupted # {}
     \/ /\ TornWrites
        /\ \/ /\ thread = "recover"
              /\ \E a \in Interrupted :
                   /\ NextInterrupted(a)
                   /\ now >= attempts[a[1]][a[2]][a[3]].started
                   /\ attempts' = Outcome(a, "failed", now)
           \/ thread = "start" /\ attempts' = Started(active, now)
           \/ /\ thread = "finish"
              /\ clock >= attempts[cur[1]][cur[2]][cur[3]].started
              /\ attempts' = Outcome(cur, outcome, clock)
  /\ TickOver
  /\ UNCHANGED <<observed, registry, clock, cancel, pending, hist, backs, crashes>>

-----------------------------------------------------------------------------
ThreadStep ==
  \/ ThreadEnds \/ TickBegins \/ Plan \/ TickEnds
  \/ \E a \in Recorded : Recover(a) \/ RecoverTooEarly(a)
  \/ \E j \in Jobs : Claim(j)
  \/ Start \/ Call \/ Return \/ Finish \/ FinishTooEarly \/ Notify

Next ==
  \/ ClockTicks \/ ClockStepsBack
  \/ Boot \/ Stop \/ Deadline \/ Crash
  \/ \E R \in SUBSET Jobs \ {{}} : Reconcile(R)
  \/ ThreadStep
  \/ MemoryBreach
  \/ WriteFault

Spec == Init /\ [][Next]_vars

\* The clock goes on, the supervisor restarts the service, the thread runs
\* when it can, and providers answer or time out.
Fairness ==
  WF_vars(ClockTicks) /\ WF_vars(Boot) /\ WF_vars(Deadline) /\ WF_vars(ThreadStep)

FairSpec == Spec /\ Fairness

-----------------------------------------------------------------------------
(* Properties *)

Statuses == Outcomes \cup {"running"}
Attempt == [status : Statuses, started : Nat, completed : Nat]
Threads == {"off", "idle", "recover", "next", "start", "call", "calling", "finish",
            "notify"}

\* The variables have the types the code gives them.
TypeOK ==
  /\ attempts \in [Jobs -> [Days -> Seq(Attempt)]]
  /\ observed \subseteq Jobs \X Days \X Nat
  /\ registry \subseteq Jobs
  /\ clock \in Nat
  /\ thread \in Threads
  /\ cancel \in {"no", "stop", "breach"}
  /\ now \in Nat
  /\ jobs \subseteq Jobs
  /\ queue \subseteq Jobs
  /\ active \in Jobs \cup {NoJob}
  /\ cur \in (Jobs \X Days \X Nat) \cup {NoAttempt}
  /\ outcome \in Outcomes \cup {"none"}
  /\ pending \subseteq Jobs \X Days \X Nat
  /\ calls \in [Jobs -> [Days -> Nat]]
  /\ withdrawn \subseteq Jobs
  /\ backs \in Nat /\ crashes \in Nat /\ faults \in Nat

\* An attempt follows another of its job and day only if that one failed in a
\* way worth retrying, and only after the backoff that follows it; none starts
\* before its schedule (_job_status, evaluated twice in every tick).
RetryDiscipline ==
  \A a \in Recorded :
    LET at == attempts[a[1]][a[2]] IN
    /\ at[a[3]].started >= Scheduled(a[2])
    /\ a[3] > 1 => /\ at[a[3] - 1].status = "failed"
                   /\ at[a[3]].started >= at[a[3] - 1].completed + Delay(a[3] - 1)

\* Providers are called no more often than the budget of the day: a call is
\* made only for an attempt that is already durable, so no crash, restart or
\* failed write hides one (_run_job).
CallsBudgeted ==
  \A j \in Jobs, d \in Days :
    calls[j][d] <= Len(attempts[j][d]) /\ Len(attempts[j][d]) <= MaxAttempts

\* A finished attempt is known to every observer, or kept to be notified by
\* the next tick: in a running service none is forgotten.
FinishedNotForgotten ==
  cancel # "stop" => Finished \subseteq observed \cup pending \cup {cur}

\* run_forever's docstring: "retain the thread after safe scheduler errors" -
\* the thread ends only when the service is stopped.
ThreadRetained == thread = "off" => cancel = "stop"

\* A job taken out of the registry while it was not active is not started, even
\* by a tick that had it listed (_claim_registered_job).
WithdrawnNotStarted ==
  [][\A j \in withdrawn, d \in Days : Len(attempts'[j][d]) = Len(attempts[j][d])]_vars

\* An attempt that no thread has in hand, in a day before another attempt of its
\* job: the clock stepped back over midnight before it was started, and what
\* ended it was a kill, a failed write or a clock that reads before its start.
Stranded(a) ==
  /\ a \in Running /\ a # cur
  /\ \E b \in Recorded : b[1] = a[1] /\ b[2] > a[2]

\* Every attempt ends, whatever kills the process, fails its write or sets the
\* clock back: a start recovers the attempt it finds running, and only the ones
\* that are stranded are never found (_recover_interrupted).
EveryAttemptEnds ==
  \A j \in Jobs, d \in Days, n \in 1..MaxAttempts :
    (<<j, d, n>> \in Running) ~> (<<j, d, n>> \in Finished \/ Stranded(<<j, d, n>>))

\* docs/v2_operational_readiness.md:148 has the running attempt recovered by a
\* restart, and docs/local_interface.md:787-788 every interrupted one.
RunningRecovered ==
  \A j \in Jobs, d \in Days, n \in 1..MaxAttempts :
    (<<j, d, n>> \in Running) ~> (<<j, d, n>> \in Finished)

\* A job that is due is attempted, unless its day ends or it is withdrawn.
DueJobsRun ==
  \A j \in Jobs, d \in Days :
    (j \in registry /\ Day(clock) = d /\ clock >= Scheduled(d))
      ~> (attempts[j][d] # <<>> \/ Day(clock) # d \/ j \notin registry)

\* The scheduler implements the ledger.
Ledger == INSTANCE JobLedger WITH
  status <- [j \in Jobs |-> [d \in Days |->
               [n \in DOMAIN attempts[j][d] |-> attempts[j][d][n].status]]]

ImplementsJobLedger == Ledger!Spec
=============================================================================
