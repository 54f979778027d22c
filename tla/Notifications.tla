--------------------------- MODULE Notifications ---------------------------
(***************************************************************************)
(* From a screening candidate to a toast on the desktop: the outbox        *)
(* (alerts/candidate_notifications.py) and the delivery channel            *)
(* (alerts/desktop_notifications.py) of one service process.               *)
(*                                                                         *)
(* The scheduler thread reconciles the outbox with the candidates and      *)
(* sends batches; HTTP threads acknowledge notifications, close            *)
(* candidates, enable and disable the channel; the process may be killed   *)
(* between any two writes.  Readings of the clock are modelled by what is  *)
(* compared: the time left until a batch or a retry is allowed, the        *)
(* activation of the channel after which a candidate came up, and, once    *)
(* the clock has stepped back, what carries a time that is still to come.  *)
(***************************************************************************)
EXTENDS Naturals, Sequences, FiniteSets

CONSTANTS
  Items,        \* notifications, one for each candidate, in their order
  MaxBatch,     \* MAX_BATCH_DELIVERIES
  MaxAttempts,  \* MAX_SEND_ATTEMPTS
  Retained,     \* max_retained
  Interval,     \* MIN_BATCH_INTERVAL_SECONDS
  Delays,       \* RETRY_DELAYS_SECONDS
  TornWrites,   \* a failed append may have left its record in the journal
  MayAck,       \* bound: the notifications the user may acknowledge
  MayClose,     \* bound: the candidates the user may close
  MaxTouches,   \* bound: acknowledged and closed in all
  MaxConfigs,   \* bound: activations and deactivations
  MaxBacks,     \* bound: steps back of the clock
  MaxCrashes,   \* bound: kills of the process
  MaxFaults     \* bound: failed writes

ASSUME ItemsAssumption == Items \subseteq Nat \ {0} /\ IsFiniteSet(Items)
ASSUME ChannelAssumption ==
  /\ MaxBatch \in Nat \ {0} /\ MaxAttempts \in Nat \ {0} /\ Retained \in Nat \ {0}
  /\ Interval \in Nat
  /\ Delays \in Seq(Nat) /\ Len(Delays) + 1 = MaxAttempts
ASSUME NotificationBounds ==
  /\ TornWrites \in BOOLEAN /\ MayAck \subseteq Items /\ MayClose \subseteq Items
  /\ MaxTouches \in Nat /\ MaxConfigs \in Nat /\ MaxBacks \in Nat
  /\ MaxCrashes \in Nat /\ MaxFaults \in Nat

VARIABLES
  cand,      \* durable: the candidate of each notification: none, new, closed
  born,      \* durable: the activation of the channel it came up under
  outbox,    \* durable: the notifications and the acknowledged ones
  enabled,   \* durable: the channel's configuration
  epoch,     \* durable: the activation in force or last in force (enabled_at)
  unreadable, \* the configuration is one that load_config refuses
  marked,    \* durable: there is a last_batch_at
  rest,      \* time until it is an Interval ago
  disk,      \* durable: the delivery the journal holds of each notification
  wait,      \* time until its next_attempt_at
  corrupt,   \* the journal holds a history that load_deliveries refuses
  mem,       \* the deliveries the store has cached
  future,    \* what carries a time that the clock has stepped back behind
  serving,   \* HTTP is up
  thread,    \* where the scheduler thread is; "down" when there is no process
  http,      \* the HTTP thread that disables the channel: free or cancel
  snap,      \* the candidates and the outbox the thread works with
  work,      \* the deliveries its current loop has still to take
  chosen,    \* the deliveries of the batch
  reply,     \* what the channel said of them
  shown,     \* history: how often each notification has appeared
  acked,     \* history: acknowledgements that were answered
  revoked,   \* history: what came up before the last change of the channel
  torn,      \* history: an append raised although its record is in the journal
  configs, backs, crashes, faults  \* bounds used so far

candidates == <<cand, born>>
config == <<enabled, epoch, unreadable>>
channel == <<config, marked, rest>>
journal == <<disk, wait, corrupt, mem, torn, future>>
batch == <<snap, work, chosen, reply>>
hist == <<shown, acked, revoked>>
bounds == <<configs, backs, crashes, faults>>
vars == <<cand, born, outbox, enabled, epoch, unreadable, marked, rest, disk, wait, corrupt,
          mem, future, serving, thread, http, snap, work, chosen, reply, shown, acked,
          revoked, torn, configs, backs, crashes, faults>>

Statuses == {"absent", "pending", "attempting", "accepted", "retry_wait", "unknown",
             "cancelled", "failed"}
Absent == [status |-> "absent", tries |-> 0]
Waiting == {"pending", "retry_wait"}
Settled == {"accepted", "unknown", "cancelled", "failed"}
NoSnap == [new |-> {}, items |-> {}, acks |-> {}]

\* The candidates, the deliveries, the activation and the batch with such a time.
NoFuture == [born |-> {}, updated |-> {}, enabled |-> FALSE, batch |-> FALSE]

First(n, S) == n \in S /\ \A m \in S : n <= m

\* _ALLOWED_TRANSITIONS, and the first record of a delivery
Allowed(s) ==
  CASE s = "absent" -> {"pending"}
    [] s = "pending" -> {"attempting", "cancelled"}
    [] s = "attempting" -> {"accepted", "retry_wait", "unknown", "failed"}
    [] s = "retry_wait" -> {"attempting", "cancelled"}
    [] s \in Settled -> {}

Full == Cardinality({n \in Items : mem[n] # Absent}) >= Retained

\* Fault: a retry is forgotten.
DueFirstOnly == {n \in Items : mem[n].status = "pending"}

\* The deliveries a batch may take now.
Due == {n \in Items : \/ mem[n].status = "pending"
                      \/ /\ mem[n].status = "retry_wait"
                         /\ wait[n] = 0 /\ n \notin future.updated}

\* Fault: the boundary of the activation is checked on admission only.
EligibleWithoutBoundary(n) == n \notin snap.acks /\ n \in snap.new

\* _ineligibility: not acknowledged, the candidate still new, and not older
\* than the activation.
Eligible(n) == n \notin snap.acks /\ n \in snap.new /\ born[n] = epoch

\* What a batch admits: not yet admitted, and eligible.
ToAdmit == {n \in snap.items : mem[n] = Absent /\ Eligible(n)}

-----------------------------------------------------------------------------
Init ==
  /\ cand = [n \in Items |-> "none"]
  /\ born = [n \in Items |-> 0]
  /\ outbox = [items |-> {}, acks |-> {}]
  /\ enabled = FALSE
  /\ epoch = 0
  /\ unreadable = FALSE
  /\ marked = FALSE
  /\ rest = 0
  /\ disk = [n \in Items |-> Absent]
  /\ wait = [n \in Items |-> 0]
  /\ corrupt = FALSE
  /\ mem = disk
  /\ future = NoFuture
  /\ serving = FALSE
  /\ thread = "down"
  /\ http = "free"
  /\ snap = NoSnap
  /\ work = {}
  /\ chosen = {}
  /\ reply = <<>>
  /\ shown = [n \in Items |-> 0]
  /\ acked = {}
  /\ revoked = {}
  /\ torn = FALSE
  /\ configs = 0
  /\ backs = 0
  /\ crashes = 0
  /\ faults = 0

-----------------------------------------------------------------------------
(* The journal of deliveries *)

\* _validate_transition, in the next load: the status may follow the one before,
\* and updated_at is not earlier than the one before.
Recorded(n, d) ==
  /\ disk' = [disk EXCEPT ![n] = d]
  /\ corrupt' = (corrupt \/ d.status \notin Allowed(disk[n].status) \/ n \in future.updated)

\* _append: the record is durable, unvalidated, then the cache follows.
Wrote(n, d) ==
  /\ Recorded(n, d)
  /\ mem' = [mem EXCEPT ![n] = d]
  /\ future' = [future EXCEPT !.updated = future.updated \ {n}]
  /\ UNCHANGED <<torn, faults>>

\* The append raises, and the journal may hold the record all the same.
Raises(n, d) ==
  /\ faults < MaxFaults
  /\ faults' = faults + 1
  /\ \/ UNCHANGED <<disk, corrupt, torn>>
     \/ TornWrites /\ Recorded(n, d) /\ torn' = TRUE
  /\ UNCHANGED future

\* _append raises: the cache stays, whatever the journal holds.
WriteFails(n, d) == Raises(n, d) /\ UNCHANGED mem

Status(n, s) == [status |-> s, tries |-> mem[n].tries]

\* The thread is back in the scheduler's loop.
Leave ==
  /\ thread' = "idle"
  /\ serving' = TRUE
  /\ snap' = NoSnap
  /\ work' = {}
  /\ chosen' = {}
  /\ reply' = <<>>

\* Nothing is left of the process but what it wrote.
ProcessEnds ==
  /\ thread' = "down"
  /\ serving' = FALSE
  /\ http' = "free"
  /\ mem' = [n \in Items |-> Absent]
  /\ snap' = NoSnap
  /\ work' = {}
  /\ chosen' = {}
  /\ reply' = <<>>

-----------------------------------------------------------------------------
(* The service starts *)

\* The journal is read; one that does not load keeps the service from starting.
Boot ==
  /\ thread = "down"
  /\ ~corrupt
  /\ mem' = disk
  /\ thread' = "recover"
  /\ UNCHANGED <<candidates, outbox, channel, disk, wait, corrupt, torn, future, serving, http,
                 batch, hist, bounds>>

Interrupted == {n \in Items : mem[n].status = "attempting"}

\* recover: what was being attempted has an unknown outcome.
Recover(n) ==
  /\ thread = "recover"
  /\ First(n, Interrupted)
  /\ \/ /\ Wrote(n, Status(n, "unknown"))
        /\ UNCHANGED <<serving, thread, http, batch>>
     \/ Raises(n, Status(n, "unknown")) /\ ProcessEnds
  /\ UNCHANGED <<candidates, outbox, channel, wait, hist, configs, backs, crashes>>

Snapshot ==
  [new |-> {n \in Items : cand[n] = "new"}, items |-> outbox.items, acks |-> outbox.acks]

\* The start reconciles once before HTTP is up; afterwards the scheduler does
\* so for every attempt it observes.
Reconcile ==
  /\ \/ thread = "recover" /\ Interrupted = {}
     \/ thread = "idle"
  /\ snap' = Snapshot
  /\ thread' = "enqueue"
  /\ UNCHANGED <<candidates, outbox, channel, journal, serving, http, work, chosen, reply,
                 hist, bounds>>

-----------------------------------------------------------------------------
(* The outbox *)

\* A candidate comes up in the screening of an attempt, at a time that may be
\* before the activation in force.
Activate(n) ==
  /\ thread \in {"recover", "idle"}
  /\ cand[n] = "none"
  /\ \A m \in Items : m < n => cand[m] # "none"
  /\ cand' = [cand EXCEPT ![n] = "new"]
  /\ born' = [born EXCEPT ![n] = IF future.enabled THEN epoch - 1 ELSE epoch]
  /\ UNCHANGED <<outbox, channel, journal, serving, thread, http, batch, hist, bounds>>

\* What the user has done so far, for its bound.
Touches == Cardinality(acked) + Cardinality({n \in Items : cand[n] = "closed"})

\* The user dismisses, silences, resolves or has seen a candidate.
Close(n) ==
  /\ serving
  /\ n \in MayClose
  /\ Touches < MaxTouches
  /\ cand[n] = "new"
  /\ cand' = [cand EXCEPT ![n] = "closed"]
  /\ UNCHANGED <<born, outbox, channel, journal, serving, thread, http, batch, hist, bounds>>

\* The document is written from the state the reconciliation has loaded.
Enqueue(n) ==
  /\ thread = "enqueue"
  /\ First(n, snap.new \ snap.items)
  /\ snap' = [snap EXCEPT !.items = snap.items \cup {n}]
  /\ outbox' = [items |-> snap.items \cup {n}, acks |-> snap.acks]
  /\ UNCHANGED <<candidates, channel, journal, serving, thread, http, work, chosen, reply,
                 hist, bounds>>

\* The write fails: the observer has failed, or the service does not start.
EnqueueFails ==
  /\ thread = "enqueue"
  /\ snap.new \ snap.items # {}
  /\ faults < MaxFaults
  /\ faults' = faults + 1
  /\ IF serving
     THEN Leave /\ UNCHANGED <<mem, http>>
     ELSE ProcessEnds
  /\ UNCHANGED <<candidates, outbox, channel, disk, wait, corrupt, torn, future, hist, configs,
                 backs, crashes>>

\* The user acknowledges a notification, and is told so.
Acknowledge(n) ==
  /\ serving
  /\ n \in MayAck
  /\ Touches < MaxTouches
  /\ n \in outbox.items \ outbox.acks
  /\ outbox' = [outbox EXCEPT !.acks = outbox.acks \cup {n}]
  /\ acked' = acked \cup {n}
  /\ UNCHANGED <<candidates, channel, journal, serving, thread, http, batch, shown, revoked,
                 bounds>>

-----------------------------------------------------------------------------
(* A batch, under the lock of the service *)

Batching == thread \in {"admit", "select", "begin", "record"}

\* Fault: a reconciliation starts a batch only if a delivery is due already.
BatchBeginsIfDue ==
  /\ thread = "enqueue"
  /\ snap.new \subseteq snap.items
  /\ http = "free"
  /\ IF enabled /\ ~unreadable /\ ~Full /\ Due # {}
     THEN thread' = "admit" /\ UNCHANGED <<serving, batch>>
     ELSE Leave
  /\ UNCHANGED <<candidates, outbox, channel, journal, http, hist, bounds>>

\* The batch observer of the reconciliation: admission, then delivery.
BatchBegins ==
  /\ thread = "enqueue"
  /\ snap.new \subseteq snap.items
  /\ http = "free"
  /\ IF enabled /\ ~unreadable /\ ~Full
     THEN thread' = "admit" /\ UNCHANGED <<serving, batch>>
     ELSE Leave
  /\ UNCHANGED <<candidates, outbox, channel, journal, http, hist, bounds>>

\* The last batch is an Interval ago.
Spaced == rest = 0 /\ ~future.batch

\* observe_tick: a batch for what is due, with a state loaded then.
TickBatch ==
  /\ thread = "idle"
  /\ http = "free"
  /\ enabled /\ ~unreadable /\ ~Full /\ Spaced /\ Due # {}
  /\ snap' = Snapshot
  /\ thread' = "admit"
  /\ UNCHANGED <<candidates, outbox, channel, journal, serving, http, work, chosen, reply,
                 hist, bounds>>

\* A delivery cannot precede its notification: what came up later than the clock
\* ends the batch.
Admit(n) ==
  /\ thread = "admit"
  /\ First(n, ToAdmit)
  /\ ~Full
  /\ \/ /\ n \notin future.born
        /\ Wrote(n, [status |-> "pending", tries |-> 0])
        /\ UNCHANGED <<serving, thread, batch>>
     \/ /\ n \notin future.born
        /\ WriteFails(n, [status |-> "pending", tries |-> 0])
        /\ Leave
     \/ n \in future.born /\ Leave /\ UNCHANGED <<disk, corrupt, mem, torn, future, faults>>
  /\ UNCHANGED <<candidates, outbox, channel, wait, http, hist, configs, backs,
                 crashes>>

\* The admission is over: the batch is marked, if one is allowed and any
\* delivery is due. A mark from before the activation spoils the configuration.
Deliver ==
  /\ thread = "admit"
  /\ ToAdmit = {} \/ Full
  /\ IF Spaced /\ Due # {}
     THEN \/ /\ rest' = Interval
             /\ marked' = TRUE
             /\ unreadable' = future.enabled
             /\ work' = Due
             /\ thread' = "select"
             /\ UNCHANGED <<serving, snap, chosen, reply, faults>>
          \/ faults < MaxFaults /\ faults' = faults + 1 /\ Leave
             /\ UNCHANGED <<rest, marked, unreadable>>
     ELSE Leave /\ UNCHANGED <<rest, marked, unreadable, faults>>
  /\ UNCHANGED <<candidates, outbox, enabled, epoch, journal, http, hist, configs, backs,
                 crashes>>

\* What may not be sent any more is cancelled.
Reject(n) ==
  /\ thread = "select"
  /\ First(n, work)
  /\ ~Eligible(n)
  /\ \/ /\ Wrote(n, Status(n, "cancelled"))
        /\ work' = work \ {n}
        /\ UNCHANGED <<serving, thread, snap, chosen, reply>>
     \/ WriteFails(n, Status(n, "cancelled")) /\ Leave
  /\ UNCHANGED <<candidates, outbox, channel, wait, http, hist, configs, backs,
                 crashes>>

\* The rest of the loop is left as soon as the batch is full.
Choose(n) ==
  /\ thread = "select"
  /\ First(n, work)
  /\ Eligible(n)
  /\ IF Cardinality(chosen) < MaxBatch
     THEN chosen' = chosen \cup {n} /\ work' = work \ {n}
     ELSE work' = {} /\ UNCHANGED chosen
  /\ UNCHANGED <<candidates, outbox, channel, journal, serving, thread, http, snap, reply,
                 hist, bounds>>

Selected ==
  /\ thread = "select"
  /\ work = {}
  /\ IF chosen = {}
     THEN Leave
     ELSE work' = chosen /\ thread' = "begin" /\ UNCHANGED <<serving, snap, chosen, reply>>
  /\ UNCHANGED <<candidates, outbox, channel, journal, http, hist, bounds>>

\* begin_attempt: the intent is durable before the channel is called.
Begin(n) ==
  /\ thread = "begin"
  /\ First(n, work)
  /\ \/ /\ Wrote(n, [status |-> "attempting", tries |-> mem[n].tries + 1])
        /\ work' = work \ {n}
        /\ UNCHANGED <<serving, thread, snap, chosen, reply>>
     \/ WriteFails(n, [status |-> "attempting", tries |-> mem[n].tries + 1]) /\ Leave
  /\ UNCHANGED <<candidates, outbox, channel, wait, http, hist, configs, backs,
                 crashes>>

\* What the channel says of a toast, and whether it was shown: a timeout, a
\* crash of the bridge or an unreadable answer leaves that open.
Answers(S) ==
  {r \in [chosen -> {"accepted", "retryable", "unknown"}] :
     \A n \in chosen : /\ r[n] = "accepted" => n \in S
                       /\ r[n] = "retryable" => n \notin S}

Send ==
  /\ thread = "begin"
  /\ work = {}
  /\ \E S \in SUBSET chosen :
       /\ reply' \in Answers(S)
       /\ shown' = [n \in Items |-> IF n \in S THEN shown[n] + 1 ELSE shown[n]]
  /\ work' = chosen
  /\ thread' = "record"
  /\ UNCHANGED <<candidates, outbox, channel, journal, serving, http, snap, chosen, acked,
                 revoked, bounds>>

\* Fault: what the channel could not say is tried again.
OutcomeOptimistic(n) ==
  CASE reply[n] = "accepted" -> "accepted"
    [] mem[n].tries >= MaxAttempts -> "failed"
    [] OTHER -> "retry_wait"

Outcome(n) ==
  CASE reply[n] = "accepted" -> "accepted"
    [] reply[n] = "unknown" -> "unknown"
    [] reply[n] = "retryable" /\ mem[n].tries >= MaxAttempts -> "failed"
    [] OTHER -> "retry_wait"

Record(n) ==
  /\ thread = "record"
  /\ First(n, work)
  /\ \/ /\ Wrote(n, Status(n, Outcome(n)))
        /\ IF work = {n} THEN Leave
           ELSE work' = work \ {n} /\ UNCHANGED <<serving, thread, snap, chosen, reply>>
     \/ WriteFails(n, Status(n, Outcome(n))) /\ Leave
  /\ wait' = [wait EXCEPT ![n] =
                IF Outcome(n) = "retry_wait" THEN Delays[mem[n].tries] ELSE 0]
  /\ UNCHANGED <<candidates, outbox, channel, http, hist, configs, backs, crashes>>

-----------------------------------------------------------------------------
(* The configuration of the channel, under the same lock *)

Revoke == revoked' = {n \in Items : cand[n] # "none"}

\* What carries a time after the clock's counts as come up since.
Enable ==
  /\ serving /\ http = "free" /\ ~Batching /\ ~unreadable
  /\ configs < MaxConfigs
  /\ configs' = configs + 1
  /\ enabled' = TRUE
  /\ epoch' = epoch + 1
  /\ born' = [n \in Items |-> IF n \in future.born THEN epoch + 1 ELSE born[n]]
  /\ future' = [future EXCEPT !.enabled = FALSE]
  /\ Revoke
  /\ UNCHANGED <<cand, outbox, unreadable, marked, rest, disk, wait, corrupt, mem, torn, serving,
                 thread, http, batch, shown, acked, backs, crashes, faults>>

\* The configuration is written first, then what waits is cancelled.
Disable ==
  /\ serving /\ http = "free" /\ ~Batching /\ ~unreadable
  /\ enabled
  /\ configs < MaxConfigs
  /\ configs' = configs + 1
  /\ enabled' = FALSE
  /\ future' = [future EXCEPT !.enabled = FALSE]
  /\ http' = "cancel"
  /\ Revoke
  /\ UNCHANGED <<candidates, outbox, epoch, unreadable, marked, rest, disk, wait, corrupt, mem,
                 torn, serving, thread, batch, shown, acked, backs, crashes, faults>>

\* test: what it records of the transport is a write of the configuration.
Test ==
  /\ serving /\ http = "free" /\ ~Batching /\ ~unreadable
  /\ enabled
  /\ unreadable' = future.enabled
  /\ UNCHANGED <<candidates, outbox, enabled, epoch, marked, rest, journal, serving, thread,
                 http, batch, hist, bounds>>

\* Fault: an attempt whose outcome could not be recorded is cancelled as well.
PendingOrStuck == {n \in Items : mem[n].status \in Waiting \cup {"attempting"}}

\* _cancel_pending
Pending == {n \in Items : mem[n].status \in Waiting}

CancelPending(n) ==
  /\ http = "cancel"
  /\ First(n, Pending)
  /\ \/ Wrote(n, Status(n, "cancelled")) /\ UNCHANGED http
     \/ WriteFails(n, Status(n, "cancelled")) /\ http' = "free"
  /\ UNCHANGED <<candidates, outbox, channel, wait, serving, thread, batch, hist, configs,
                 backs, crashes>>

Disabled ==
  /\ http = "cancel"
  /\ Pending = {}
  /\ http' = "free"
  /\ UNCHANGED <<candidates, outbox, channel, journal, serving, thread, batch, hist, bounds>>

-----------------------------------------------------------------------------
(* Time and kills *)

\* Fault: the time left is not cut off at zero.
LessUnbounded(t) == t - 1

Less(t) == IF t = 0 THEN 0 ELSE t - 1

\* Time passes; what carries a time to come waits until the clock is there.
Tick ==
  /\ \/ rest > 0 /\ ~future.batch
     \/ \E n \in Items \ future.updated : wait[n] > 0
  /\ rest' = IF future.batch THEN rest ELSE Less(rest)
  /\ wait' = [n \in Items |-> IF n \in future.updated THEN wait[n] ELSE Less(wait[n])]
  /\ UNCHANGED <<candidates, outbox, config, marked, disk, corrupt, mem, torn, future, serving,
                 thread, http, batch, hist, bounds>>

\* No reading of the clock waits to be written.
NothingRead ==
  /\ http = "free"
  /\ \/ thread \in {"down", "idle", "enqueue"}
     \/ thread = "recover" /\ Interrupted = {}
     \/ thread = "admit" /\ (ToAdmit = {} \/ Full)
     \/ thread = "begin" /\ work = {}

\* The clock is set back behind everything that is recorded.
StepBack ==
  /\ NothingRead
  /\ backs < MaxBacks
  /\ backs' = backs + 1
  /\ future' = [born |-> {n \in Items : cand[n] # "none"},
                updated |-> {n \in Items : disk[n] # Absent},
                enabled |-> enabled, batch |-> marked]
  /\ UNCHANGED <<candidates, outbox, channel, disk, wait, corrupt, mem, torn, serving, thread,
                 http, batch, hist, configs, crashes, faults>>

\* The clock has caught up with all of it.
CatchUp ==
  /\ NothingRead
  /\ future # NoFuture
  /\ future' = NoFuture
  /\ UNCHANGED <<candidates, outbox, channel, disk, wait, corrupt, mem, torn, serving, thread,
                 http, batch, hist, bounds>>

Crash ==
  /\ thread # "down"
  /\ crashes < MaxCrashes
  /\ crashes' = crashes + 1
  /\ ProcessEnds
  /\ UNCHANGED <<candidates, outbox, channel, disk, wait, corrupt, torn, future, hist, configs,
                 backs, faults>>

-----------------------------------------------------------------------------
BatchStep ==
  \/ BatchBegins \/ TickBatch \/ Deliver \/ Selected \/ Send
  \/ \E n \in Items : Admit(n) \/ Reject(n) \/ Choose(n) \/ Begin(n) \/ Record(n)

ServiceStep ==
  \/ Boot
  \/ \E n \in Items : Recover(n) \/ Enqueue(n)
  \/ EnqueueFails

HttpStep ==
  \/ \E n \in Items : Acknowledge(n) \/ Close(n) \/ CancelPending(n)
  \/ Enable \/ Disable \/ Disabled \/ Test

Next ==
  \/ ServiceStep \/ Reconcile \/ BatchStep \/ HttpStep
  \/ \E n \in Items : Activate(n)
  \/ Tick \/ StepBack \/ CatchUp \/ Crash

Spec == Init /\ [][Next]_vars

Fairness ==
  /\ WF_vars(ServiceStep) /\ WF_vars(BatchStep) /\ WF_vars(Tick)
  /\ WF_vars(Reconcile)
  /\ WF_vars(Disabled \/ \E n \in Items : CancelPending(n))

FairSpec == Spec /\ Fairness

-----------------------------------------------------------------------------
(* Properties *)

Deliveries == [status: Statuses, tries: 0..MaxAttempts]

\* The types of what is durable, of the cache and of the thread's locals.
TypeOK ==
  /\ cand \in [Items -> {"none", "new", "closed"}]
  /\ born \in [Items -> 0..MaxConfigs]
  /\ outbox \in [items: SUBSET Items, acks: SUBSET Items]
  /\ enabled \in BOOLEAN /\ epoch \in 0..MaxConfigs /\ unreadable \in BOOLEAN
  /\ marked \in BOOLEAN /\ rest \in 0..Interval
  /\ disk \in [Items -> Deliveries] /\ mem \in [Items -> Deliveries]
  /\ wait \in [Items -> Nat]
  /\ future \in [born: SUBSET Items, updated: SUBSET Items, enabled: BOOLEAN, batch: BOOLEAN]
  /\ corrupt \in BOOLEAN /\ torn \in BOOLEAN /\ serving \in BOOLEAN
  /\ thread \in {"down", "recover", "enqueue", "idle", "admit", "select", "begin", "record"}
  /\ http \in {"free", "cancel"}
  /\ snap \in [new: SUBSET Items, items: SUBSET Items, acks: SUBSET Items]
  /\ work \subseteq Items /\ chosen \subseteq Items
  /\ shown \in [Items -> Nat]
  /\ acked \subseteq Items /\ revoked \subseteq Items

\* Whatever is killed, raises or is cancelled, and whenever, the history in the
\* journal of deliveries is one that the next load accepts: every record follows
\* the one that is durable before it. It is not so, and TornWrites and backs are
\* there to show it, once an append has raised behind its record, or once the
\* clock has stepped back behind a delivery that goes on.
DeliveriesLoadable == backs = 0 => ~corrupt

\* The same of every reading of the clock.
HistoryReadable == ~corrupt

\* What came up before the channel was last disabled or enabled is never shown
\* afterwards, even when the kill fell between the configuration and the
\* cancellations, or a cancellation failed. Every time is compared with the
\* activation's: a clock that steps back before an activation undoes it.
RevokedNotShown == [][backs' = 0 => \A n \in revoked : shown'[n] = shown[n]]_vars

\* "Habilitarlo registra la frontera enabled_at [...]; no encola el historial
\* anterior" (docs/automated_screening_alerts.md): what came up before the channel
\* was last enabled or disabled is not admitted to the deliveries any more.
EarlierNotEnqueued == [][\A n \in revoked : disk[n] = Absent => disk'[n] = Absent]_vars

Stage(n) ==
  CASE disk[n].status = "attempting" -> "out"
    [] disk[n].status \in Settled -> "over"
    [] OTHER -> "waiting"

Once == INSTANCE DeliverOnce WITH
          stage <- [n \in Items |-> Stage(n)],
          tries <- [n \in Items |-> IF Stage(n) = "over" THEN 0 ELSE disk[n].tries]

\* The deliveries in the journal, with what the desktop shows, implement
\* DeliverOnce: attempts are counted before they are made, within the budget,
\* and only what showed nothing is attempted again.
ImplementsDeliverOnce == Once!Spec

\* A delivery reaches its end, across kills and refused attempts, unless the
\* channel is disabled, its budget is used up or a write has failed.
EveryDeliverySettles ==
  \A n \in Items :
    disk[n].status \in Waiting \cup {"attempting"}
      ~> \/ disk[n].status \in Settled
         \/ ~enabled \/ Full \/ faults > 0

Told(n) == cand[n] = "new" /\ n \notin acked /\ enabled /\ born[n] = epoch

\* A candidate that comes up while the channel is enabled gets a delivery that
\* ends, whatever is killed between screening, outbox and channel, as long as
\* nobody closes or acknowledges it.
EveryCandidateTold ==
  \A n \in Items :
    Told(n) ~> disk[n].status \in Settled \/ ~Told(n) \/ Full \/ faults > 0

\* An acknowledgement that was answered stays in the outbox.
AcknowledgementsKept == acked \subseteq outbox.acks
=============================================================================
