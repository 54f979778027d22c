------------------------- MODULE NotificationsProofs -------------------------
(***************************************************************************)
(* Proofs about Notifications, for every set of notifications, every       *)
(* budget and every number of kills, failed writes and activations: the    *)
(* journal of deliveries loads, what was revoked is not shown, and what is *)
(* shown implements DeliverOnce.                                           *)
(*                                                                         *)
(* Two difficulties: an append may raise with its record in the journal,   *)
(* so that what the thread believes (mem) and what a restart will read     *)
(* (disk) part, and the service goes on; and the clock may step back, so   *)
(* that an activation takes what is older for newer.  The parts of the     *)
(* invariant that hold only before it has done so say backs = 0.           *)
(***************************************************************************)
EXTENDS Notifications, TLAPS

Here == {"enqueue", "admit", "select", "begin", "record"}

\* What a delivery looks like in any state of the journal or the cache.
Well(d) ==
  /\ d \in Deliveries
  /\ d.status \in {"absent", "pending"} => d.tries = 0
  /\ d.status \in Waiting => d.tries < MaxAttempts
  /\ d.status = "attempting" => d.tries # 0

\* d is a record that the service may write after m.
Follows(m, d) ==
  /\ d.status \in Allowed(m.status)
  /\ d.tries = IF d.status = "attempting" THEN m.tries + 1 ELSE m.tries

\* No batch will ever choose n again: it is acknowledged or closed, also for
\* the batch under way, or older than the next activation.
Barred(n) ==
  /\ cand[n] # "none"
  /\ \/ n \in outbox.acks /\ (thread \in Here => n \in snap.acks)
     \/ cand[n] = "closed" /\ n \notin snap.new
     \/ born[n] # epoch
     \/ ~enabled

\* Where the journal is ahead of the cache, it is by one record that could not
\* be confirmed; a cancellation of this kind bars the notification.
Agrees(n) ==
  \/ mem[n] = disk[n]
  \/ /\ torn
     /\ thread # "recover"
     /\ Follows(mem[n], disk[n])
     /\ disk[n].status = "cancelled" /\ backs = 0 => Barred(n)

Journaled ==
  /\ \A n \in Items : Well(disk[n]) /\ Well(mem[n])
  /\ \A n \in Items : disk[n].status # "absent" \/ mem[n].status # "absent" => cand[n] # "none"
  /\ thread = "down" => \A n \in Items : mem[n] = Absent
  /\ thread # "down" => \A n \in Items : Agrees(n)
  /\ corrupt => torn \/ backs # 0

\* The channel and the thread exclude each other; the batch works with a
\* snapshot that is older than no candidate and no acknowledgement it cannot see.
Threaded ==
  /\ epoch <= configs /\ configs \in 0..MaxConfigs
  /\ \A n \in Items : born[n] <= epoch
  /\ Batching => enabled /\ http = "free"
  /\ http = "cancel" => ~enabled
  /\ serving => thread \notin {"down", "recover"}
  /\ thread = "down" => http = "free"
  /\ thread = "recover" => http = "free"
  /\ thread \in Here => \A n \in Items : cand[n] = "new" => n \in snap.new
  /\ thread \in Here => snap.acks \subseteq outbox.acks
  /\ \A n \in snap.new : cand[n] # "none"
  /\ thread \notin Here => snap = NoSnap

\* Nothing carries a time to come before the clock has stepped back, and only an
\* activation that is in force is later than the clock.
Timed ==
  /\ backs \in 0..MaxBacks
  /\ backs = 0 => future = NoFuture
  /\ future.enabled => enabled
  /\ enabled => epoch # 0
  /\ torn => TornWrites

\* What the batch has in hand, in each of its steps.
Batched ==
  /\ thread \notin {"select", "begin", "record"} => work = {} /\ chosen = {}
  /\ thread = "select" => \A n \in work \cup chosen : mem[n].status \in Waiting
  /\ thread = "select" => work \cap chosen = {}
  /\ thread \in {"select", "begin"} => \A n \in chosen : Eligible(n) /\ shown[n] = 0
  /\ thread \in {"begin", "record"} => work \subseteq chosen
  /\ thread = "begin" =>
       /\ \A n \in work : mem[n].status \in Waiting
       /\ \A n \in chosen \ work : mem[n] = disk[n] /\ mem[n].status = "attempting"
  /\ thread = "record" =>
       /\ reply \in [chosen -> {"accepted", "retryable", "unknown"}]
       /\ \A n \in work :
            /\ mem[n] = disk[n] /\ mem[n].status = "attempting"
            /\ reply[n] = "retryable" => shown[n] = 0

\* What waits has not appeared, neither for the cache nor for the journal.
Unshown ==
  \A n \in Items :
    /\ Stage(n) = "waiting" => shown[n] = 0
    /\ thread # "down" /\ mem[n].status \in Waiting \cup {"absent"} => shown[n] = 0

\* What was revoked is older than the next activation.
Revocation ==
  \A n \in revoked : cand[n] # "none" /\ (backs = 0 => born[n] # epoch \/ ~enabled)

IInv ==
  /\ TypeOK
  /\ Threaded
  /\ Timed
  /\ Journaled
  /\ Batched
  /\ Unshown
  /\ Revocation

-----------------------------------------------------------------------------
(* The writes of the journal *)

\* What may follow what, status by status.
LEMMA Transitions ==
  /\ Absent \in Deliveries
  /\ Allowed("absent") = {"pending"}
  /\ Allowed("pending") = {"attempting", "cancelled"}
  /\ Allowed("attempting") = {"accepted", "retry_wait", "unknown", "failed"}
  /\ Allowed("retry_wait") = {"attempting", "cancelled"}
  /\ \A s \in Settled : Allowed(s) = {}
BY ChannelAssumption DEF Absent, Deliveries, Statuses, Allowed, Settled

\* A record of a delivery is what its two fields are.
LEMMA Fields ==
  ASSUME NEW d \in Deliveries
  PROVE  d = [status |-> d.status, tries |-> d.tries] /\ d.status \in Statuses
         /\ d.tries \in 0..MaxAttempts
BY DEF Deliveries

\* A record that may be written for n: well formed, allowed after what the
\* cache holds, and true of what has been shown and of what may be sent.
Legal(n, d) ==
  /\ Well(d) /\ Follows(mem[n], d)
  /\ cand[n] # "none" /\ thread # "down"
  /\ d.status = "retry_wait" => shown[n] = 0
  /\ d.status = "cancelled" => Barred(n)
  /\ d.status = "attempting" => ~Barred(n)
  /\ mem[n].status = "attempting" => mem[n] = disk[n]

\* An append of d for n, confirmed or not; after a failed one the process goes
\* on with its cache, or ends.
Write(n, d) ==
  /\ Legal(n, d)
  /\ \/ Wrote(n, d)
     \/ Raises(n, d) /\ IF thread = "recover" THEN ProcessEnds ELSE mem' = mem

\* The journal is left alone, and the cache keeps, forgets or reads it.
Quiet ==
  /\ UNCHANGED <<disk, corrupt, torn>>
  /\ \/ mem' = mem /\ (thread' # thread => thread # "down" /\ thread' \notin {"down", "recover"})
     \/ ProcessEnds
     \/ Boot

\* An admission writes a legal record, or finds a notification that is later
\* than the clock and leaves the journal alone.
LEMMA AdmitWrites ==
  ASSUME IInv, NEW n \in Items, Admit(n)
  PROVE  Write(n, [status |-> "pending", tries |-> 0]) \/ Quiet
<1> DEFINE d == [status |-> "pending", tries |-> 0]
<1>1. mem[n] = Absent /\ n \in snap.new /\ thread = "admit"
  BY DEF Admit, First, ToAdmit, Eligible
<1>2. Well(d)
  BY ChannelAssumption DEF Well, Deliveries, Statuses, Waiting
<1>3. Legal(n, d)
  BY <1>1, <1>2, Transitions DEF Legal, Follows, Absent, IInv, Threaded
<1>4. CASE n \in future.born
  BY <1>1, <1>4 DEF Admit, Leave, Quiet
<1>5. CASE n \notin future.born
  BY <1>1, <1>3, <1>5 DEF Admit, Write, WriteFails
<1> QED
  BY <1>4, <1>5

\* A step of the batch that rejects n bars it.
LEMMA RejectWrites ==
  ASSUME IInv, NEW n \in Items, Reject(n)
  PROVE  Write(n, Status(n, "cancelled"))
<1> DEFINE d == Status(n, "cancelled")
<1>1. mem[n].status \in Waiting /\ thread = "select" /\ ~Eligible(n) /\ Well(mem[n])
      /\ cand[n] \in {"none", "new", "closed"}
  BY DEF Reject, First, IInv, Batched, Journaled, TypeOK
<1>2. cand[n] # "none"
  BY <1>1 DEF Waiting, IInv, Journaled
<1>3. Well(d) /\ d.status = "cancelled" /\ d.tries = mem[n].tries
  BY <1>1, Fields DEF Well, Deliveries, Statuses, Waiting, Status
<1>4. Barred(n)
  BY <1>1, <1>2 DEF Barred, Eligible, IInv, Threaded, Here
<1>5. Legal(n, d)
  BY <1>1, <1>2, <1>3, <1>4, Transitions DEF Legal, Follows, Waiting
<1> QED
  BY <1>1, <1>5 DEF Reject, Write, WriteFails

\* A deactivation bars what it cancels.
LEMMA CancelWrites ==
  ASSUME IInv, NEW n \in Items, CancelPending(n)
  PROVE  Write(n, Status(n, "cancelled"))
<1> DEFINE d == Status(n, "cancelled")
<1>1. mem[n].status \in Waiting /\ ~enabled /\ Well(mem[n]) /\ thread \notin {"down", "recover"}
  BY DEF CancelPending, First, Pending, IInv, Threaded, Journaled
<1>2. cand[n] # "none"
  BY <1>1 DEF Waiting, IInv, Journaled
<1>3. Well(d) /\ d.status = "cancelled" /\ d.tries = mem[n].tries
  BY <1>1, Fields DEF Well, Deliveries, Statuses, Waiting, Status
<1>4. Legal(n, d)
  BY <1>1, <1>2, <1>3, Transitions DEF Legal, Follows, Waiting, Barred
<1> QED
  BY <1>1, <1>4 DEF CancelPending, Write, WriteFails

\* An attempt is made of what is still eligible, within the budget.
LEMMA BeginWrites ==
  ASSUME IInv, NEW n \in Items, Begin(n)
  PROVE  Write(n, [status |-> "attempting", tries |-> mem[n].tries + 1])
<1> DEFINE d == [status |-> "attempting", tries |-> mem[n].tries + 1]
<1>1. /\ thread = "begin" /\ n \in chosen
      /\ mem[n].status \in Waiting /\ Eligible(n) /\ Well(mem[n])
  BY DEF Begin, First, IInv, Batched, Journaled
<1>2. cand[n] # "none"
  BY <1>1 DEF Waiting, IInv, Journaled
<1>3. Well(d)
  BY <1>1, Fields, ChannelAssumption DEF Well, Deliveries, Statuses, Waiting
<1>4. ~Barred(n)
  BY <1>1 DEF Barred, Eligible, IInv, Threaded, Here, Batching
<1>5. Legal(n, d)
  BY <1>1, <1>2, <1>3, <1>4, Transitions DEF Legal, Follows, Waiting
<1> QED
  BY <1>1, <1>5 DEF Begin, Write, WriteFails

\* The outcome that is recorded follows the attempt, and a retry is recorded
\* only of what certainly did not appear.
LEMMA RecordWrites ==
  ASSUME IInv, NEW n \in Items, Record(n)
  PROVE  /\ Write(n, Status(n, Outcome(n)))
         /\ Outcome(n) = "retry_wait" => mem[n].tries \in 1..Len(Delays)
<1> DEFINE d == Status(n, Outcome(n))
<1>1. /\ thread = "record"
      /\ mem[n].status = "attempting" /\ mem[n] = disk[n] /\ Well(mem[n])
      /\ reply[n] \in {"accepted", "retryable", "unknown"}
      /\ reply[n] = "retryable" => shown[n] = 0
  BY DEF Record, First, IInv, Batched, Journaled
<1>2. cand[n] # "none"
  BY <1>1 DEF IInv, Journaled
<1>3. mem[n].tries \in 1..MaxAttempts
  BY <1>1, Fields, ChannelAssumption DEF Well
<1>4. /\ Outcome(n) \in {"accepted", "unknown", "failed", "retry_wait"}
      /\ Outcome(n) = "retry_wait" => reply[n] = "retryable" /\ mem[n].tries < MaxAttempts
  BY <1>1, <1>3, ChannelAssumption DEF Outcome
<1>5. d.status = Outcome(n) /\ d.tries = mem[n].tries
  BY DEF Status
<1>6. Well(d)
  BY <1>3, <1>4, <1>5, ChannelAssumption DEF Well, Deliveries, Statuses, Waiting, Status
<1>7. Legal(n, d)
  BY <1>1, <1>2, <1>4, <1>5, <1>6, Transitions DEF Legal, Follows
<1> QED
  BY <1>3, <1>4, <1>7, ChannelAssumption DEF Record, Write, WriteFails

\* A restart gives what was being attempted an unknown outcome.
LEMMA RecoverWrites ==
  ASSUME IInv, NEW n \in Items, Recover(n)
  PROVE  Write(n, Status(n, "unknown"))
<1> DEFINE d == Status(n, "unknown")
<1>1. /\ thread = "recover"
      /\ mem[n].status = "attempting" /\ mem[n] = disk[n] /\ Well(mem[n])
  BY DEF Recover, First, Interrupted, IInv, Journaled, Agrees
<1>2. cand[n] # "none"
  BY <1>1 DEF IInv, Journaled
<1>3. Well(d) /\ d.status = "unknown" /\ d.tries = mem[n].tries
  BY <1>1, Fields DEF Well, Deliveries, Statuses, Waiting, Status
<1>4. Legal(n, d)
  BY <1>1, <1>2, <1>3, Transitions DEF Legal, Follows
<1> QED
  BY <1>4 DEF Recover, Write

\* Every step writes one legal record or leaves the journal alone.
LEMMA StepWrites ==
  ASSUME IInv, [Next]_vars
  PROVE  Quiet \/ \E n \in Items, d \in Deliveries : Write(n, d)
<1> USE DEF candidates, config, channel, journal, batch, hist, bounds
<1>1. ASSUME NEW n \in Items,
             Admit(n) \/ Reject(n) \/ CancelPending(n) \/ Begin(n) \/ Record(n) \/ Recover(n)
      PROVE  Quiet \/ \E d \in Deliveries : Write(n, d)
  <2>1. \A d : Write(n, d) => d \in Deliveries
    BY DEF Write, Legal, Well
  <2> QED
    BY <1>1, <2>1, AdmitWrites, RejectWrites, CancelWrites, BeginWrites, RecordWrites,
       RecoverWrites
<1>2. ASSUME NEW n \in Items, Enqueue(n) \/ Acknowledge(n) \/ Close(n) \/ Activate(n) \/ Choose(n)
      PROVE  Quiet
  BY <1>2 DEF Enqueue, Acknowledge, Close, Activate, Choose, Quiet
<1>3. CASE BatchBegins \/ TickBatch \/ Deliver \/ Selected \/ Send
  BY <1>3 DEF BatchBegins, TickBatch, Deliver, Selected, Send, Leave, Quiet
<1>4. CASE Boot \/ Reconcile \/ EnqueueFails
  BY <1>4 DEF Boot, Reconcile, EnqueueFails, Leave, Quiet
<1>5. CASE Enable \/ Disable \/ Disabled \/ Test \/ Tick \/ StepBack \/ CatchUp \/ Crash \/ UNCHANGED vars
  BY <1>5 DEF Enable, Disable, Disabled, Test, Tick, StepBack, CatchUp, Crash, Quiet, vars
<1> QED
  BY <1>1, <1>2, <1>3, <1>4, <1>5 DEF Next, ServiceStep, BatchStep, HttpStep

-----------------------------------------------------------------------------
(* Who is told what *)

\* Only a step back counts as one.
LEMMA StepBacks ==
  ASSUME IInv, [Next]_vars
  PROVE  /\ backs' = backs \/ StepBack
         /\ backs' = 0 => backs = 0 /\ future = NoFuture
<1> USE DEF bounds
<1>1. backs' = backs \/ StepBack
  <2>1. CASE BatchStep
    BY <2>1
    DEF BatchStep, BatchBegins, TickBatch, Deliver, Selected, Send, Admit, Reject, Choose,
        Begin, Record
  <2>2. CASE ServiceStep
    BY <2>2 DEF ServiceStep, Boot, Recover, Enqueue, EnqueueFails
  <2>3. CASE HttpStep
    BY <2>3 DEF HttpStep, Acknowledge, Close, CancelPending, Enable, Disable, Disabled, Test
  <2>4. CASE (\E m \in Items : Activate(m)) \/ Reconcile \/ Tick \/ CatchUp \/ Crash
             \/ UNCHANGED vars
    BY <2>4 DEF Activate, Reconcile, Tick, CatchUp, Crash, vars
  <2> QED
    BY <2>1, <2>2, <2>3, <2>4 DEF Next
<1>2. backs \in Nat /\ (backs = 0 => future = NoFuture)
  BY DEF IInv, Timed
<1> QED
  BY <1>1, <1>2 DEF StepBack

\* As long as the clock has not stepped back, nothing changes the activation that
\* a candidate came up under.
LEMMA StepBorn ==
  ASSUME IInv, [Next]_vars, backs' = 0, NEW n \in Items
  PROVE  born'[n] = born[n] \/ cand[n] = "none"
<1> USE DEF candidates
<1>0. backs = 0 /\ future = NoFuture /\ born \in [Items -> 0..MaxConfigs]
  BY StepBacks DEF IInv, TypeOK
<1>1. CASE BatchStep
  BY <1>1
  DEF BatchStep, BatchBegins, TickBatch, Deliver, Selected, Send, Admit, Reject, Choose,
      Begin, Record
<1>2. CASE ServiceStep
  BY <1>2 DEF ServiceStep, Boot, Recover, Enqueue, EnqueueFails
<1>3. CASE Enable
  BY <1>0, <1>3 DEF Enable, NoFuture
<1>4. CASE HttpStep /\ ~Enable
  BY <1>4 DEF HttpStep, Acknowledge, Close, CancelPending, Disable, Disabled, Test
<1>5. CASE \E m \in Items : Activate(m)
  BY <1>0, <1>5 DEF Activate
<1>6. CASE Reconcile \/ Tick \/ StepBack \/ CatchUp \/ Crash \/ UNCHANGED vars
  BY <1>6 DEF Reconcile, Tick, StepBack, CatchUp, Crash, vars
<1> QED
  BY <1>1, <1>2, <1>3, <1>4, <1>5, <1>6 DEF Next

\* What bars a notification from the batches is never taken back, unless the
\* clock steps back: neither by a stale snapshot, nor by an activation, nor by a
\* restart.
LEMMA StepBarred ==
  ASSUME IInv, [Next]_vars, backs' = 0, NEW n \in Items, Barred(n)
  PROVE  Barred(n)'
<1> USE DEF candidates, config, channel, Barred, Here
<1>9. cand[n] # "none" /\ born'[n] = born[n]
  BY StepBorn
<1>0. /\ born[n] \in Nat /\ epoch \in Nat /\ born[n] <= epoch
      /\ thread \in Here => snap.acks \subseteq outbox.acks
  BY DEF IInv, Threaded, TypeOK
<1>1. CASE BatchStep
  <2>1. UNCHANGED <<cand, born, outbox, epoch, enabled>>
    BY <1>1
    DEF BatchStep, BatchBegins, TickBatch, Deliver, Selected, Send, Admit, Reject, Choose,
        Begin, Record
  <2>2. \/ snap' = snap /\ thread \in Here
        \/ snap' = NoSnap /\ thread' = "idle"
        \/ snap' = Snapshot
    BY <1>1
    DEF BatchStep, BatchBegins, TickBatch, Deliver, Selected, Send, Admit, Reject, Choose,
        Begin, Record, Leave, batch
  <2> QED
    BY <1>0, <2>1, <2>2 DEF Snapshot, NoSnap
<1>2. CASE ServiceStep
  <2>1. UNCHANGED <<cand, born, epoch, enabled>>
    BY <1>2 DEF ServiceStep, Boot, Recover, Enqueue, EnqueueFails
  <2>2. \/ /\ outbox' = outbox
           /\ \/ snap' = snap /\ thread' \in {"recover", thread}
              \/ snap' = NoSnap /\ thread' \notin Here
        \/ /\ thread = "enqueue" /\ thread' = thread
           /\ snap'.new = snap.new /\ snap'.acks = snap.acks /\ outbox'.acks = snap.acks
    <3>1. CASE Boot
      BY <3>1 DEF Boot, batch
    <3>2. CASE \E m \in Items : Recover(m)
      BY <3>2 DEF Recover, batch, ProcessEnds
    <3>3. CASE \E m \in Items : Enqueue(m)
      BY <3>3 DEF Enqueue, IInv, TypeOK
    <3>4. CASE EnqueueFails
      BY <3>4 DEF EnqueueFails, Leave, ProcessEnds
    <3> QED
      BY <1>2, <3>1, <3>2, <3>3, <3>4 DEF ServiceStep
  <2> QED
    BY <1>0, <2>1, <2>2 DEF NoSnap
<1>3. CASE HttpStep
  <2>1. UNCHANGED <<snap, thread>>
    BY <1>3
    DEF HttpStep, Acknowledge, Close, CancelPending, Enable, Disable, Disabled, Test, batch
  <2>2. /\ outbox' = outbox \/ outbox.acks \subseteq outbox'.acks
        /\ cand'[n] = cand[n] \/ (cand'[n] = "closed" /\ cand[n] = "new")
    <3>1. ASSUME NEW m \in Items, Acknowledge(m)
          PROVE  outbox'.acks = outbox.acks \cup {m} /\ cand' = cand
      BY <3>1 DEF Acknowledge, IInv, TypeOK
    <3>2. ASSUME NEW m \in Items, Close(m)
          PROVE  outbox' = outbox /\ cand[m] = "new" /\ cand' = [cand EXCEPT ![m] = "closed"]
      BY <3>2 DEF Close
    <3>3. cand \in [Items -> {"none", "new", "closed"}]
      BY DEF IInv, TypeOK
    <3>4. CASE \E m \in Items : Acknowledge(m) \/ Close(m)
      BY <3>1, <3>2, <3>3, <3>4
    <3>5. CASE (\E m \in Items : CancelPending(m)) \/ Enable \/ Disable \/ Disabled \/ Test
      BY <3>5 DEF CancelPending, Enable, Disable, Disabled, Test
    <3> QED
      BY <1>3, <3>4, <3>5 DEF HttpStep
  <2>3. (epoch' = epoch /\ (enabled' = enabled \/ ~enabled')) \/ epoch' = epoch + 1
    BY <1>3
    DEF HttpStep, Acknowledge, Close, CancelPending, Enable, Disable, Disabled, Test
  <2> QED
    BY <1>0, <1>9, <2>1, <2>2, <2>3
<1>4. CASE \E m \in Items : Activate(m)
  <2>1. /\ cand'[n] = cand[n]
        /\ UNCHANGED <<outbox, snap, thread, epoch, enabled>>
    BY <1>4 DEF Activate, IInv, TypeOK, batch
  <2> QED
    BY <1>9, <2>1
<1>5. CASE Reconcile
  BY <1>5 DEF Reconcile, Snapshot
<1>6. CASE Tick \/ StepBack \/ CatchUp \/ Crash \/ UNCHANGED vars
  BY <1>6 DEF Tick, StepBack, CatchUp, Crash, ProcessEnds, NoSnap, batch, vars
<1> QED
  BY <1>1, <1>2, <1>3, <1>4, <1>5, <1>6 DEF Next

\* A candidate that has come up stays known.
LEMMA StepKnown ==
  ASSUME IInv, [Next]_vars, NEW n \in Items, cand[n] # "none"
  PROVE  cand'[n] # "none"
<1> USE DEF candidates
<1>1. CASE BatchStep
  BY <1>1
  DEF BatchStep, BatchBegins, TickBatch, Deliver, Selected, Send, Admit, Reject, Choose,
      Begin, Record
<1>2. CASE ServiceStep
  BY <1>2 DEF ServiceStep, Boot, Recover, Enqueue, EnqueueFails
<1>3. CASE HttpStep
  BY <1>3
  DEF HttpStep, Acknowledge, Close, CancelPending, Enable, Disable, Disabled, Test, IInv, TypeOK
<1>4. CASE \E m \in Items : Activate(m)
  BY <1>4 DEF Activate, IInv, TypeOK
<1>5. CASE Reconcile \/ Tick \/ StepBack \/ CatchUp \/ Crash \/ UNCHANGED vars
  BY <1>5 DEF Reconcile, Tick, StepBack, CatchUp, Crash, vars
<1> QED
  BY <1>1, <1>2, <1>3, <1>4, <1>5 DEF Next

\* Only a batch shows anything: what it has chosen.
LEMMA StepShown ==
  ASSUME [Next]_vars
  PROVE  shown' = shown \/ Send
<1> USE DEF hist
<1>1. CASE BatchStep
  BY <1>1
  DEF BatchStep, BatchBegins, TickBatch, Deliver, Selected, Admit, Reject, Choose, Begin,
      Record
<1>2. CASE ServiceStep
  BY <1>2 DEF ServiceStep, Boot, Recover, Enqueue, EnqueueFails
<1>3. CASE HttpStep
  BY <1>3 DEF HttpStep, Acknowledge, Close, CancelPending, Enable, Disable, Disabled, Test
<1>4. CASE (\E m \in Items : Activate(m)) \/ Reconcile \/ Tick \/ StepBack \/ CatchUp \/ Crash
           \/ UNCHANGED vars
  BY <1>4 DEF Activate, Reconcile, Tick, StepBack, CatchUp, Crash, vars
<1> QED
  BY <1>1, <1>2, <1>3, <1>4 DEF Next

\* A process that ends leaves nothing behind in memory.
LEMMA StepEnds ==
  ASSUME [Next]_vars, thread # "down", thread' = "down"
  PROVE  ProcessEnds
<1> USE DEF batch
<1>1. CASE BatchStep
  BY <1>1
  DEF BatchStep, BatchBegins, TickBatch, Deliver, Selected, Send, Admit, Reject, Choose,
      Begin, Record, Leave
<1>2. CASE ServiceStep
  BY <1>2 DEF ServiceStep, Boot, Recover, Enqueue, EnqueueFails, Leave, ProcessEnds
<1>3. CASE HttpStep
  BY <1>3 DEF HttpStep, Acknowledge, Close, CancelPending, Enable, Disable, Disabled, Test
<1>4. CASE (\E m \in Items : Activate(m)) \/ Reconcile \/ Tick \/ StepBack \/ CatchUp \/ Crash
           \/ UNCHANGED vars
  BY <1>4 DEF Activate, Reconcile, Tick, StepBack, CatchUp, Crash, vars
<1> QED
  BY <1>1, <1>2, <1>3, <1>4 DEF Next

\* Nothing but a start leads to the recovery.
LEMMA StepRecover ==
  ASSUME [Next]_vars, thread # "down", thread' = "recover"
  PROVE  thread = "recover"
<1> USE DEF batch
<1>1. CASE BatchStep
  BY <1>1
  DEF BatchStep, BatchBegins, TickBatch, Deliver, Selected, Send, Admit, Reject, Choose,
      Begin, Record, Leave
<1>2. CASE ServiceStep
  BY <1>2 DEF ServiceStep, Boot, Recover, Enqueue, EnqueueFails, Leave, ProcessEnds
<1>3. CASE HttpStep
  BY <1>3 DEF HttpStep, Acknowledge, Close, CancelPending, Enable, Disable, Disabled, Test
<1>4. CASE (\E m \in Items : Activate(m)) \/ Reconcile \/ Tick \/ StepBack \/ CatchUp \/ Crash
           \/ UNCHANGED vars
  BY <1>4 DEF Activate, Reconcile, Tick, StepBack, CatchUp, Crash, ProcessEnds, vars
<1> QED
  BY <1>1, <1>2, <1>3, <1>4 DEF Next

-----------------------------------------------------------------------------
(* The invariant *)

\* Cache and journal agree but for records that could not be confirmed, and
\* the journal loads unless one of these has been overwritten.
LEMMA StepJournaled == IInv /\ [Next]_vars => Journaled'
<1> SUFFICES ASSUME IInv, [Next]_vars PROVE Journaled'
  OBVIOUS
<1>0. /\ Journaled
      /\ disk \in [Items -> Deliveries] /\ mem \in [Items -> Deliveries]
      /\ torn \in BOOLEAN /\ corrupt \in BOOLEAN
  BY DEF IInv, TypeOK
<1>1. \A n \in Items : cand[n] # "none" => cand'[n] # "none"
  BY StepKnown
<1>2. backs' = 0 => backs = 0 /\ \A n \in Items : Barred(n) => Barred(n)'
  BY StepBacks, StepBarred
<1>3. ASSUME NEW n \in Items, NEW d \in Deliveries, Write(n, d)
      PROVE  Journaled'
  <2>1. Legal(n, d)
    BY <1>3 DEF Write
  <2>2. /\ disk' = disk \/ disk' = [disk EXCEPT ![n] = d]
        /\ mem' = mem \/ mem' = [mem EXCEPT ![n] = d]
           \/ (ProcessEnds /\ mem' = [m \in Items |-> Absent])
        /\ torn => torn'
    BY <1>3 DEF Write, Wrote, Raises, Recorded, ProcessEnds
  <2>a. Well(Absent)
    BY ChannelAssumption DEF Well, Absent, Deliveries, Statuses, Waiting
  <2>b. /\ \A m \in Items \ {n} : /\ disk'[m] = disk[m]
                                  /\ mem'[m] = mem[m] \/ (thread' = "down" /\ mem'[m] = Absent)
        /\ disk'[n] = disk[n] \/ disk'[n] = d
        /\ mem'[n] = mem[n] \/ mem'[n] = d \/ (thread' = "down" /\ mem'[n] = Absent)
        /\ n \in Items
    BY <1>0, <2>2 DEF ProcessEnds
  <2>3. \A m \in Items : Well(disk'[m]) /\ Well(mem'[m])
    <3> TAKE m \in Items
    <3>1. Well(disk[m]) /\ Well(mem[m]) /\ Well(d)
      BY <1>0, <2>1 DEF Legal, Journaled
    <3>2. disk'[m] \in {disk[m], d} /\ mem'[m] \in {mem[m], d, Absent}
      BY <2>b
    <3> QED
      BY <2>a, <3>1, <3>2
  <2>4. ASSUME NEW m \in Items, disk'[m].status # "absent" \/ mem'[m].status # "absent"
        PROVE  cand'[m] # "none"
    <3>1. CASE m = n
      BY <1>1, <2>1, <3>1 DEF Legal
    <3>2. CASE m # n
      <4>1. disk'[m] = disk[m] /\ mem'[m] \in {mem[m], Absent}
        BY <2>b, <3>2
      <4>2. cand[m] # "none"
        BY <1>0, <2>4, <4>1 DEF Journaled, Absent
      <4> QED
        BY <1>1, <4>2
    <3> QED
      BY <3>1, <3>2
  <2>5. thread' = "down" => ProcessEnds
    BY <2>1, StepEnds DEF Legal
  <2>6. ASSUME NEW m \in Items, thread' # "down" PROVE Agrees(m)'
    <3>1. Agrees(m) /\ (thread' = "recover" => thread = "recover")
      BY <1>0, <2>1, StepRecover DEF Legal, Journaled
    <3>2. CASE m # n
      <4>1. disk'[m] = disk[m] /\ mem'[m] = mem[m]
        BY <2>b, <2>6, <3>2
      <4> QED
        BY <1>2, <2>2, <3>1, <4>1 DEF Agrees
    <3>3. CASE m = n /\ Wrote(n, d)
      BY <1>0, <3>3 DEF Wrote, Recorded, Agrees
    <3>4. CASE m = n /\ Raises(n, d) /\ ~Wrote(n, d)
      <4>1. mem' = mem /\ thread' # "recover"
        BY <1>3, <2>1, <2>6, <3>4, StepRecover DEF Legal, Write, ProcessEnds
      <4>2. CASE UNCHANGED <<disk, torn>>
        BY <1>2, <3>1, <3>4, <4>1, <4>2 DEF Agrees
      <4>3. CASE torn' /\ disk' = [disk EXCEPT ![n] = d]
        BY <1>0, <1>2, <2>1, <3>4, <4>1, <4>3 DEF Agrees, Legal
      <4> QED
        BY <3>4, <4>2, <4>3 DEF Raises, Recorded
    <3> QED
      BY <1>3, <3>2, <3>3, <3>4 DEF Write
  <2>7. corrupt' => torn' \/ backs' # 0
    <3>1. CASE torn' \/ backs' # 0
      BY <3>1
    <3>2. CASE ~torn' /\ backs' = 0
      <4>0. future.updated = {}
        BY <3>2, StepBacks DEF NoFuture
      <4>1. mem[n] = disk[n]
        BY <1>0, <2>1, <2>2, <3>2 DEF Legal, Journaled, Agrees
      <4>2. corrupt' = corrupt
        BY <1>0, <1>3, <2>1, <3>2, <4>0, <4>1
        DEF Write, Wrote, Raises, Recorded, Legal, Follows
      <4> QED
        BY <1>0, <1>2, <2>2, <3>2, <4>2 DEF Journaled
    <3> QED
      BY <3>1, <3>2
  <2> QED
    BY <2>3, <2>4, <2>5, <2>6, <2>7 DEF Journaled, ProcessEnds
<1>4. CASE Quiet
  <2>1. UNCHANGED <<disk, corrupt, torn>>
    BY <1>4 DEF Quiet
  <2>2. CASE /\ mem' = mem
             /\ thread' # thread => thread # "down" /\ thread' \notin {"down", "recover"}
    BY <1>0, <1>1, <1>2, <2>1, <2>2 DEF Journaled, Agrees
  <2>3. CASE ProcessEnds
    BY <1>0, <1>1, <1>2, <2>1, <2>3, ChannelAssumption
    DEF Journaled, ProcessEnds, Well, Absent, Deliveries, Statuses, Waiting
  <2>4. CASE Boot
    BY <1>0, <1>1, <1>2, <2>1, <2>4 DEF Journaled, Boot, Agrees
  <2> QED
    BY <1>4, <2>2, <2>3, <2>4 DEF Quiet
<1> QED
  BY <1>3, <1>4, StepWrites

\* What may be sent has not been shown: a retry is recorded only of what
\* certainly did not appear.
LEMMA StepUnshown == IInv /\ [Next]_vars => Unshown'
<1> SUFFICES ASSUME IInv, [Next]_vars, NEW n \in Items
             PROVE  /\ Stage(n)' = "waiting" => shown'[n] = 0
                    /\ thread' # "down" /\ mem'[n].status \in Waiting \cup {"absent"}
                         => shown'[n] = 0
  BY DEF Unshown
<1>0. /\ Stage(n) = "waiting" => shown[n] = 0
      /\ thread # "down" /\ mem[n].status \in Waiting \cup {"absent"} => shown[n] = 0
      /\ disk \in [Items -> Deliveries] /\ mem \in [Items -> Deliveries]
  BY DEF IInv, Unshown, TypeOK
<1>1. CASE Send
  <2>1. /\ disk' = disk /\ mem' = mem
        /\ \E S \in SUBSET chosen :
             shown' = [m \in Items |-> IF m \in S THEN shown[m] + 1 ELSE shown[m]]
    BY <1>1 DEF Send, journal
  <2>2. n \in chosen => mem[n] = disk[n] /\ mem[n].status = "attempting" /\ thread # "down"
    BY <1>1 DEF Send, IInv, Batched
  <2>3. n \in chosen => Stage(n) = "out"
    BY <2>2 DEF Stage, Settled
  <2>4. CASE n \in chosen
    <3>1. Stage(n)' = Stage(n)
      BY <2>1 DEF Stage
    <3> QED
      BY <2>1, <2>2, <2>3, <2>4, <3>1 DEF Waiting
  <2>5. CASE n \notin chosen
    <3>1. shown'[n] = shown[n]
      BY <2>1, <2>5
    <3>2. thread # "down"
      BY <1>1 DEF Send
    <3> QED
      BY <1>0, <2>1, <3>1, <3>2 DEF Stage
  <2> QED
    BY <2>4, <2>5
<1>2. CASE shown' = shown /\ Quiet
  <2>1. Stage(n)' = Stage(n)
    BY <1>2 DEF Quiet, Stage
  <2>2. CASE Boot
    BY <1>0, <1>2, <2>1, <2>2 DEF Boot, Stage, Waiting, Settled
  <2>3. CASE ~Boot
    BY <1>0, <1>2, <2>1, <2>3 DEF Quiet, ProcessEnds
  <2> QED
    BY <2>2, <2>3
<1>3. ASSUME shown' = shown, NEW m \in Items, NEW d \in Deliveries, Write(m, d)
      PROVE  /\ Stage(n)' = "waiting" => shown'[n] = 0
             /\ thread' # "down" /\ mem'[n].status \in Waiting \cup {"absent"}
                  => shown'[n] = 0
  <2>1. Legal(m, d)
    BY <1>3 DEF Write
  <2>2. /\ disk' = disk \/ disk' = [disk EXCEPT ![m] = d]
        /\ mem' = mem \/ mem' = [mem EXCEPT ![m] = d] \/ thread' = "down"
    BY <1>3 DEF Write, Wrote, Raises, Recorded, ProcessEnds
  <2>3. d.status \in Waiting \cup {"absent"} => shown[m] = 0
    <3>1. Follows(mem[m], d) /\ mem[m].status \in Statuses
      BY <1>0, <2>1, Fields DEF Legal
    <3>2. d.status \in {"pending", "absent"} => mem[m].status = "absent"
      BY <3>1, Transitions DEF Follows, Statuses, Settled
    <3>3. d.status = "retry_wait" => shown[m] = 0
      BY <2>1 DEF Legal
    <3>4. mem[m].status = "absent" => shown[m] = 0
      BY <2>1 DEF Legal, IInv, Unshown
    <3> QED
      BY <3>2, <3>3, <3>4 DEF Waiting
  <2>4. disk'[n] = disk[n] \/ (n = m /\ disk'[n] = d)
    BY <1>0, <2>2
  <2>5. mem'[n] = mem[n] \/ (n = m /\ mem'[n] = d) \/ thread' = "down"
    BY <1>0, <2>2
  <2>6. Stage(n)' = "waiting" => disk'[n] # d \/ d.status \in Waiting \cup {"absent"}
    BY <1>3 DEF Stage, Settled, Waiting, Deliveries, Statuses
  <2>7. disk'[n] = disk[n] => Stage(n)' = Stage(n)
    BY DEF Stage
  <2>8. thread # "down"
    BY <2>1 DEF Legal
  <2> QED
    BY <1>0, <1>3, <2>3, <2>4, <2>5, <2>6, <2>7, <2>8
<1> QED
  BY <1>1, <1>2, <1>3, StepShown, StepWrites

\* The thread and the channel exclude each other, and a snapshot misses no
\* candidate that is still new.
LEMMA StepThreaded == IInv /\ [Next]_vars => Threaded'
<1> SUFFICES ASSUME IInv, [Next]_vars PROVE Threaded'
  OBVIOUS
<1>0. TypeOK /\ Threaded
  BY DEF IInv
<1> USE DEF candidates, config, channel, journal, batch, hist, bounds, Threaded, Here, Batching
<1>1. CASE BatchStep
  <2>1. UNCHANGED <<cand, born, outbox, epoch, enabled, configs, http>>
    BY <1>1
    DEF BatchStep, BatchBegins, TickBatch, Deliver, Selected, Send, Admit, Reject, Choose,
        Begin, Record
  <2>2. \/ snap' = snap /\ thread \in Here /\ serving' = serving
           /\ thread' \in Here /\ (thread' # thread => enabled /\ http = "free")
        \/ snap' = NoSnap /\ thread' = "idle" /\ serving'
        \/ snap' = Snapshot /\ thread' = "admit" /\ enabled /\ http = "free"
           /\ serving' = serving
    <3>1. CASE BatchBegins
      BY <3>1 DEF BatchBegins, Leave
    <3>2. CASE TickBatch
      BY <3>2 DEF TickBatch
    <3>3. CASE Deliver \/ Selected \/ Send
      BY <1>0, <3>3 DEF Deliver, Selected, Send, Leave
    <3>4. CASE \E n \in Items : Admit(n) \/ Reject(n) \/ Choose(n) \/ Begin(n) \/ Record(n)
      BY <1>0, <3>4 DEF Admit, Reject, Choose, Begin, Record, Leave
    <3> QED
      BY <1>1, <3>1, <3>2, <3>3, <3>4 DEF BatchStep
  <2> QED
    BY <1>0, <2>1, <2>2 DEF Snapshot, NoSnap, TypeOK
<1>2. CASE Boot
  BY <1>0, <1>2 DEF Boot
<1>3. ASSUME NEW n \in Items, Recover(n) PROVE Threaded'
  BY <1>0, <1>3 DEF Recover, ProcessEnds, NoSnap
<1>4. ASSUME NEW n \in Items, Enqueue(n) PROVE Threaded'
  <2>1. /\ snap'.new = snap.new /\ snap'.acks = snap.acks /\ outbox'.acks = snap.acks
        /\ thread' = thread /\ thread = "enqueue" /\ UNCHANGED <<enabled, http, serving>>
        /\ UNCHANGED <<cand, born, epoch, configs>>
    BY <1>0, <1>4 DEF Enqueue, TypeOK
  <2> QED
    BY <1>0, <2>1
<1>5. CASE EnqueueFails
  BY <1>0, <1>5 DEF EnqueueFails, Leave, ProcessEnds, NoSnap
<1>6. ASSUME NEW n \in Items, Acknowledge(n) PROVE Threaded'
  <2>1. outbox'.acks = outbox.acks \cup {n}
    BY <1>0, <1>6 DEF Acknowledge, TypeOK
  <2> QED
    BY <1>0, <1>6, <2>1 DEF Acknowledge
<1>7. ASSUME NEW n \in Items, Close(n) PROVE Threaded'
  BY <1>0, <1>7 DEF Close, TypeOK
<1>8. ASSUME NEW n \in Items, CancelPending(n) PROVE Threaded'
  BY <1>0, <1>8 DEF CancelPending
<1>9. CASE Enable
  BY <1>0, <1>9, NotificationBounds DEF Enable, TypeOK
<1>10. CASE Disable
  BY <1>0, <1>10, NotificationBounds DEF Disable, TypeOK
<1>11. CASE Disabled
  BY <1>0, <1>11 DEF Disabled
<1>12. ASSUME NEW n \in Items, Activate(n) PROVE Threaded'
  <2>1. /\ \A m \in Items : m # n => cand'[m] = cand[m] /\ born'[m] = born[m]
        /\ cand'[n] = "new" /\ born'[n] = IF future.enabled THEN epoch - 1 ELSE epoch
    BY <1>0, <1>12 DEF Activate, TypeOK
  <2>2. /\ thread' = thread /\ thread \notin Here
        /\ UNCHANGED <<enabled, http, epoch, configs, outbox, serving, snap>>
    BY <1>12 DEF Activate
  <2> QED
    BY <1>0, <2>1, <2>2 DEF TypeOK, NoSnap
<1>13. CASE Reconcile
  BY <1>0, <1>13 DEF Reconcile, Snapshot, TypeOK
<1>14. CASE Tick
  BY <1>0, <1>14 DEF Tick
<1>15. CASE Crash
  BY <1>0, <1>15 DEF Crash, ProcessEnds, NoSnap
<1>16. CASE Test \/ StepBack \/ CatchUp \/ UNCHANGED vars
  BY <1>0, <1>16 DEF Test, StepBack, CatchUp, vars
<1> QED
  BY <1>1, <1>2, <1>3, <1>4, <1>5, <1>6, <1>7, <1>8, <1>9, <1>10, <1>11, <1>12, <1>13, <1>14,
     <1>15, <1>16 DEF Next, ServiceStep, HttpStep

\* What the clock has left behind.
LEMMA StepTimed == IInv /\ [Next]_vars => Timed'
<1> SUFFICES ASSUME IInv, [Next]_vars PROVE Timed'
  OBVIOUS
<1> DEFINE F == [born: SUBSET Items, updated: SUBSET Items, enabled: BOOLEAN, batch: BOOLEAN]
<1>0. /\ backs \in 0..MaxBacks /\ (backs = 0 => future = NoFuture)
      /\ (future.enabled => enabled) /\ (enabled => epoch # 0) /\ (torn => TornWrites)
      /\ future \in F
      /\ epoch \in Nat /\ enabled \in BOOLEAN /\ MaxBacks \in Nat
  BY NotificationBounds DEF IInv, Timed, TypeOK
<1>1. NoFuture.enabled = FALSE /\ NoFuture.updated = {}
  BY DEF NoFuture
<1> USE DEF candidates, config, channel, journal, bounds
<1>2. CASE UNCHANGED <<backs, future, torn, enabled, epoch>>
  BY <1>0, <1>2 DEF Timed
<1>3. ASSUME UNCHANGED <<backs, enabled, epoch>>, torn' => TornWrites, NEW U,
             future' = [future EXCEPT !.updated = future.updated \ U]
      PROVE  Timed'
  <2>1. future'.enabled = future.enabled
    BY <1>0, <1>3
  <2>2. future = NoFuture => future' = NoFuture
    BY <1>3 DEF NoFuture
  <2> QED
    BY <1>0, <1>3, <2>1, <2>2 DEF Timed
<1>4. ASSUME backs' = backs, torn' = torn, future' = [future EXCEPT !.enabled = FALSE],
             enabled' => epoch' # 0
      PROVE  Timed'
  <2>1. future'.enabled = FALSE
    BY <1>0, <1>4
  <2>2. ASSUME future = NoFuture PROVE future' = NoFuture
    <3>1. \A f \in F : f = [born |-> f.born, updated |-> f.updated, enabled |-> f.enabled,
                           batch |-> f.batch]
      OBVIOUS
    <3>2. future' \in F /\ future'.born = {} /\ future'.updated = {} /\ future'.batch = FALSE
      BY <1>0, <1>4, <2>2 DEF NoFuture
    <3> QED
      BY <2>1, <3>1, <3>2 DEF NoFuture
  <2> QED
    BY <1>0, <1>4, <2>1, <2>2 DEF Timed
<1>5. ASSUME NEW n \in Items, NEW d,
             Wrote(n, d) \/ Raises(n, d) \/ UNCHANGED <<future, torn>>,
             UNCHANGED <<backs, enabled, epoch>>
      PROVE  Timed'
  <2>1. CASE Wrote(n, d)
    BY <1>0, <1>3, <1>5, <2>1 DEF Wrote
  <2>2. CASE Raises(n, d)
    <3>1. future' = future /\ (torn' => TornWrites)
      BY <1>0, <2>2 DEF Raises
    <3> QED
      BY <1>0, <1>5, <3>1 DEF Timed
  <2>3. CASE UNCHANGED <<future, torn>>
    BY <1>2, <1>5, <2>3
  <2> QED
    BY <1>5, <2>1, <2>2, <2>3
<1>6. ASSUME NEW n \in Items,
             Admit(n) \/ Reject(n) \/ Begin(n) \/ Record(n) \/ Recover(n) \/ CancelPending(n)
      PROVE  Timed'
  <2>1. UNCHANGED <<backs, enabled, epoch>>
    BY <1>6 DEF Admit, Reject, Begin, Record, Recover, CancelPending
  <2>2. \E d : Wrote(n, d) \/ Raises(n, d) \/ UNCHANGED <<future, torn>>
    BY <1>6 DEF Admit, Reject, Begin, Record, Recover, CancelPending, WriteFails
  <2> QED
    BY <1>5, <2>1, <2>2
<1>7. ASSUME NEW n \in Items, Enqueue(n) \/ Acknowledge(n) \/ Close(n) \/ Activate(n) \/ Choose(n)
      PROVE  Timed'
  BY <1>2, <1>7 DEF Enqueue, Acknowledge, Close, Activate, Choose
<1>8. CASE BatchBegins \/ TickBatch \/ Deliver \/ Selected \/ Send
  BY <1>2, <1>8 DEF BatchBegins, TickBatch, Deliver, Selected, Send
<1>9. CASE Boot \/ Reconcile \/ EnqueueFails \/ Disabled \/ Test \/ Tick \/ Crash
           \/ UNCHANGED vars
  BY <1>2, <1>9 DEF Boot, Reconcile, EnqueueFails, Disabled, Test, Tick, Crash, vars
<1>10. CASE Enable
  BY <1>0, <1>4, <1>10 DEF Enable
<1>11. CASE Disable
  BY <1>0, <1>4, <1>11 DEF Disable
<1>12. CASE StepBack
  <2>1. backs' = backs + 1 /\ backs < MaxBacks /\ UNCHANGED <<torn, enabled, epoch>>
        /\ future'.enabled = enabled
    BY <1>12 DEF StepBack
  <2> QED
    BY <1>0, <2>1 DEF Timed
<1>13. CASE CatchUp
  <2>1. UNCHANGED <<backs, torn, enabled, epoch>> /\ future' = NoFuture
    BY <1>13 DEF CatchUp
  <2> QED
    BY <1>0, <1>1, <2>1 DEF Timed
<1> QED
  BY <1>6, <1>7, <1>8, <1>9, <1>10, <1>11, <1>12, <1>13
  DEF Next, BatchStep, ServiceStep, HttpStep

\* An activation is newer than everything that was revoked.
LEMMA StepRevocation == IInv /\ [Next]_vars => Revocation'
<1> SUFFICES ASSUME IInv, [Next]_vars, NEW n \in revoked'
             PROVE  cand'[n] # "none" /\ (backs' = 0 => born'[n] # epoch' \/ ~enabled')
  BY DEF Revocation
<1>0. /\ TypeOK
      /\ \A m \in Items : born[m] <= epoch /\ born[m] \in Nat /\ epoch \in Nat
      /\ \A m \in revoked :
           m \in Items /\ cand[m] # "none" /\ (backs = 0 => born[m] # epoch \/ ~enabled)
      /\ backs' = 0 => backs = 0 /\ future.born = {}
  BY StepBacks DEF IInv, Threaded, TypeOK, Revocation, NoFuture
<1> USE DEF candidates, config, channel, hist
<1>1. CASE Enable
  BY <1>0, <1>1 DEF Enable, Revoke
<1>2. CASE Disable
  BY <1>0, <1>2 DEF Disable, Revoke
<1>3. CASE ~Enable /\ ~Disable
  <2>1. UNCHANGED <<epoch, enabled, revoked>>
    <3>1. CASE BatchStep
      BY <3>1
      DEF BatchStep, BatchBegins, TickBatch, Deliver, Selected, Send, Admit, Reject, Choose,
          Begin, Record
    <3>2. CASE ServiceStep
      BY <3>2 DEF ServiceStep, Boot, Recover, Enqueue, EnqueueFails
    <3>3. CASE HttpStep
      BY <1>3, <3>3 DEF HttpStep, Acknowledge, Close, CancelPending, Disabled, Test
    <3>4. CASE (\E m \in Items : Activate(m)) \/ Reconcile \/ Tick \/ StepBack \/ CatchUp
               \/ Crash \/ UNCHANGED vars
      BY <3>4 DEF Activate, Reconcile, Tick, StepBack, CatchUp, Crash, vars
    <3> QED
      BY <3>1, <3>2, <3>3, <3>4 DEF Next
  <2>2. n \in Items /\ cand[n] # "none" /\ (backs = 0 => born[n] # epoch \/ ~enabled)
    BY <1>0, <2>1
  <2> QED
    BY <1>0, <2>1, <2>2, StepKnown, StepBorn
<1> QED
  BY <1>1, <1>2, <1>3

\* What the batch has in hand stays as its steps left it: nothing but the
\* batch writes the deliveries it has chosen.
LEMMA StepBatched == IInv /\ [Next]_vars => Batched'
<1> SUFFICES ASSUME IInv, [Next]_vars PROVE Batched'
  OBVIOUS
<1>0. /\ TypeOK /\ Batched
      /\ disk \in [Items -> Deliveries] /\ mem \in [Items -> Deliveries]
      /\ work \subseteq Items /\ chosen \subseteq Items
  BY DEF IInv, TypeOK
<1> USE DEF candidates, config, channel, journal, batch, hist, bounds, Batched
<1>1. CASE BatchBegins \/ TickBatch
  BY <1>0, <1>1 DEF BatchBegins, TickBatch, Leave
<1>2. CASE Deliver
  BY <1>0, <1>2 DEF Deliver, Leave, Due, Waiting
<1>3. CASE Selected
  BY <1>0, <1>3 DEF Selected, Leave, Eligible
<1>4. CASE Send
  <2>1. PICK S \in SUBSET chosen :
          /\ reply' \in Answers(S)
          /\ shown' = [n \in Items |-> IF n \in S THEN shown[n] + 1 ELSE shown[n]]
    BY <1>4 DEF Send
  <2>2. /\ thread = "begin" /\ work = {}
        /\ thread' = "record" /\ work' = chosen /\ UNCHANGED <<chosen, mem, disk>>
    BY <1>4 DEF Send
  <2>3. reply' \in [chosen -> {"accepted", "retryable", "unknown"}]
    BY <2>1 DEF Answers
  <2>4. \A n \in chosen : reply'[n] = "retryable" => n \notin S
    BY <2>1 DEF Answers
  <2>5. \A n \in chosen :
          /\ n \in Items /\ shown[n] = 0
          /\ mem[n] = disk[n] /\ mem[n].status = "attempting"
    BY <1>0, <2>2
  <2> QED
    BY <2>1, <2>2, <2>3, <2>4, <2>5
<1>5. ASSUME NEW n \in Items, Admit(n) PROVE Batched'
  BY <1>0, <1>5 DEF Admit, Leave
<1>6. ASSUME NEW n \in Items, Reject(n) PROVE Batched'
  <2>1. CASE thread' = "idle"
    BY <1>6, <2>1 DEF Reject, Leave
  <2>2. CASE thread' # "idle"
    <3>1. /\ \A m \in Items : m # n => mem'[m] = mem[m]
          /\ work' = work \ {n} /\ n \in work /\ thread = "select" /\ thread' = "select"
          /\ UNCHANGED <<chosen, snap, born, epoch, shown>>
      BY <1>0, <1>6, <2>2 DEF Reject, First, Leave, Wrote
    <3> QED
      BY <1>0, <3>1 DEF Eligible
  <2> QED
    BY <2>1, <2>2
<1>7. ASSUME NEW n \in Items, Choose(n) PROVE Batched'
  <2>1. /\ thread = "select" /\ n \in work /\ Eligible(n) /\ mem[n].status \in Waiting
        /\ shown[n] = 0
    BY <1>0, <1>7 DEF Choose, First, IInv, Unshown
  <2>2. /\ UNCHANGED <<thread, mem, snap, born, epoch, shown>>
        /\ \/ chosen' = chosen \cup {n} /\ work' = work \ {n}
           \/ chosen' = chosen /\ work' = {}
    BY <1>7 DEF Choose
  <2> QED
    BY <1>0, <2>1, <2>2 DEF Eligible
<1>8. ASSUME NEW n \in Items, Begin(n) PROVE Batched'
  <2>1. CASE thread' = "idle"
    BY <1>8, <2>1 DEF Begin, Leave
  <2>2. CASE thread' # "idle"
    <3>1. /\ \A m \in Items : m # n => mem'[m] = mem[m] /\ disk'[m] = disk[m]
          /\ mem'[n] = disk'[n] /\ mem'[n].status = "attempting"
          /\ work' = work \ {n} /\ n \in work /\ thread = "begin" /\ thread' = "begin"
          /\ UNCHANGED <<chosen, snap, born, epoch, shown>>
      BY <1>0, <1>8, <2>2 DEF Begin, First, Leave, Wrote, Recorded
    <3> QED
      BY <1>0, <3>1 DEF Eligible
  <2> QED
    BY <2>1, <2>2
<1>9. ASSUME NEW n \in Items, Record(n) PROVE Batched'
  <2>1. CASE thread' = "idle"
    BY <1>9, <2>1 DEF Record, Leave
  <2>2. CASE thread' # "idle"
    <3>1. /\ \A m \in Items : m # n => mem'[m] = mem[m] /\ disk'[m] = disk[m]
          /\ work' = work \ {n} /\ thread = "record" /\ thread' = "record"
          /\ UNCHANGED <<chosen, reply, shown>>
      BY <1>0, <1>9, <2>2 DEF Record, First, Leave, Wrote, Recorded
    <3> QED
      BY <1>0, <3>1
  <2> QED
    BY <2>1, <2>2
<1>10. CASE Boot
  BY <1>0, <1>10 DEF Boot
<1>11. CASE Reconcile
  BY <1>0, <1>11 DEF Reconcile
<1>12. CASE EnqueueFails
  BY <1>0, <1>12 DEF EnqueueFails, Leave, ProcessEnds
<1>13. ASSUME NEW n \in Items, Recover(n) PROVE Batched'
  BY <1>0, <1>13 DEF Recover, ProcessEnds
<1>14. ASSUME NEW n \in Items, Enqueue(n) PROVE Batched'
  BY <1>0, <1>14 DEF Enqueue
<1>15. ASSUME NEW n \in Items, CancelPending(n) PROVE Batched'
  <2>1. thread \notin {"select", "begin", "record"}
    BY <1>15 DEF CancelPending, IInv, Threaded, Batching
  <2> QED
    BY <1>0, <1>15, <2>1 DEF CancelPending
<1>16. ASSUME NEW n \in Items, Acknowledge(n) \/ Close(n) PROVE Batched'
  BY <1>0, <1>16 DEF Acknowledge, Close, Eligible
<1>17. CASE Enable
  BY <1>0, <1>17 DEF Enable, Batching
<1>18. CASE Disable \/ Disabled \/ Test \/ Tick \/ StepBack \/ CatchUp \/ UNCHANGED vars
  BY <1>0, <1>18 DEF Disable, Disabled, Test, Tick, StepBack, CatchUp, vars, Eligible
<1>19. ASSUME NEW n \in Items, Activate(n) PROVE Batched'
  BY <1>0, <1>19 DEF Activate
<1>20. CASE Crash
  BY <1>20 DEF Crash, ProcessEnds
<1> QED
  BY <1>1, <1>2, <1>3, <1>4, <1>5, <1>6, <1>7, <1>8, <1>9, <1>10, <1>11, <1>12, <1>13, <1>14,
     <1>15, <1>16, <1>17, <1>18, <1>19, <1>20 DEF Next, BatchStep, ServiceStep, HttpStep

\* The deliveries keep their types: what is written is legal.
LEMMA StepDeliveries ==
  ASSUME IInv, [Next]_vars
  PROVE  /\ disk' \in [Items -> Deliveries] /\ mem' \in [Items -> Deliveries]
         /\ corrupt' \in BOOLEAN /\ torn' \in BOOLEAN
<1>0. /\ disk \in [Items -> Deliveries] /\ mem \in [Items -> Deliveries]
      /\ corrupt \in BOOLEAN /\ torn \in BOOLEAN /\ Absent \in Deliveries
  BY Transitions DEF IInv, TypeOK
<1>1. ASSUME NEW n \in Items, NEW d \in Deliveries, Write(n, d)
      PROVE  /\ disk' \in [Items -> Deliveries] /\ mem' \in [Items -> Deliveries]
             /\ corrupt' \in BOOLEAN /\ torn' \in BOOLEAN
  BY <1>0, <1>1 DEF Write, Wrote, Raises, Recorded, ProcessEnds
<1>2. CASE Quiet
  BY <1>0, <1>2 DEF Quiet, ProcessEnds, Boot
<1> QED
  BY <1>1, <1>2, StepWrites

\* What carries a time to come is among what there is.
LEMMA StepFuture ==
  ASSUME IInv, [Next]_vars
  PROVE  future' \in [born: SUBSET Items, updated: SUBSET Items, enabled: BOOLEAN, batch: BOOLEAN]
<1> DEFINE F == [born: SUBSET Items, updated: SUBSET Items, enabled: BOOLEAN, batch: BOOLEAN]
<1>0. future \in F /\ enabled \in BOOLEAN /\ marked \in BOOLEAN
  BY DEF IInv, TypeOK
<1> USE DEF journal
<1>1. CASE future' = future
  BY <1>0, <1>1
<1>2. ASSUME NEW n \in Items, NEW d, Wrote(n, d) PROVE future' \in F
  BY <1>0, <1>2 DEF Wrote
<1>3. ASSUME NEW n \in Items,
             Admit(n) \/ Reject(n) \/ Begin(n) \/ Record(n) \/ Recover(n) \/ CancelPending(n)
      PROVE  future' \in F
  <2>1. future' = future \/ \E d : Wrote(n, d)
    BY <1>3 DEF Admit, Reject, Begin, Record, Recover, CancelPending, WriteFails, Raises
  <2> QED
    BY <1>1, <1>2, <2>1
<1>4. ASSUME NEW n \in Items, Enqueue(n) \/ Acknowledge(n) \/ Close(n) \/ Activate(n) \/ Choose(n)
      PROVE  future' \in F
  BY <1>1, <1>4 DEF Enqueue, Acknowledge, Close, Activate, Choose
<1>5. CASE BatchBegins \/ TickBatch \/ Deliver \/ Selected \/ Send
  BY <1>1, <1>5 DEF BatchBegins, TickBatch, Deliver, Selected, Send
<1>6. CASE Boot \/ Reconcile \/ EnqueueFails \/ Disabled \/ Test \/ Tick \/ Crash
           \/ UNCHANGED vars
  BY <1>1, <1>6 DEF Boot, Reconcile, EnqueueFails, Disabled, Test, Tick, Crash, vars
<1>7. CASE Enable \/ Disable
  BY <1>0, <1>7 DEF Enable, Disable
<1>8. CASE StepBack
  <2>1. /\ {n \in Items : cand[n] # "none"} \in SUBSET Items
        /\ {n \in Items : disk[n] # Absent} \in SUBSET Items
    OBVIOUS
  <2> QED
    BY ZenonT(60), <1>0, <1>8, <2>1 DEF StepBack
<1>9. CASE CatchUp
  <2>1. {} \in SUBSET Items /\ FALSE \in BOOLEAN
    OBVIOUS
  <2> QED
    BY ZenonT(60), <1>9, <2>1 DEF CatchUp, NoFuture
<1> QED
  BY <1>3, <1>4, <1>5, <1>6, <1>7, <1>8, <1>9 DEF Next, BatchStep, ServiceStep, HttpStep

\* The other variables keep their types.
LEMMA StepTyped == IInv /\ [Next]_vars => TypeOK'
<1> SUFFICES ASSUME IInv, [Next]_vars PROVE TypeOK'
  OBVIOUS
<1>0. TypeOK /\ Threaded /\ Batched
  BY DEF IInv
<1>a. /\ Snapshot \in [new: SUBSET Items, items: SUBSET Items, acks: SUBSET Items]
      /\ NoSnap \in [new: SUBSET Items, items: SUBSET Items, acks: SUBSET Items]
      /\ Due \subseteq Items
  BY <1>0 DEF Snapshot, NoSnap, TypeOK, Due
<1> USE DEF candidates, config, channel, journal, batch, hist, bounds
<1> DEFINE
  Durable ==
    /\ cand' \in [Items -> {"none", "new", "closed"}]
    /\ born' \in [Items -> 0..MaxConfigs]
    /\ outbox' \in [items: SUBSET Items, acks: SUBSET Items]
    /\ enabled' \in BOOLEAN /\ epoch' \in 0..MaxConfigs /\ unreadable' \in BOOLEAN
    /\ marked' \in BOOLEAN /\ rest' \in 0..Interval
    /\ wait' \in [Items -> Nat]
    /\ shown' \in [Items -> Nat] /\ acked' \subseteq Items /\ revoked' \subseteq Items
  Memory ==
    /\ serving' \in BOOLEAN
    /\ thread' \in {"down", "recover", "enqueue", "idle", "admit", "select", "begin", "record"}
    /\ http' \in {"free", "cancel"}
    /\ snap' \in [new: SUBSET Items, items: SUBSET Items, acks: SUBSET Items]
    /\ work' \subseteq Items /\ chosen' \subseteq Items
<1>b. Durable /\ Memory => TypeOK'
  BY StepDeliveries, StepFuture DEF TypeOK
<1> USE DEF TypeOK
<1>1. CASE BatchBegins \/ TickBatch \/ Selected
  BY <1>0, <1>a, <1>b, <1>1 DEF BatchBegins, TickBatch, Selected, Leave
<1>2. CASE Deliver
  <2>1. rest' \in 0..Interval
    BY <1>0, <1>2, ChannelAssumption DEF Deliver
  <2>2. Durable
    BY <1>0, <1>2, <2>1 DEF Deliver
  <2>3. Memory
    BY <1>0, <1>a, <1>2 DEF Deliver, Leave
  <2> QED
    BY <1>b, <2>2, <2>3
<1>3. CASE Send
  BY <1>0, <1>b, <1>3 DEF Send
<1>4. ASSUME NEW n \in Items, Admit(n) \/ Reject(n) \/ Choose(n) \/ Begin(n) PROVE TypeOK'
  <2>1. Durable
    BY <1>0, <1>4 DEF Admit, Reject, Choose, Begin
  <2>2. CASE Admit(n)
    <3>1. Memory
      BY <1>0, <1>a, <2>2 DEF Admit, Leave
    <3> QED
      BY <1>b, <2>1, <3>1
  <2>3. CASE Reject(n)
    <3>1. Memory
      BY <1>0, <1>a, <2>3 DEF Reject, Leave
    <3> QED
      BY <1>b, <2>1, <3>1
  <2>4. CASE Choose(n)
    <3>1. Memory
      BY <1>0, <2>4 DEF Choose
    <3> QED
      BY <1>b, <2>1, <3>1
  <2>5. CASE Begin(n)
    <3>1. Memory
      BY <1>0, <1>a, <2>5 DEF Begin, Leave
    <3> QED
      BY <1>b, <2>1, <3>1
  <2> QED
    BY <1>4, <2>2, <2>3, <2>4, <2>5
<1>5. ASSUME NEW n \in Items, Record(n) PROVE TypeOK'
  <2>1. Outcome(n) = "retry_wait" => Delays[mem[n].tries] \in Nat
    BY <1>5, RecordWrites, ChannelAssumption
  <2>2. wait' \in [Items -> Nat]
    BY <1>0, <1>5, <2>1 DEF Record
  <2>3. Durable
    BY <1>0, <1>5, <2>2 DEF Record
  <2>4. Memory
    BY <1>0, <1>a, <1>5 DEF Record, Leave
  <2> QED
    BY <1>b, <2>3, <2>4
<1>6. CASE Boot \/ Reconcile \/ EnqueueFails
  BY <1>0, <1>a, <1>b, <1>6 DEF Boot, Reconcile, EnqueueFails, Leave, ProcessEnds
<1>7. ASSUME NEW n \in Items, Recover(n) PROVE TypeOK'
  BY <1>0, <1>a, <1>b, <1>7 DEF Recover, ProcessEnds
<1>8. ASSUME NEW n \in Items, Enqueue(n) PROVE TypeOK'
  BY <1>0, <1>b, <1>8 DEF Enqueue
<1>9. ASSUME NEW n \in Items, Acknowledge(n) \/ Close(n) \/ CancelPending(n) PROVE TypeOK'
  BY <1>0, <1>b, <1>9 DEF Acknowledge, Close, CancelPending
<1>10. CASE Enable
  BY <1>0, <1>b, <1>10, NotificationBounds DEF Enable, Revoke, Threaded
<1>11. CASE Disable \/ Disabled \/ Test
  <2>1. future.enabled \in BOOLEAN
    BY <1>0
  <2> QED
    BY <1>0, <1>b, <1>11, <2>1 DEF Disable, Revoke, Disabled, Test
<1>12. ASSUME NEW n \in Items, Activate(n) PROVE TypeOK'
  <2>1. future.enabled => epoch # 0
    BY DEF IInv, Timed
  <2>2. (IF future.enabled THEN epoch - 1 ELSE epoch) \in 0..MaxConfigs
    BY <1>0, <2>1, NotificationBounds
  <2>3. Durable
    BY <1>0, <1>12, <2>2 DEF Activate
  <2>4. Memory
    BY <1>0, <1>12 DEF Activate
  <2> QED
    BY <1>b, <2>3, <2>4
<1>13. CASE Tick
  BY SMTT(40), <1>0, <1>b, <1>13, ChannelAssumption DEF Tick, Less
<1>14. CASE Crash \/ UNCHANGED vars
  BY ZenonT(60), <1>0, <1>a, <1>b, <1>14 DEF Crash, ProcessEnds, vars
<1>15. CASE StepBack \/ CatchUp
  BY <1>0, <1>b, <1>15 DEF StepBack, CatchUp
<1> QED
  BY <1>1, <1>2, <1>3, <1>4, <1>5, <1>6, <1>7, <1>8, <1>9, <1>10, <1>11, <1>12, <1>13, <1>14,
     <1>15 DEF Next, BatchStep, ServiceStep, HttpStep

\* The empty state satisfies the invariant.
LEMMA InitIInv == Init => IInv
<1> SUFFICES ASSUME Init PROVE IInv
  OBVIOUS
<1>1. TypeOK
  <2>1. 0 \in 0..MaxConfigs /\ 0 \in 0..Interval
    BY ChannelAssumption, NotificationBounds
  <2>2. disk \in [Items -> Deliveries] /\ mem \in [Items -> Deliveries]
    BY Transitions DEF Init
  <2> QED
    BY <2>1, <2>2 DEF Init, TypeOK, NoSnap, NoFuture
<1>2. Well(Absent)
  BY ChannelAssumption DEF Well, Absent, Deliveries, Statuses, Waiting
<1>3. Threaded
  BY NotificationBounds DEF Init, Threaded, Batching, NoSnap, Here
<1>4. Journaled
  BY <1>2 DEF Init, Journaled, Absent
<1>5. Batched /\ Unshown /\ Revocation
  BY DEF Init, Batched, Unshown, Revocation
<1>6. Timed
  BY NotificationBounds DEF Init, Timed, NoFuture
<1> QED
  BY <1>1, <1>3, <1>4, <1>5, <1>6 DEF IInv

-----------------------------------------------------------------------------
(* The theorems *)

\* The invariant of the channel.
THEOREM Invariance == Spec => []IInv
<1>1. IInv /\ [Next]_vars => IInv'
  BY StepTyped, StepThreaded, StepTimed, StepJournaled, StepBatched, StepUnshown, StepRevocation DEF IInv
<1> QED
  BY InitIInv, <1>1, PTL DEF Spec

\* The variables have their types; in particular no delivery is attempted more
\* often than its budget.
THEOREM TypeCorrect == Spec => []TypeOK
<1>1. IInv => TypeOK
  BY DEF IInv
<1> QED
  BY Invariance, <1>1, PTL

\* Where an append that raises has left no record, and as long as the clock has
\* not stepped back, no step of the service, of a restart or of an activation
\* writes a record that the journal's own loader refuses.
THEOREM Loadable ==
  ASSUME TornWrites = FALSE
  PROVE  Spec => []DeliveriesLoadable
<1>1. IInv => DeliveriesLoadable
  BY DEF IInv, Journaled, Timed, DeliveriesLoadable
<1> QED
  BY Invariance, <1>1, PTL

\* What came up before the channel was last disabled or enabled is not shown, as
\* long as the clock has not stepped back; an append may leave its record or not.
THEOREM Revoked == Spec => RevokedNotShown
<1>1. IInv /\ [Next]_vars =>
        [backs' = 0 => \A n \in revoked : shown'[n] = shown[n]]_vars
  <2> SUFFICES ASSUME IInv, [Next]_vars, backs' = 0, NEW n \in revoked
               PROVE  shown'[n] = shown[n]
    OBVIOUS
  <2>0. backs = 0
    BY StepBacks
  <2>1. CASE Send
    <3>1. PICK S \in SUBSET chosen :
            shown' = [m \in Items |-> IF m \in S THEN shown[m] + 1 ELSE shown[m]]
      BY <2>1 DEF Send
    <3>2. n \in Items /\ (born[n] # epoch \/ ~enabled)
      BY <2>0 DEF IInv, TypeOK, Revocation
    <3>3. enabled /\ (n \in chosen => born[n] = epoch)
      BY <2>1 DEF Send, IInv, Threaded, Batched, Batching, Eligible
    <3> QED
      BY <3>1, <3>2, <3>3
  <2> QED
    BY <2>1, StepShown
<1> QED
  BY Invariance, <1>1, PTL DEF Spec, RevokedNotShown

-----------------------------------------------------------------------------
(* Refinement *)

\* A record of n changes the stage and the attempts of n only.
LEMMA StageChange ==
  ASSUME NEW n \in Items, NEW s, Stage(n)' = s,
         \A m \in Items : m # n => Stage(m)' = Stage(m) /\ disk'[m] = disk[m]
  PROVE  LET stages == [m \in Items |-> Stage(m)]
             tries == [m \in Items |-> IF Stage(m) = "over" THEN 0 ELSE disk[m].tries]
         IN  /\ stages' = [stages EXCEPT ![n] = s]
             /\ tries' = [tries EXCEPT ![n] = IF s = "over" THEN 0 ELSE disk'[n].tries]
OBVIOUS

\* A record in the journal is an attempt, a retry, an end, or says nothing new.
LEMMA RecordedImplements ==
  ASSUME TornWrites = FALSE \/ MaxBacks = 0,
         IInv, NEW n \in Items, NEW d \in Deliveries, Legal(n, d), shown' = shown,
         disk' = [disk EXCEPT ![n] = d]
  PROVE  Once!Attempt(n) \/ Once!Retry(n) \/ Once!End(n) \/ UNCHANGED Once!vars
<1> USE DEF Waiting, Settled
<1> DEFINE
  stages == [m \in Items |-> Stage(m)]
  tries == [m \in Items |-> IF Stage(m) = "over" THEN 0 ELSE disk[m].tries]
<1>0. /\ disk \in [Items -> Deliveries]
      /\ Well(disk[n]) /\ Well(mem[n]) /\ Well(d) /\ Follows(mem[n], d) /\ Agrees(n)
      /\ mem[n] \in Deliveries /\ disk[n] \in Deliveries
  BY DEF IInv, TypeOK, Journaled, Legal
<1>1. \A m \in Items : m # n => Stage(m)' = Stage(m) /\ disk'[m] = disk[m]
  BY <1>0 DEF Stage
<1>2. disk'[n] = d
  BY <1>0
<1>3. d.status \in Statuses /\ mem[n].status \in Statuses
  BY <1>0, Fields
<1>4. CASE d.status = "pending"
  <2>1. mem[n].status = "absent" /\ mem[n].tries = 0 /\ d.tries = 0
    BY <1>0, <1>3, <1>4, Transitions DEF Follows, Statuses, Well
  <2>2. disk[n].status \in {"absent", "pending"} /\ disk[n].tries = 0
    BY <1>0, <2>1, Transitions DEF Agrees, Follows, Well
  <2>3. Stage(n) = "waiting" /\ Stage(n)' = "waiting" /\ disk'[n].tries = disk[n].tries
    BY <1>2, <1>4, <2>1, <2>2 DEF Stage
  <2> QED
    BY <1>1, <2>3 DEF Once!vars
<1>5. CASE d.status = "attempting"
  <2>1. mem[n].status \in Waiting /\ d.tries = mem[n].tries + 1 /\ ~Barred(n)
    BY <1>0, <1>3, <1>5, Transitions DEF Follows, Statuses, Legal
  <2>2. \/ disk[n] = mem[n]
        \/ disk[n].status = "attempting" /\ disk[n].tries = d.tries
    BY <1>0, <2>1, Transitions DEF Agrees, Follows, IInv, Timed
  <2>3. Stage(n)' = "out" /\ disk'[n].tries = d.tries
    BY <1>2, <1>5 DEF Stage
  <2>4. CASE disk[n] = mem[n]
    <3>1. Stage(n) = "waiting" /\ disk[n].tries < MaxAttempts
      BY <1>0, <2>1, <2>4 DEF Well, Stage
    <3> QED
      <4>1. /\ stages' = [stages EXCEPT ![n] = "out"]
            /\ tries' = [tries EXCEPT ![n] = disk'[n].tries]
        BY <1>1, <2>3, StageChange
      <4>2. stages[n] = "waiting" /\ tries[n] = disk[n].tries
        BY <3>1
      <4>3. disk'[n].tries = disk[n].tries + 1
        BY <2>1, <2>3, <2>4
      <4> HIDE DEF stages, tries
      <4>4. tries' = [tries EXCEPT ![n] = tries[n] + 1] /\ tries[n] < MaxAttempts
        BY <3>1, <4>1, <4>2, <4>3
      <4> QED
        BY <4>1, <4>2, <4>4 DEF Once!Attempt, stages, tries
  <2>6. disk[n].status = "attempting" => Stage(n) = "out"
    BY DEF Stage
  <2>5. CASE disk[n].status = "attempting" /\ disk[n].tries = d.tries
    BY <1>1, <2>3, <2>5, <2>6 DEF Once!vars
  <2> QED
    BY <2>2, <2>4, <2>5
<1>6. CASE d.status = "retry_wait"
  <2>1. /\ mem[n].status = "attempting" /\ disk[n] = mem[n] /\ d.tries = mem[n].tries
        /\ shown[n] = 0
    BY <1>0, <1>3, <1>6, Transitions DEF Follows, Statuses, Legal
  <2>2. Stage(n) = "out" /\ Stage(n)' = "waiting" /\ disk'[n].tries = disk[n].tries
    BY <1>2, <1>6, <2>1 DEF Stage
  <2> QED
    <3>1. stages' = [stages EXCEPT ![n] = "waiting"]
      BY <1>1, <2>2, StageChange
    <3>2. tries' = tries
      BY <1>1, <2>2
    <3>3. stages[n] = "out"
      BY <2>2
    <3> QED
      BY <2>1, <3>1, <3>2, <3>3 DEF Once!Retry
<1>7. CASE d.status \in Settled
  <2>1. Stage(n)' = "over"
    BY <1>2, <1>7 DEF Stage
  <2>2. CASE Stage(n) = "over"
    BY <1>1, <2>1, <2>2 DEF Once!vars
  <2>3. CASE Stage(n) # "over"
    <3>1. Stage(n) \in {"waiting", "out"}
      BY <2>3 DEF Stage
    <3> QED
      BY <1>1, <2>1, <3>1, StageChange DEF Once!End
  <2> QED
    BY <2>2, <2>3
<1>8. d.status # "absent"
  BY <1>0, <1>3, Transitions DEF Follows, Statuses
<1> QED
  BY <1>3, <1>4, <1>5, <1>6, <1>7, <1>8 DEF Statuses

\* The channel with its journal, its batches, its activations, kills, failed
\* writes and a clock that steps back implements DeliverOnce, for every set of
\* notifications and budget, as long as not both happen: an append that raises
\* behind its record, and a step back of the clock.
THEOREM Implementation ==
  ASSUME TornWrites = FALSE \/ MaxBacks = 0
  PROVE  Spec => ImplementsDeliverOnce
<1>1. Init => Once!Init
  BY DEF Init, Once!Init, Stage, Absent, Settled
<1>2. IInv /\ [Next]_vars => [Once!Next]_Once!vars
  <2> SUFFICES ASSUME IInv, [Next]_vars PROVE [Once!Next]_Once!vars
    OBVIOUS
  <2>1. disk' = disk => \A n \in Items : Stage(n)' = Stage(n)
    BY DEF Stage
  <2>2. CASE Send
    <3>1. PICK S \in SUBSET chosen :
            shown' = [m \in Items |-> IF m \in S THEN shown[m] + 1 ELSE shown[m]]
      BY <2>2 DEF Send
    <3>2. \A n \in S : n \in Items /\ shown[n] = 0 /\ disk[n].status = "attempting"
      BY <2>2, <3>1 DEF Send, IInv, Batched, TypeOK
    <3>3. \A n \in S : Stage(n) = "out"
      BY <3>2 DEF Stage, Settled
    <3>4. disk' = disk
      BY <2>2 DEF Send, journal
    <3>5. shown' = [m \in Items |-> IF m \in S THEN 1 ELSE shown[m]]
      BY <3>1, <3>2
    <3>6. S \in SUBSET Items
      BY <3>2
    <3>7. Once!Show(S)
      BY <2>1, <3>2, <3>3, <3>4, <3>5 DEF Once!Show
    <3> QED
      BY <3>6, <3>7 DEF Once!Next
  <2>3. CASE shown' = shown /\ disk' = disk
    BY <2>1, <2>3 DEF Once!vars
  <2>4. ASSUME shown' = shown, disk' # disk, NEW n \in Items, NEW d \in Deliveries, Write(n, d)
        PROVE  [Once!Next]_Once!vars
    <3>1. Legal(n, d) /\ disk' = [disk EXCEPT ![n] = d]
      BY <2>4 DEF Write, Wrote, Raises, Recorded
    <3> QED
      BY <2>4, <3>1, RecordedImplements DEF Once!Next
  <2> QED
    BY <2>2, <2>3, <2>4, StepShown, StepWrites DEF Quiet
<1> QED
  BY <1>1, <1>2, Invariance, PTL DEF Spec, ImplementsDeliverOnce, Once!Spec
=============================================================================
