----------------------------- MODULE ManualQueue -----------------------------
(***************************************************************************)
(* ManualOperationQueue and ManualOperationStateStore                      *)
(* (application/manual_operations.py) as scripts/serve_investment_analyst  *)
(* runs them: HTTP threads call enqueue, one daemon worker runs the queue, *)
(* the process may be killed or stopped at any point and started again.    *)
(*                                                                         *)
(* The state document is replaced atomically by every write, so a crash    *)
(* falls between writes, never inside one.  The wall clock may step either *)
(* way: each reading is an arbitrary member of Times.                      *)
(***************************************************************************)
EXTENDS Naturals, FiniteSets

CONSTANTS
  Ids,          \* operation ids, ordered like the text of their UUIDs
  Requests,     \* request fingerprints
  NoRequest,    \* "no request"
  Times,        \* what the wall clock may read
  MaxRetained,  \* _MAX_OPERATIONS_RETAINED
  MaxCrashes,   \* bound: kills and stops of the process
  MaxFaults     \* bound: writes of the document that fail

ASSUME IdsAssumption == Ids \subseteq Nat \ {0} /\ IsFiniteSet(Ids)
ASSUME RequestsAssumption == NoRequest \notin Requests
ASSUME TimesAssumption == Times \subseteq Nat \ {0}
ASSUME BoundsAssumption ==
  MaxRetained \in Nat /\ MaxCrashes \in Nat /\ MaxFaults \in Nat

VARIABLES
  doc,         \* the persisted document: one record per operation id
  phase,       \* life of the process that owns the queue
  todo,        \* running operations recover_interrupted has still to requeue
  worker,      \* where the worker thread is; "off" when there is none
  cur,         \* the operation run_next has in hand, 0 for none
  enq,         \* the request an HTTP thread holds the condition for
  lastTs,      \* _last_timestamp, 0 for None
  crashes,     \* kills and stops so far
  faults,      \* failed writes so far
  dispatches   \* history: how often each operation was dispatched

mem == <<phase, todo, worker, cur, enq, lastTs>>
vars == <<doc, phase, todo, worker, cur, enq, lastTs, crashes, faults,
          dispatches>>

Statuses == {"absent", "queued", "running", "succeeded", "failed"}
Terminal == {"succeeded", "failed"}
Phases == {"down", "recovering", "ready", "serving", "stopping"}
WorkerStates == {"off", "check", "pick", "begin", "dispatch", "calling",
                 "succeeded", "failed", "park", "waiting"}

AbsentOp == [status |-> "absent", request |-> NoRequest, submitted |-> 0,
             started |-> 0, completed |-> 0, recovery |-> 0]

Retained == {i \in Ids : doc[i].status # "absent"}
Queued == {i \in Ids : doc[i].status = "queued"}
Running == {i \in Ids : doc[i].status = "running"}
Active(op) == op.status \in {"queued", "running"}

-----------------------------------------------------------------------------
(* The store *)

\* Fault: the clock is used as it reads.
UnclampedNow(t) == t

\* _now(): a reading of the clock, never earlier than the previous one.
Now(t) == IF t < lastTs THEN lastTs ELSE t

\* _latest_timestamp: the greatest timestamp of the document, 0 if none.
IsLatest(t) ==
  LET stamps == UNION {{doc[i].submitted, doc[i].started, doc[i].completed} : i \in Ids}
  IN  /\ t \in stamps \cup {0}
      /\ \A s \in stamps : s <= t

\* _validate_transition: the same operation, one step along its life.
ValidTransition(old, new) ==
  /\ old.request = new.request
  /\ old.submitted = new.submitted
  /\ <<old.status, new.status>> \in {<<"queued", "running">>, <<"running", "queued">>,
                                      <<"running", "succeeded">>, <<"running", "failed">>}

\* write() takes the record: it is new and there is room, or it is a legal step.
StoreAccepts(i, op) ==
  IF doc[i].status = "absent"
  THEN Cardinality(Retained) < MaxRetained
  ELSE ValidTransition(doc[i], op)

\* The document order: submitted_at, ties broken by the text of the id.
Before(i, j) ==
  \/ doc[i].submitted < doc[j].submitted
  \/ doc[i].submitted = doc[j].submitted /\ i <= j

\* Fault: the newest queued operation is taken.
NewestIsNext(i) == i \in Queued /\ \A j \in Queued : Before(j, i)

\* The first queued operation of the document.
IsNext(i) == i \in Queued /\ \A j \in Queued : Before(i, j)

-----------------------------------------------------------------------------
Init ==
  /\ doc = [i \in Ids |-> AbsentOp]
  /\ phase = "down"
  /\ todo = {}
  /\ worker = "off"
  /\ cur = 0
  /\ enq = NoRequest
  /\ lastTs = 0
  /\ crashes = 0
  /\ faults = 0
  /\ dispatches = [i \in Ids |-> 0]

\* A write of the document fails (OSError): the file is as it was.
WriteFault == faults < MaxFaults /\ faults' = faults + 1

\* The process is gone and everything it held in memory with it.
ProcessEnds ==
  /\ phase' = "down"
  /\ todo' = {}
  /\ worker' = "off"
  /\ cur' = 0
  /\ enq' = NoRequest
  /\ lastTs' = 0

-----------------------------------------------------------------------------
(* The process *)

\* Fault: the queue starts without requeueing what it finds running.
BootWithoutRecovery ==
  /\ phase = "down"
  /\ phase' = "recovering"
  /\ UNCHANGED <<doc, todo, worker, cur, enq, lastTs, crashes, faults, dispatches>>

\* __init__ loads the document; recover_interrupted lists the running work.
Boot ==
  /\ phase = "down"
  /\ phase' = "recovering"
  /\ todo' = Running
  /\ \E t \in {0} \cup {doc[i].submitted : i \in Ids} \cup {doc[i].started : i \in Ids}
                  \cup {doc[i].completed : i \in Ids} :
        IsLatest(t) /\ lastTs' = t
  /\ UNCHANGED <<doc, worker, cur, enq, crashes, faults, dispatches>>

\* Fault: the recovery is not counted.
UncountedRequeuedOp(op) == [op EXCEPT !.status = "queued", !.started = 0, !.completed = 0]

\* What recover_interrupted makes of an operation it found running.
RequeuedOp(op) ==
  [op EXCEPT !.status = "queued", !.started = 0, !.completed = 0,
             !.recovery = op.recovery + 1]

\* One operation found running is queued again, its recovery counted.
Recover(i) ==
  /\ phase = "recovering"
  /\ i \in todo
  /\ StoreAccepts(i, RequeuedOp(doc[i]))
  /\ doc' = [doc EXCEPT ![i] = RequeuedOp(doc[i])]
  /\ todo' = todo \ {i}
  /\ UNCHANGED <<phase, worker, cur, enq, lastTs, crashes, faults, dispatches>>

\* That write fails: the constructor raises and the service does not start.
RecoverFault ==
  /\ phase = "recovering"
  /\ todo # {}
  /\ WriteFault
  /\ ProcessEnds
  /\ UNCHANGED <<doc, crashes, dispatches>>

\* The HTTP server accepts requests before the worker is started.
Open ==
  /\ phase = "recovering"
  /\ todo = {}
  /\ phase' = "ready"
  /\ UNCHANGED <<doc, todo, worker, cur, enq, lastTs, crashes, faults, dispatches>>

\* start(), under the condition; the service calls it once.
StartWorker ==
  /\ phase = "ready"
  /\ enq = NoRequest
  /\ phase' = "serving"
  /\ worker' = "check"
  /\ UNCHANGED <<doc, todo, cur, enq, lastTs, crashes, faults, dispatches>>

\* stop(), under the condition: the flag is set, nothing durable changes.
Stop ==
  /\ phase = "serving"
  /\ enq = NoRequest
  /\ crashes < MaxCrashes
  /\ crashes' = crashes + 1
  /\ phase' = "stopping"
  /\ UNCHANGED <<doc, todo, worker, cur, enq, lastTs, faults, dispatches>>

\* The process exits after joining the worker for at most the timeout: a
\* worker still busy is a daemon thread and dies where it stands.
Exit ==
  /\ phase = "stopping"
  /\ ProcessEnds
  /\ UNCHANGED <<doc, crashes, faults, dispatches>>

\* The process is killed.
Crash ==
  /\ phase # "down"
  /\ crashes < MaxCrashes
  /\ crashes' = crashes + 1
  /\ ProcessEnds
  /\ UNCHANGED <<doc, faults, dispatches>>

-----------------------------------------------------------------------------
(* enqueue, in an HTTP thread, under the condition *)

Accepting == phase \in {"ready", "serving", "stopping"}

\* Fault: a running operation does not count as equivalent work.
HasQueued(r) == \E i \in Queued : doc[i].request = r

\* An equivalent operation is still queued or running.
HasActive(r) == \E i \in Ids : Active(doc[i]) /\ doc[i].request = r

\* enqueue finds no equivalent active work (otherwise it returns that work
\* and changes nothing).  Ids are a bound: one must be left.
EnqueueAdmit(r) ==
  /\ Accepting
  /\ enq = NoRequest
  /\ ~HasActive(r)
  /\ \E i \in Ids : doc[i].status = "absent"
  /\ enq' = r
  /\ UNCHANGED <<doc, phase, todo, worker, cur, lastTs, crashes, faults, dispatches>>

QueuedOp(r, t) == [AbsentOp EXCEPT !.status = "queued", !.request = r, !.submitted = t]

\* The operation is persisted under a fresh random id; the worker, which does
\* not hold the condition, may have written in between.
EnqueueWrite ==
  /\ enq # NoRequest
  /\ \E i \in Ids, t \in Times :
       LET op == QueuedOp(enq, Now(t))
       IN  /\ doc[i].status = "absent"
           /\ StoreAccepts(i, op)
           /\ doc' = [doc EXCEPT ![i] = op]
           /\ lastTs' = Now(t)
  /\ enq' = NoRequest
  /\ UNCHANGED <<phase, todo, worker, cur, crashes, faults, dispatches>>

\* The retained history is full: the document does not validate, the caller
\* gets an error and the clock has been read.
EnqueueFull ==
  /\ enq # NoRequest
  /\ Cardinality(Retained) >= MaxRetained
  /\ \E t \in Times : lastTs' = Now(t)
  /\ enq' = NoRequest
  /\ UNCHANGED <<doc, phase, todo, worker, cur, crashes, faults, dispatches>>

EnqueueFault ==
  /\ enq # NoRequest
  /\ WriteFault
  /\ \E t \in Times : lastTs' = Now(t)
  /\ enq' = NoRequest
  /\ UNCHANGED <<doc, phase, todo, worker, cur, crashes, dispatches>>

-----------------------------------------------------------------------------
(* The worker: _run_forever and run_next *)

\* The exception leaves run_next and _run_forever: the thread is gone.
WorkerDies == worker' = "off" /\ cur' = 0

\* The loop looks at the stop flag, under the condition.
Check ==
  /\ worker = "check"
  /\ enq = NoRequest
  /\ worker' = IF phase = "stopping" THEN "off" ELSE "pick"
  /\ UNCHANGED <<doc, phase, todo, cur, enq, lastTs, crashes, faults, dispatches>>

\* run_next loads the document and takes its first queued operation.
Pick ==
  /\ worker = "pick"
  /\ \E i \in Queued : IsNext(i) /\ cur' = i
  /\ worker' = "begin"
  /\ UNCHANGED <<doc, phase, todo, enq, lastTs, crashes, faults, dispatches>>

PickNone ==
  /\ worker = "pick"
  /\ Queued = {}
  /\ worker' = "park"
  /\ UNCHANGED <<doc, phase, todo, cur, enq, lastTs, crashes, faults, dispatches>>

\* The operation is persisted as running before anything is dispatched.
Begin ==
  /\ worker = "begin"
  /\ \E t \in Times :
       LET op == [doc[cur] EXCEPT !.status = "running", !.started = Now(t)]
       IN  /\ StoreAccepts(cur, op)
           /\ doc' = [doc EXCEPT ![cur] = op]
           /\ lastTs' = Now(t)
  /\ worker' = "dispatch"
  /\ UNCHANGED <<phase, todo, cur, enq, crashes, faults, dispatches>>

\* The provider work starts ...
Dispatch ==
  /\ worker = "dispatch"
  /\ dispatches' = [dispatches EXCEPT ![cur] = @ + 1]
  /\ worker' = "calling"
  /\ UNCHANGED <<doc, phase, todo, cur, enq, lastTs, crashes, faults>>

\* Fault: a dispatch cut short gets an outcome the document has no status for.
InterruptedReturn ==
  /\ worker = "calling"
  /\ worker' \in Terminal \cup {"interrupted"}
  /\ UNCHANGED <<doc, phase, todo, cur, enq, lastTs, crashes, faults, dispatches>>

\* ... and returns a result or raises; an exception becomes a failed outcome.
Return ==
  /\ worker = "calling"
  /\ worker' \in Terminal
  /\ UNCHANGED <<doc, phase, todo, cur, enq, lastTs, crashes, faults, dispatches>>

\* The outcome is persisted and the loop goes on.
Finish ==
  /\ worker \in Terminal
  /\ \E t \in Times :
       LET op == [doc[cur] EXCEPT !.status = worker, !.completed = Now(t)]
       IN  /\ StoreAccepts(cur, op)
           /\ doc' = [doc EXCEPT ![cur] = op]
           /\ lastTs' = Now(t)
  /\ worker' = "check"
  /\ cur' = 0
  /\ UNCHANGED <<phase, todo, enq, crashes, faults, dispatches>>

\* Either write fails: nothing catches it, the worker is gone and an
\* operation already persisted as running stays so until the next start.
WorkerFault ==
  /\ worker \in {"begin"} \cup Terminal
  /\ WriteFault
  /\ \E t \in Times : lastTs' = Now(t)
  /\ WorkerDies
  /\ UNCHANGED <<doc, phase, todo, enq, crashes, dispatches>>

\* Nothing was queued: the worker waits, unless it was told to stop.
Park ==
  /\ worker = "park"
  /\ enq = NoRequest
  /\ worker' = IF phase = "stopping" THEN "off" ELSE "waiting"
  /\ UNCHANGED <<doc, phase, todo, cur, enq, lastTs, crashes, faults, dispatches>>

\* A notification arrives or the wait times out; the condition is taken back.
Wake ==
  /\ worker = "waiting"
  /\ enq = NoRequest
  /\ worker' = "check"
  /\ UNCHANGED <<doc, phase, todo, cur, enq, lastTs, crashes, faults, dispatches>>

-----------------------------------------------------------------------------
WorkerStep == Check \/ Pick \/ PickNone \/ Begin \/ Dispatch \/ Return \/ Finish
              \/ Park \/ Wake

EnqueueStep == EnqueueWrite \/ EnqueueFull

StartStep == Boot \/ (\E i \in Ids : Recover(i)) \/ Open \/ StartWorker \/ Exit

Next ==
  \/ StartStep
  \/ Stop
  \/ Crash
  \/ RecoverFault
  \/ \E r \in Requests : EnqueueAdmit(r)
  \/ EnqueueStep
  \/ EnqueueFault
  \/ WorkerStep
  \/ WorkerFault

Spec == Init /\ [][Next]_vars

\* The supervisor starts the service again, and a dispatched operation returns.
\* Whoever waits for the condition gets it in the end, however often requests
\* take it; nobody is obliged to send one.
Fairness == SF_vars(StartStep) /\ WF_vars(EnqueueStep) /\ SF_vars(WorkerStep)

FairSpec == Spec /\ Fairness

-----------------------------------------------------------------------------
(* Properties *)

OpType ==
  [status : Statuses, request : Requests \cup {NoRequest}, submitted : Nat,
   started : Nat, completed : Nat, recovery : Nat]

\* The variables have the types the code gives them.
TypeOK ==
  /\ doc \in [Ids -> OpType]
  /\ phase \in Phases
  /\ todo \subseteq Ids
  /\ worker \in WorkerStates
  /\ cur \in Ids \cup {0}
  /\ enq \in Requests \cup {NoRequest}
  /\ lastTs \in Nat
  /\ crashes \in Nat
  /\ faults \in Nat
  /\ dispatches \in [Ids -> Nat]

\* At most one operation is running in the document, although a worker may
\* have died or been killed with one in hand (recover_interrupted, run_next).
AtMostOneRunning == \A i, j \in Running : i = j

\* Equivalent requests are active at most once: the look-up and the write of
\* enqueue are two steps, and the worker writes between them.
NoDuplicateActive ==
  \A i, j \in Ids :
    Active(doc[i]) /\ Active(doc[j]) /\ doc[i].request = doc[j].request => i = j

\* What is on disk can be loaded again: write() does not revalidate an
\* operation built with model_copy, load() does (validate_lifecycle), so an
\* incoherent timestamp would lock the queue out of its own document.
DocumentLoadable ==
  /\ Cardinality(Retained) <= MaxRetained
  /\ \A i \in Retained :
       LET op == doc[i] IN
       /\ op.started # 0 => op.submitted <= op.started
       /\ op.completed # 0 => op.started # 0 /\ op.started <= op.completed
       /\ op.status = "queued" => op.started = 0 /\ op.completed = 0
       /\ op.status = "running" => op.started # 0 /\ op.completed = 0
       /\ op.status \in Terminal => op.completed # 0

\* Work is dispatched again only after a restart that its recovery_count
\* records: the count bounds how often a provider was asked.
AuditedRepeats ==
  \A i \in Retained :
    dispatches[i] <= doc[i].recovery + (IF doc[i].status = "queued" THEN 0 ELSE 1)

\* The history is append-only: an operation stays, as the request it was
\* accepted for, a finished one never changes, and recovery is never uncounted.
HistoryAppendOnly ==
  [][\A i \in Retained :
       /\ doc'[i].status # "absent"
       /\ doc'[i].request = doc[i].request
       /\ doc'[i].submitted = doc[i].submitted
       /\ doc'[i].recovery >= doc[i].recovery
       /\ doc[i].status \in Terminal => doc'[i] = doc[i]]_doc

\* An operation that starts carries the least submission time of all queued
\* ones when it is picked; enqueue may only add later ones meanwhile.
StartsInTimestampOrder ==
  [][\A i \in Queued :
       doc'[i].status = "running" =>
         \A j \in Queued : doc[i].submitted <= doc[j].submitted]_doc

\* The worker died of a failed write; nothing starts another in this process.
WithoutWorker == phase = "serving" /\ worker = "off"

\* Every accepted operation ends, whatever restarts interrupt it and however
\* many requests are refused, unless a failed write has ended the worker.
EveryOperationEnds ==
  \A i \in Ids :
    (doc[i].status \in {"queued", "running"})
      ~> (doc[i].status \in Terminal \/ WithoutWorker)

\* The queue implements the promise of WorkQueue.
Abstract == INSTANCE WorkQueue
  WITH status <- [i \in Ids |-> doc[i].status], request <- [i \in Ids |-> doc[i].request]

ImplementsWorkQueue == Abstract!Spec
=============================================================================
