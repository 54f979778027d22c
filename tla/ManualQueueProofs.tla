-------------------------- MODULE ManualQueueProofs --------------------------
(***************************************************************************)
(* Safety of ManualQueue for every set of ids, requests and times and every*)
(* bound: types, a single running operation, a single active operation per *)
(* request, the implementation of WorkQueue; then, by a second invariant   *)
(* about time, a document that loads and the order of the starts; then     *)
(* that repeats of an operation are counted.                               *)
(***************************************************************************)
EXTENDS ManualQueue, FiniteSetTheorems, TLAPS

Idle == {"check", "pick", "begin", "park", "waiting"}
Busy == {"dispatch", "calling"} \cup Terminal

\* Where a running operation can be found: in the worker's hand, on the list
\* of the recovery, or nowhere because its worker is gone.
Ownership ==
  /\ worker # "off" => phase \in {"serving", "stopping"}
  /\ worker \in Idle => Running = {}
  /\ worker = "begin" => cur \in Queued
  /\ worker \in Busy => Running = {cur}
  /\ phase = "recovering" => todo = Running
  /\ phase = "ready" => Running = {}

\* Between the look-up of enqueue and its write no equivalent work appears.
Admission == enq # NoRequest => Accepting /\ ~HasActive(enq)

\* The inductive invariant.
IInv ==
  /\ TypeOK
  /\ Ownership
  /\ Admission
  /\ AtMostOneRunning
  /\ NoDuplicateActive

\* A timestamp the queue takes is a positive number.
LEMMA NowType == ASSUME TypeOK, NEW t \in Times PROVE Now(t) \in Nat \ {0}
BY TimesAssumption DEF TypeOK, Now

\* The empty document satisfies the invariant.
LEMMA InitIInv == Init => IInv
BY IdsAssumption, RequestsAssumption
  DEF Init, IInv, TypeOK, Ownership, Admission, AtMostOneRunning, NoDuplicateActive,
      OpType, AbsentOp, Statuses, Phases, WorkerStates, Terminal, Idle, Busy, Running,
      Queued, Active, Accepting, HasActive

\* Every step keeps the types.
LEMMA StepTypeOK == TypeOK /\ Ownership /\ [Next]_vars => TypeOK'
<1> SUFFICES ASSUME TypeOK, Ownership, [Next]_vars PROVE TypeOK'
  OBVIOUS
<1>0. worker \in Busy \cup {"begin"} => cur \in Ids
  BY DEF Ownership, Running, Queued
<1> USE IdsAssumption, RequestsAssumption
    DEF TypeOK, OpType, Statuses, Phases, WorkerStates, Terminal
<1>1. CASE Boot
  BY <1>1 DEF Boot, Running
<1>2. ASSUME NEW i \in Ids, Recover(i) PROVE TypeOK'
  <2>1. doc[i] \in OpType /\ doc[i].recovery + 1 \in Nat
    OBVIOUS
  <2>2. RequeuedOp(doc[i]) \in OpType
    BY <2>1 DEF RequeuedOp
  <2> QED
    BY <1>2, <2>2 DEF Recover
<1>3. CASE Open
  BY <1>3 DEF Open
<1>4. CASE StartWorker
  BY <1>4 DEF StartWorker
<1>5. CASE Exit
  BY <1>5 DEF Exit, ProcessEnds
<1>6. CASE Stop
  BY <1>6 DEF Stop
<1>7. CASE Crash
  BY <1>7 DEF Crash, ProcessEnds
<1>8. CASE RecoverFault
  BY <1>8 DEF RecoverFault, ProcessEnds, WriteFault
<1>9. ASSUME NEW r \in Requests, EnqueueAdmit(r) PROVE TypeOK'
  BY <1>9 DEF EnqueueAdmit
<1>10. CASE EnqueueWrite
  <2>1. PICK i \in Ids, t \in Times :
          /\ doc' = [doc EXCEPT ![i] = QueuedOp(enq, Now(t))]
          /\ lastTs' = Now(t)
    BY <1>10 DEF EnqueueWrite
  <2>2. QueuedOp(enq, Now(t)) \in OpType
    BY NowType DEF QueuedOp, AbsentOp
  <2> QED
    BY <1>10, <2>1, <2>2, NowType DEF EnqueueWrite
<1>11. CASE EnqueueFull
  BY <1>11, NowType DEF EnqueueFull
<1>12. CASE EnqueueFault
  BY <1>12, NowType DEF EnqueueFault, WriteFault
<1>13. CASE Check
  BY <1>13 DEF Check
<1>14. CASE Pick
  BY <1>14 DEF Pick, Queued
<1>15. CASE PickNone
  BY <1>15 DEF PickNone
<1>16. CASE Begin
  <2>1. PICK t \in Times :
          /\ doc' = [doc EXCEPT ![cur] = [doc[cur] EXCEPT !.status = "running",
                                                          !.started = Now(t)]]
          /\ lastTs' = Now(t)
    BY <1>16 DEF Begin
  <2>2. cur \in Ids /\ Now(t) \in Nat
    BY <1>0, <1>16, NowType DEF Begin
  <2>3. [doc[cur] EXCEPT !.status = "running", !.started = Now(t)] \in OpType
    BY ZenonT(60), <2>2
  <2> QED
    BY <1>16, <2>1, <2>2, <2>3 DEF Begin
<1>17. CASE Dispatch
  BY <1>0, <1>17 DEF Dispatch, Busy
<1>18. CASE Return
  BY <1>18 DEF Return
<1>19. CASE Finish
  <2>1. PICK t \in Times :
          /\ doc' = [doc EXCEPT ![cur] = [doc[cur] EXCEPT !.status = worker,
                                                          !.completed = Now(t)]]
          /\ lastTs' = Now(t)
    BY <1>19 DEF Finish
  <2>2. cur \in Ids /\ Now(t) \in Nat /\ worker \in Statuses
    BY <1>0, <1>19, NowType DEF Finish, Busy
  <2>3. [doc[cur] EXCEPT !.status = worker, !.completed = Now(t)] \in OpType
    BY ZenonT(60), <2>2
  <2> QED
    BY <1>19, <2>1, <2>2, <2>3 DEF Finish
<1>20. CASE Park
  BY <1>20 DEF Park
<1>21. CASE Wake
  BY <1>21 DEF Wake
<1>22. CASE WorkerFault
  BY <1>22, NowType DEF WorkerFault, WorkerDies, WriteFault
<1>23. CASE UNCHANGED vars
  BY <1>23 DEF vars
<1> QED
  BY <1>1, <1>2, <1>3, <1>4, <1>5, <1>6, <1>7, <1>8, <1>9, <1>10, <1>11, <1>12, <1>13,
     <1>14, <1>15, <1>16, <1>17, <1>18, <1>19, <1>20, <1>21, <1>22, <1>23
  DEF Next, StartStep, EnqueueStep, WorkerStep

-----------------------------------------------------------------------------
(* What the four writes of the document do to it *)

\* The document after a step that writes operation i and no other.
Only(i) == \A j \in Ids : j # i => doc'[j] = doc[j]

\* i goes from one status to another and keeps what identifies it.
Moves(i, from, to) ==
  /\ doc[i].status = from
  /\ doc'[i].status = to
  /\ doc'[i].request = doc[i].request
  /\ doc'[i].submitted = doc[i].submitted
  /\ Only(i)

\* recover_interrupted moves one running operation back to the queue.
LEMMA RecoverEffect ==
  ASSUME TypeOK, Ownership, NEW i \in Ids, Recover(i)
  PROVE  Moves(i, "running", "queued") /\ doc'[i].recovery = doc[i].recovery + 1
<1>1. doc[i] \in OpType /\ doc' = [doc EXCEPT ![i] = RequeuedOp(doc[i])]
  BY DEF TypeOK, Recover
<1>2. doc'[i] = RequeuedOp(doc[i]) /\ Only(i)
  BY <1>1 DEF TypeOK, Only
<1>3. /\ RequeuedOp(doc[i]).status = "queued"
      /\ RequeuedOp(doc[i]).request = doc[i].request
      /\ RequeuedOp(doc[i]).submitted = doc[i].submitted
      /\ RequeuedOp(doc[i]).recovery = doc[i].recovery + 1
  BY <1>1 DEF OpType, RequeuedOp
<1>4. doc[i].status = "running"
  BY DEF Recover, Ownership, Running
<1> QED
  BY <1>2, <1>3, <1>4 DEF Moves

\* run_next moves the queued operation in hand to running.
LEMMA BeginEffect ==
  ASSUME TypeOK, Ownership, Begin
  PROVE  /\ cur \in Ids
         /\ Moves(cur, "queued", "running")
         /\ doc'[cur].recovery = doc[cur].recovery
<1>1. cur \in Ids /\ doc[cur].status = "queued"
  BY DEF Ownership, Begin, Queued
<1>2. PICK t \in Times :
        doc' = [doc EXCEPT ![cur] = [doc[cur] EXCEPT !.status = "running",
                                                     !.started = Now(t)]]
  BY DEF Begin
<1>3. /\ doc'[cur] = [doc[cur] EXCEPT !.status = "running", !.started = Now(t)]
      /\ Only(cur)
  BY <1>1, <1>2 DEF TypeOK, Only
<1>4. /\ doc'[cur].status = "running"
      /\ doc'[cur].request = doc[cur].request
      /\ doc'[cur].submitted = doc[cur].submitted
      /\ doc'[cur].recovery = doc[cur].recovery
  BY <1>1, <1>3 DEF TypeOK, OpType
<1> QED
  BY <1>1, <1>3, <1>4 DEF Moves

\* run_next moves the running operation in hand to its outcome.
LEMMA FinishEffect ==
  ASSUME TypeOK, Ownership, Finish
  PROVE  /\ cur \in Ids
         /\ Moves(cur, "running", worker)
         /\ doc'[cur].recovery = doc[cur].recovery
<1>1. cur \in Ids /\ doc[cur].status = "running"
  BY DEF Ownership, Finish, Running, Busy
<1>2. PICK t \in Times :
        doc' = [doc EXCEPT ![cur] = [doc[cur] EXCEPT !.status = worker,
                                                     !.completed = Now(t)]]
  BY DEF Finish
<1>3. /\ doc'[cur] = [doc[cur] EXCEPT !.status = worker, !.completed = Now(t)]
      /\ Only(cur)
  BY <1>1, <1>2 DEF TypeOK, Only
<1>4. doc[cur] \in OpType
  BY <1>1 DEF TypeOK
<1>5. /\ doc'[cur].status = worker
      /\ doc'[cur].request = doc[cur].request
      /\ doc'[cur].submitted = doc[cur].submitted
      /\ doc'[cur].recovery = doc[cur].recovery
  BY <1>3, <1>4 DEF OpType
<1> QED
  BY <1>1, <1>3, <1>5 DEF Moves

\* enqueue adds one queued operation for the request it admitted.
LEMMA EnqueueEffect ==
  ASSUME TypeOK, EnqueueWrite
  PROVE  \E i \in Ids :
           /\ doc[i].status = "absent"
           /\ doc'[i].status = "queued"
           /\ doc'[i].request = enq
           /\ Only(i)
<1>1. PICK i \in Ids, t \in Times :
        /\ doc[i].status = "absent"
        /\ doc' = [doc EXCEPT ![i] = QueuedOp(enq, Now(t))]
  BY DEF EnqueueWrite
<1>2. doc'[i] = QueuedOp(enq, Now(t)) /\ Only(i)
  BY <1>1 DEF TypeOK, Only
<1>3. QueuedOp(enq, Now(t)).status = "queued" /\ QueuedOp(enq, Now(t)).request = enq
  BY DEF QueuedOp, AbsentOp
<1> QED
  BY <1>1, <1>2, <1>3

\* Every other step leaves the document alone.
LEMMA OtherEffect ==
  ASSUME [Next]_vars, ~EnqueueWrite, ~Begin, ~Finish, \A i \in Ids : ~Recover(i)
  PROVE  doc' = doc
BY DEF Next, StartStep, EnqueueStep, WorkerStep, Boot, Open, StartWorker, Exit, Stop, Crash,
       RecoverFault, EnqueueAdmit, EnqueueFull, EnqueueFault, Check, Pick, PickNone,
       Dispatch, Return, Park, Wake, WorkerFault, vars

-----------------------------------------------------------------------------
(* The inductive step *)

\* Every step keeps track of who owns a running operation.
LEMMA StepOwnership == IInv /\ [Next]_vars => Ownership'
<1> SUFFICES ASSUME IInv, [Next]_vars PROVE Ownership'
  OBVIOUS
<1> USE DEF IInv, Terminal
<1>1. CASE \E i \in Ids : Recover(i)
  <2>1. PICK i \in Ids : Recover(i)
    BY <1>1
  <2>2. Running' = Running \ {i}
    BY <2>1, RecoverEffect DEF Moves, Only, Running
  <2> QED
    BY <2>1, <2>2 DEF Recover, Ownership, Idle, Busy
<1>2. CASE EnqueueWrite
  <2>1. Running' = Running
    BY <1>2, EnqueueEffect DEF Only, Running
  <2>2. worker = "begin" => cur \in Queued'
    BY <1>2, EnqueueEffect DEF Only, Queued, Ownership
  <2> QED
    BY <1>2, <2>1, <2>2 DEF EnqueueWrite, Ownership, Idle, Busy
<1>3. CASE Begin
  <2>1. Running = {}
    BY <1>3 DEF Begin, Ownership, Idle
  <2>2. Running' = {cur}
    BY <1>3, <2>1, BeginEffect DEF Moves, Only, Running
  <2> QED
    BY <1>3, <2>2 DEF Begin, Ownership, Idle, Busy
<1>4. CASE Finish
  <2>1. Running = {cur}
    BY <1>4 DEF Finish, Ownership, Busy
  <2>2. Moves(cur, "running", worker) /\ worker # "running"
    BY <1>4, FinishEffect DEF Finish
  <2>3. Running' = {}
    BY <2>1, <2>2 DEF Moves, Only, Running
  <2> QED
    BY <1>4, <2>3 DEF Finish, Ownership, Idle, Busy
<1>5. CASE ~EnqueueWrite /\ ~Begin /\ ~Finish /\ ~\E i \in Ids : Recover(i)
  <2>1. Running' = Running /\ Queued' = Queued
    BY <1>5, OtherEffect DEF Running, Queued
  <2> USE DEF Ownership, Idle, Busy
  <2>2. CASE Boot
    BY <2>1, <2>2 DEF Boot
  <2>3. CASE Open
    BY <2>1, <2>3 DEF Open
  <2>4. CASE StartWorker
    BY <2>1, <2>4 DEF StartWorker
  <2>5. CASE Exit \/ Crash \/ RecoverFault
    BY <2>1, <2>5 DEF Exit, Crash, RecoverFault, ProcessEnds
  <2>6. CASE Stop
    BY <2>1, <2>6 DEF Stop
  <2>7. CASE (\E r \in Requests : EnqueueAdmit(r)) \/ EnqueueFull \/ EnqueueFault
    BY <2>1, <2>7 DEF EnqueueAdmit, EnqueueFull, EnqueueFault
  <2>8. CASE Check
    BY <2>1, <2>8 DEF Check
  <2>9. CASE Pick
    BY <2>1, <2>9 DEF Pick, IsNext
  <2>10. CASE PickNone
    BY <2>1, <2>10 DEF PickNone
  <2>11. CASE Dispatch
    BY <2>1, <2>11 DEF Dispatch
  <2>12. CASE Return
    BY <2>1, <2>12 DEF Return
  <2>13. CASE Park \/ Wake
    BY <2>1, <2>13 DEF Park, Wake
  <2>14. CASE WorkerFault
    BY <2>1, <2>14 DEF WorkerFault, WorkerDies
  <2>15. CASE UNCHANGED vars
    BY <2>1, <2>15 DEF vars
  <2> QED
    BY <1>5, <2>2, <2>3, <2>4, <2>5, <2>6, <2>7, <2>8, <2>9, <2>10, <2>11, <2>12, <2>13,
       <2>14, <2>15
    DEF Next, StartStep, EnqueueStep, WorkerStep
<1> QED
  BY <1>1, <1>2, <1>3, <1>4, <1>5

\* No step makes work active that is equivalent to an admitted request.
LEMMA StepAdmission == IInv /\ [Next]_vars => Admission'
<1> SUFFICES ASSUME IInv, [Next]_vars PROVE Admission'
  OBVIOUS
<1> USE DEF IInv, Admission, HasActive, Active
<1>1. CASE \E i \in Ids : Recover(i)
  BY <1>1, RequestsAssumption DEF Recover, Accepting
<1>2. CASE EnqueueWrite
  BY <1>2 DEF EnqueueWrite
<1>3. CASE Begin
  BY ZenonT(60), <1>3, BeginEffect DEF Begin, Moves, Only, Accepting
<1>4. CASE Finish
  BY <1>4, FinishEffect DEF Finish, Moves, Only, Accepting, Terminal
<1>5. CASE ~EnqueueWrite /\ ~Begin /\ ~Finish /\ ~\E i \in Ids : Recover(i)
  <2>1. doc' = doc
    BY <1>5, OtherEffect
  <2>2. CASE \E r \in Requests : EnqueueAdmit(r)
    BY <2>1, <2>2 DEF EnqueueAdmit, Accepting
  <2>3. CASE enq' = NoRequest
    BY <2>3
  <2>4. CASE enq' = enq /\ (phase' = phase \/ enq = NoRequest)
    BY <2>1, <2>4 DEF Accepting
  <2> QED
    BY <1>5, <2>2, <2>3, <2>4
    DEF Next, StartStep, EnqueueStep, WorkerStep, Boot, Open, StartWorker, Exit, Stop,
        Crash, RecoverFault, ProcessEnds, EnqueueFull, EnqueueFault, Check, Pick, PickNone,
        Dispatch, Return, Park, Wake, WorkerFault, vars, Accepting
<1> QED
  BY <1>1, <1>2, <1>3, <1>4, <1>5

\* Only Begin makes an operation running, and then no other one is.
LEMMA StepAtMostOne == IInv /\ [Next]_vars => AtMostOneRunning'
<1> SUFFICES ASSUME IInv, [Next]_vars PROVE AtMostOneRunning'
  OBVIOUS
<1> USE DEF IInv, AtMostOneRunning, Running
<1>1. CASE \E i \in Ids : Recover(i)
  BY <1>1, RecoverEffect DEF Moves, Only
<1>2. CASE EnqueueWrite
  BY <1>2, EnqueueEffect DEF Only
<1>3. CASE Begin
  <2>1. Running = {}
    BY <1>3 DEF Begin, Ownership, Idle
  <2> QED
    BY <1>3, <2>1, BeginEffect DEF Moves, Only
<1>4. CASE Finish
  BY <1>4, FinishEffect DEF Moves, Only, Finish, Terminal
<1>5. CASE ~EnqueueWrite /\ ~Begin /\ ~Finish /\ ~\E i \in Ids : Recover(i)
  BY <1>5, OtherEffect
<1> QED
  BY <1>1, <1>2, <1>3, <1>4, <1>5

\* Only EnqueueWrite makes an operation active, and then no equivalent one is.
LEMMA StepNoDuplicate == IInv /\ [Next]_vars => NoDuplicateActive'
<1> SUFFICES ASSUME IInv, [Next]_vars PROVE NoDuplicateActive'
  OBVIOUS
<1> USE DEF IInv, NoDuplicateActive, Active
<1>1. CASE \E i \in Ids : Recover(i)
  BY <1>1, RecoverEffect DEF Moves, Only
<1>2. CASE EnqueueWrite
  <2>1. \A j \in Ids : Active(doc[j]) => doc[j].request # enq
    BY <1>2 DEF EnqueueWrite, Admission, HasActive
  <2> QED
    BY <1>2, <2>1, EnqueueEffect DEF Only
<1>3. CASE Begin
  BY <1>3, BeginEffect DEF Moves, Only
<1>4. CASE Finish
  BY <1>4, FinishEffect DEF Moves, Only, Finish, Terminal
<1>5. CASE ~EnqueueWrite /\ ~Begin /\ ~Finish /\ ~\E i \in Ids : Recover(i)
  BY <1>5, OtherEffect
<1> QED
  BY <1>1, <1>2, <1>3, <1>4, <1>5

\* In every reachable state the inductive invariant holds: the types, who owns
\* a running operation, and that enqueue admits no equivalent active work.
THEOREM Invariance == Spec => []IInv
<1>1. IInv /\ [Next]_vars => IInv'
  BY StepTypeOK, StepOwnership, StepAdmission, StepAtMostOne, StepNoDuplicate DEF IInv
<1> QED
  BY InitIInv, <1>1, PTL DEF Spec

\* ManualOperationStateDocument keeps its types whatever fails or restarts.
THEOREM TypeCorrect == Spec => []TypeOK
<1>1. IInv => TypeOK
  BY DEF IInv
<1> QED
  BY Invariance, <1>1, PTL

\* recover_interrupted and run_next never leave two operations running.
THEOREM SingleRunning == Spec => []AtMostOneRunning
<1>1. IInv => AtMostOneRunning
  BY DEF IInv
<1> QED
  BY Invariance, <1>1, PTL

\* enqueue never lets equivalent requests be active twice, for any number of
\* callers, ids and restarts.
THEOREM Deduplicated == Spec => []NoDuplicateActive
<1>1. IInv => NoDuplicateActive
  BY DEF IInv
<1> QED
  BY Invariance, <1>1, PTL

-----------------------------------------------------------------------------
(* The history *)

\* What one step may do to a retained operation.
Extends(old, new) ==
  /\ new.status # "absent"
  /\ new.request = old.request
  /\ new.submitted = old.submitted
  /\ new.recovery >= old.recovery
  /\ old.status \in Terminal => new = old

\* Every step keeps the operations it finds, and the finished ones unchanged.
LEMMA StepExtends ==
  ASSUME IInv, [Next]_vars, NEW i \in Retained
  PROVE  Extends(doc[i], doc'[i])
<1>0. i \in Ids /\ doc[i].status # "absent" /\ doc[i].recovery \in Nat
  BY DEF Retained, IInv, TypeOK, OpType
<1>1. CASE \E j \in Ids : Recover(j)
  <2>1. PICK j \in Ids : Recover(j)
    BY <1>1
  <2>2. Moves(j, "running", "queued") /\ doc'[j].recovery = doc[j].recovery + 1
    BY <2>1, RecoverEffect DEF IInv
  <2> QED
    BY <1>0, <2>2 DEF Moves, Only, Extends, Terminal
<1>2. CASE EnqueueWrite
  <2>1. doc'[i] = doc[i]
    BY <1>0, <1>2, EnqueueEffect DEF Only, IInv
  <2> QED
    BY <1>0, <2>1 DEF Extends
<1>3. CASE Begin
  <2>1. Moves(cur, "queued", "running") /\ doc'[cur].recovery = doc[cur].recovery
    BY <1>3, BeginEffect DEF IInv
  <2> QED
    BY <1>0, <2>1 DEF Moves, Only, Extends, Terminal
<1>4. CASE Finish
  <2>1. Moves(cur, "running", worker) /\ doc'[cur].recovery = doc[cur].recovery
        /\ worker \in Terminal
    BY <1>4, FinishEffect DEF IInv, Finish
  <2> QED
    BY <1>0, <2>1 DEF Moves, Only, Extends, Terminal
<1>5. CASE ~EnqueueWrite /\ ~Begin /\ ~Finish /\ ~\E j \in Ids : Recover(j)
  <2>1. doc' = doc
    BY <1>5, OtherEffect
  <2> QED
    BY <1>0, <2>1 DEF Extends
<1> QED
  BY <1>1, <1>2, <1>3, <1>4, <1>5

\* No operation ever leaves the history, changes its request or, once
\* finished, changes at all.
THEOREM History == Spec => HistoryAppendOnly
<1> DEFINE Kept ==
      \A i \in Retained :
        /\ doc'[i].status # "absent"
        /\ doc'[i].request = doc[i].request
        /\ doc'[i].submitted = doc[i].submitted
        /\ doc'[i].recovery >= doc[i].recovery
        /\ doc[i].status \in Terminal => doc'[i] = doc[i]
<1>1. IInv /\ [Next]_vars => [Kept]_doc
  BY StepExtends DEF Extends
<1> QED
  BY Invariance, <1>1, PTL DEF Spec, HistoryAppendOnly

-----------------------------------------------------------------------------
(* Timestamps *)

\* While the queue has a process, _last_timestamp is past all that is recorded.
Clocked ==
  phase # "down" =>
    \A i \in Ids :
      doc[i].submitted <= lastTs /\ doc[i].started <= lastTs /\ doc[i].completed <= lastTs

\* What load() demands of one operation (validate_lifecycle).
Coherent(op) ==
  /\ op.started # 0 => op.submitted <= op.started
  /\ op.completed # 0 => op.started # 0 /\ op.started <= op.completed
  /\ op.status = "queued" => op.started = 0 /\ op.completed = 0
  /\ op.status = "running" => op.started # 0 /\ op.completed = 0
  /\ op.status \in Terminal => op.completed # 0

\* The operation the worker has picked is the first by submission.
Picked == worker = "begin" => \A j \in Queued : doc[cur].submitted <= doc[j].submitted

TimeInv ==
  /\ Clocked
  /\ Picked
  /\ \A i \in Retained : Coherent(doc[i])
  /\ Cardinality(Retained) <= MaxRetained

\* The clock of a process never steps back.
LEMMA NowBounds ==
  ASSUME TypeOK, NEW t \in Times
  PROVE  Now(t) \in Nat \ {0} /\ lastTs <= Now(t)
BY TimesAssumption DEF TypeOK, Now

\* Every written timestamp is a reading of this clock, and no other changes.
Stamped(i, u) ==
  /\ u \in Nat \ {0} /\ lastTs <= u /\ lastTs' = u
  /\ Only(i)

\* recover_interrupted removes start and completion.
LEMMA RecoverStamps ==
  ASSUME TypeOK, NEW i \in Ids, Recover(i)
  PROVE  /\ doc'[i].submitted = doc[i].submitted
         /\ doc'[i].started = 0 /\ doc'[i].completed = 0
         /\ Only(i)
<1>1. doc[i] \in OpType /\ doc'[i] = RequeuedOp(doc[i]) /\ Only(i)
  BY DEF TypeOK, Recover, Only
<1> QED
  BY <1>1 DEF RequeuedOp, OpType

\* run_next stamps the start of the operation in hand.
LEMMA BeginStamps ==
  ASSUME TypeOK, Ownership, Begin
  PROVE  \E u \in Nat :
           /\ Stamped(cur, u)
           /\ doc'[cur].submitted = doc[cur].submitted
           /\ doc'[cur].started = u
           /\ doc'[cur].completed = doc[cur].completed
<1>1. cur \in Ids /\ doc[cur] \in OpType
  BY DEF Ownership, Begin, Queued, TypeOK
<1>2. PICK t \in Times :
        /\ doc' = [doc EXCEPT ![cur] = [doc[cur] EXCEPT !.status = "running",
                                                        !.started = Now(t)]]
        /\ lastTs' = Now(t)
  BY DEF Begin
<1>3. /\ doc'[cur] = [doc[cur] EXCEPT !.status = "running", !.started = Now(t)]
      /\ Only(cur)
  BY <1>1, <1>2 DEF TypeOK, Only
<1>4. /\ doc'[cur].submitted = doc[cur].submitted
      /\ doc'[cur].started = Now(t)
      /\ doc'[cur].completed = doc[cur].completed
  BY <1>1, <1>3 DEF OpType
<1>5. Stamped(cur, Now(t)) /\ Now(t) \in Nat
  BY <1>2, <1>3, NowBounds DEF Stamped
<1> QED
  BY <1>4, <1>5

\* run_next stamps the completion of the operation in hand.
LEMMA FinishStamps ==
  ASSUME TypeOK, Ownership, Finish
  PROVE  \E u \in Nat :
           /\ Stamped(cur, u)
           /\ doc'[cur].submitted = doc[cur].submitted
           /\ doc'[cur].started = doc[cur].started
           /\ doc'[cur].completed = u
<1>1. cur \in Ids /\ doc[cur] \in OpType
  BY DEF Ownership, Finish, Running, Busy, TypeOK
<1>2. PICK t \in Times :
        /\ doc' = [doc EXCEPT ![cur] = [doc[cur] EXCEPT !.status = worker,
                                                        !.completed = Now(t)]]
        /\ lastTs' = Now(t)
  BY DEF Finish
<1>3. /\ doc'[cur] = [doc[cur] EXCEPT !.status = worker, !.completed = Now(t)]
      /\ Only(cur)
  BY <1>1, <1>2 DEF TypeOK, Only
<1>4. /\ doc'[cur].submitted = doc[cur].submitted
      /\ doc'[cur].started = doc[cur].started
      /\ doc'[cur].completed = Now(t)
  BY <1>1, <1>3 DEF OpType
<1>5. Stamped(cur, Now(t)) /\ Now(t) \in Nat
  BY <1>2, <1>3, NowBounds DEF Stamped
<1> QED
  BY <1>4, <1>5

\* enqueue stamps the submission of a new operation, with room for it.
LEMMA EnqueueStamps ==
  ASSUME TypeOK, EnqueueWrite
  PROVE  \E i \in Ids, u \in Nat :
           /\ Stamped(i, u)
           /\ doc[i].status = "absent" /\ doc'[i].status = "queued"
           /\ doc'[i].submitted = u /\ doc'[i].started = 0 /\ doc'[i].completed = 0
           /\ doc'[i].recovery = 0
           /\ Cardinality(Retained) < MaxRetained
<1>1. PICK i \in Ids, t \in Times :
        /\ doc[i].status = "absent"
        /\ StoreAccepts(i, QueuedOp(enq, Now(t)))
        /\ doc' = [doc EXCEPT ![i] = QueuedOp(enq, Now(t))]
        /\ lastTs' = Now(t)
  BY DEF EnqueueWrite
<1>2. doc'[i] = QueuedOp(enq, Now(t)) /\ Only(i)
  BY <1>1 DEF TypeOK, Only
<1>3. /\ doc'[i].status = "queued" /\ doc'[i].submitted = Now(t)
      /\ doc'[i].started = 0 /\ doc'[i].completed = 0 /\ doc'[i].recovery = 0
  BY <1>2 DEF QueuedOp, AbsentOp
<1>4. Stamped(i, Now(t)) /\ Now(t) \in Nat
  BY <1>1, <1>2, NowBounds DEF Stamped
<1>5. Cardinality(Retained) < MaxRetained
  BY <1>1 DEF StoreAccepts
<1> QED
  BY <1>1, <1>3, <1>4, <1>5

\* A step that leaves the document alone only forgets the clock with its
\* process, or reads it.
LEMMA OtherClock ==
  ASSUME IInv, Clocked, [Next]_vars,
         ~EnqueueWrite, ~Begin, ~Finish, \A i \in Ids : ~Recover(i)
  PROVE  Clocked'
<1>0. doc' = doc
  BY OtherEffect
<1>1. TypeOK /\ \A i \in Ids :
        doc[i].submitted \in Nat /\ doc[i].started \in Nat /\ doc[i].completed \in Nat
  BY DEF IInv, TypeOK, OpType
<1>2. CASE Boot
  <2>1. IsLatest(lastTs')
    BY <1>2 DEF Boot
  <2> QED
    BY <1>0, <1>1, <2>1 DEF IsLatest, Clocked
<1>3. CASE phase' = "down"
  BY <1>3 DEF Clocked
<1>4. CASE phase # "down" /\ lastTs' \in Nat /\ lastTs <= lastTs'
  BY <1>0, <1>1, <1>4 DEF Clocked, IInv, TypeOK
<1>5. enq # NoRequest \/ worker # "off" => phase # "down"
  BY DEF IInv, Ownership, Admission, Accepting
<1>6. CASE EnqueueFull \/ EnqueueFault \/ WorkerFault
  <2>1. PICK t \in Times : lastTs' = Now(t)
    BY <1>6 DEF EnqueueFull, EnqueueFault, WorkerFault
  <2> QED
    BY <1>1, <1>4, <1>5, <1>6, <2>1, NowBounds
    DEF EnqueueFull, EnqueueFault, WorkerFault, Terminal
<1>7. CASE lastTs' = lastTs /\ (phase # "down" \/ phase' = phase)
  BY <1>0, <1>7 DEF Clocked
<1> QED
  BY <1>2, <1>3, <1>6, <1>7
  DEF Next, StartStep, EnqueueStep, WorkerStep, Open, StartWorker, Exit, Stop,
      Crash, RecoverFault, ProcessEnds, EnqueueAdmit, Check, Pick, PickNone,
      Dispatch, Return, Park, Wake, vars

\* Every step keeps the clock of the process past what is recorded.
LEMMA StepClocked == IInv /\ TimeInv /\ [Next]_vars => Clocked'
<1> SUFFICES ASSUME IInv, TimeInv, [Next]_vars PROVE Clocked'
  OBVIOUS
<1> USE DEF Only, Stamped
<1>0. /\ TypeOK /\ Ownership /\ Clocked
      /\ \A i \in Ids : doc[i] \in OpType
      /\ lastTs \in Nat
  BY DEF IInv, TimeInv, TypeOK
<1>1. CASE \E i \in Ids : Recover(i)
  <2>1. PICK i \in Ids : Recover(i)
    BY <1>1
  <2>2. phase # "down" /\ lastTs' = lastTs
    BY <2>1 DEF Recover
  <2> QED
    BY <1>0, <2>1, <2>2, RecoverStamps DEF Clocked
<1>2. CASE EnqueueWrite
  <2>1. phase # "down"
    BY <1>2 DEF IInv, EnqueueWrite, Admission, Accepting
  <2> QED
    BY <1>0, <1>2, <2>1, EnqueueStamps DEF Clocked, OpType
<1>3. CASE Begin
  <2>1. phase # "down"
    BY <1>0, <1>3 DEF Begin, Ownership
  <2> QED
    BY <1>0, <1>3, <2>1, BeginStamps DEF Clocked, OpType
<1>4. CASE Finish
  <2>1. phase # "down"
    BY <1>0, <1>4 DEF Finish, Ownership, Terminal
  <2> QED
    BY <1>0, <1>4, <2>1, FinishStamps DEF Clocked, OpType
<1>5. CASE ~EnqueueWrite /\ ~Begin /\ ~Finish /\ ~\E i \in Ids : Recover(i)
  BY <1>0, <1>5, OtherClock
<1> QED
  BY <1>1, <1>2, <1>3, <1>4, <1>5

\* What is added to the queue while the worker has an operation in hand was
\* submitted later.
LEMMA StepPicked == IInv /\ TimeInv /\ [Next]_vars => Picked'
<1> SUFFICES ASSUME IInv, TimeInv, [Next]_vars PROVE Picked'
  OBVIOUS
<1>0. /\ TypeOK /\ Ownership /\ Clocked /\ Picked
      /\ \A i \in Ids : doc[i] \in OpType
      /\ lastTs \in Nat
  BY DEF IInv, TimeInv, TypeOK
<1>1. CASE \E i \in Ids : Recover(i)
  BY <1>0, <1>1 DEF Recover, Ownership, Picked
<1>2. CASE EnqueueWrite
  <2>1. PICK i \in Ids, u \in Nat :
          /\ Stamped(i, u)
          /\ doc[i].status = "absent"
          /\ doc'[i].submitted = u
    BY <1>0, <1>2, EnqueueStamps
  <2>2. phase # "down" /\ worker' = worker /\ cur' = cur
    BY <1>2 DEF IInv, EnqueueWrite, Admission, Accepting
  <2>3. CASE worker = "begin"
    <3>1. cur \in Ids /\ doc[cur].status = "queued" /\ doc'[cur] = doc[cur]
      BY <1>0, <2>1, <2>3 DEF Ownership, Queued, Stamped, Only
    <3>2. doc[cur].submitted \in Nat /\ doc[cur].submitted <= lastTs
      BY <1>0, <2>2, <3>1 DEF Clocked, OpType
    <3> QED
      BY <1>0, <2>1, <2>2, <2>3, <3>1, <3>2 DEF Picked, Queued, Stamped, Only
  <2> QED
    BY <2>2, <2>3 DEF Picked
<1>3. CASE Begin \/ Finish
  BY <1>3 DEF Begin, Finish, Picked
<1>4. CASE ~EnqueueWrite /\ ~Begin /\ ~Finish /\ ~\E i \in Ids : Recover(i)
  <2>1. doc' = doc /\ Queued' = Queued
    BY <1>4, OtherEffect DEF Queued
  <2>2. CASE Pick
    <3>1. cur' \in Queued /\ \A j \in Queued : Before(cur', j)
      BY <2>2 DEF Pick, IsNext
    <3> QED
      BY <1>0, <2>1, <3>1 DEF Before, Picked, Queued, OpType
  <2>3. CASE worker' # "begin" \/ (worker' = worker /\ cur' = cur)
    BY <1>0, <2>1, <2>3 DEF Picked
  <2> QED
    BY <1>4, <2>2, <2>3
    DEF Next, StartStep, EnqueueStep, WorkerStep, Boot, Open, StartWorker, Exit, Stop,
        Crash, RecoverFault, ProcessEnds, EnqueueAdmit, EnqueueFull, EnqueueFault, Check,
        PickNone, Dispatch, Return, Park, Wake, WorkerFault, WorkerDies, Terminal, vars
<1> QED
  BY <1>1, <1>2, <1>3, <1>4

\* Every write of an operation is one that load() accepts.
LEMMA StepCoherent ==
  IInv /\ TimeInv /\ [Next]_vars => (\A i \in Retained : Coherent(doc[i]))'
<1> SUFFICES ASSUME IInv, TimeInv, [Next]_vars, NEW i \in Ids, doc'[i].status # "absent"
             PROVE  Coherent(doc'[i])
  BY DEF Retained
<1>0. /\ TypeOK /\ Ownership /\ Clocked
      /\ \A j \in Ids : doc[j] \in OpType
      /\ lastTs \in Nat
      /\ doc[i].status # "absent" => Coherent(doc[i])
  BY DEF IInv, TimeInv, TypeOK, Retained
<1> USE DEF Only, Stamped
<1>1. CASE \E j \in Ids : Recover(j)
  <2>1. PICK j \in Ids : Recover(j)
    BY <1>1
  <2>2. CASE j = i
    BY <1>0, <2>1, <2>2, RecoverStamps, RecoverEffect DEF Coherent, Moves, Terminal
  <2> QED
    BY <1>0, <2>1, <2>2, RecoverStamps
<1>2. CASE EnqueueWrite
  <2>1. PICK j \in Ids, u \in Nat :
          /\ Stamped(j, u)
          /\ doc'[j].status = "queued" /\ doc'[j].started = 0 /\ doc'[j].completed = 0
    BY <1>0, <1>2, EnqueueStamps
  <2>2. CASE j = i
    BY <2>1, <2>2 DEF Coherent, Terminal
  <2> QED
    BY <1>0, <2>1, <2>2
<1>3. CASE Begin
  <2>1. PICK u \in Nat :
          /\ Stamped(cur, u)
          /\ doc'[cur].submitted = doc[cur].submitted
          /\ doc'[cur].started = u
          /\ doc'[cur].completed = doc[cur].completed
    BY <1>0, <1>3, BeginStamps
  <2>2. cur \in Ids /\ doc[cur].status = "queued" /\ doc'[cur].status = "running"
    BY <1>0, <1>3, BeginEffect DEF Moves
  <2>3. CASE cur = i
    <3>1. doc[i].submitted \in Nat /\ doc[i].submitted <= lastTs /\ doc[i].completed = 0
      BY <1>0, <1>3, <2>2, <2>3 DEF Clocked, Coherent, Ownership, Begin, OpType
    <3> QED
      BY <1>0, <2>1, <2>2, <2>3, <3>1 DEF Coherent, Terminal
  <2> QED
    BY <1>0, <2>1, <2>3
<1>4. CASE Finish
  <2>1. PICK u \in Nat :
          /\ Stamped(cur, u)
          /\ doc'[cur].submitted = doc[cur].submitted
          /\ doc'[cur].started = doc[cur].started
          /\ doc'[cur].completed = u
    BY <1>0, <1>4, FinishStamps
  <2>2. cur \in Ids /\ doc[cur].status = "running" /\ doc'[cur].status = worker
        /\ worker \in Terminal
    BY <1>0, <1>4, FinishEffect DEF Moves, Finish
  <2>3. CASE cur = i
    <3>1. doc[i].started \in Nat /\ doc[i].started <= lastTs /\ Coherent(doc[i])
      BY <1>0, <1>4, <2>2, <2>3 DEF Clocked, Ownership, Terminal, OpType
    <3> QED
      BY <1>0, <2>1, <2>2, <2>3, <3>1 DEF Coherent, Terminal
  <2> QED
    BY <1>0, <2>1, <2>3
<1>5. CASE ~EnqueueWrite /\ ~Begin /\ ~Finish /\ ~\E j \in Ids : Recover(j)
  BY <1>0, <1>5, OtherEffect
<1> QED
  BY <1>1, <1>2, <1>3, <1>4, <1>5

\* Only enqueue adds to the history, and only where there is room.
LEMMA StepRoom == IInv /\ TimeInv /\ [Next]_vars => (Cardinality(Retained) <= MaxRetained)'
<1> SUFFICES ASSUME IInv, TimeInv, [Next]_vars
             PROVE  Cardinality(Retained') <= MaxRetained
  OBVIOUS
<1>0. IsFiniteSet(Retained) /\ Cardinality(Retained) \in Nat
  BY IdsAssumption, FS_Subset, FS_CardinalityType DEF Retained
<1>1. CASE \E i \in Ids : Recover(i)
  <2>1. Retained' = Retained
    BY <1>1, RecoverEffect DEF Retained, Moves, Only, IInv
  <2> QED
    BY <2>1 DEF TimeInv
<1>2. CASE EnqueueWrite
  <2>1. PICK i \in Ids :
          /\ Only(i) /\ doc[i].status = "absent" /\ doc'[i].status = "queued"
          /\ Cardinality(Retained) < MaxRetained
    BY <1>2, EnqueueStamps DEF IInv, Stamped
  <2>2. Retained' = Retained \cup {i} /\ i \notin Retained
    BY <2>1 DEF Retained, Only
  <2>3. Cardinality(Retained') = Cardinality(Retained) + 1
    BY <1>0, <2>2, FS_AddElement
  <2> QED
    BY <1>0, <2>1, <2>3, BoundsAssumption
<1>3. CASE Begin
  <2>1. Retained' = Retained
    BY <1>3, BeginEffect DEF Retained, Moves, Only, IInv
  <2> QED
    BY <2>1 DEF TimeInv
<1>4. CASE Finish
  <2>1. Retained' = Retained
    BY <1>4, FinishEffect DEF Retained, Moves, Only, IInv, Finish, Terminal
  <2> QED
    BY <2>1 DEF TimeInv
<1>5. CASE ~EnqueueWrite /\ ~Begin /\ ~Finish /\ ~\E i \in Ids : Recover(i)
  BY <1>5, OtherEffect DEF Retained, TimeInv
<1> QED
  BY <1>1, <1>2, <1>3, <1>4, <1>5

\* The empty document has no timestamps.
LEMMA InitTime == Init => TimeInv
<1> SUFFICES ASSUME Init PROVE TimeInv
  OBVIOUS
<1>1. Retained = {} /\ Queued = {}
  BY DEF Init, Retained, Queued, AbsentOp
<1>2. Cardinality(Retained) = 0
  BY <1>1, FS_EmptySet
<1> QED
  BY <1>1, <1>2, BoundsAssumption DEF Init, TimeInv, Clocked, Picked

\* In every reachable state the recorded times are coherent, and behind the
\* clock of the process.
THEOREM Timing == Spec => []TimeInv
<1>1. IInv /\ TimeInv /\ [Next]_vars => TimeInv'
  BY StepClocked, StepPicked, StepCoherent, StepRoom DEF TimeInv
<1> QED
  BY InitTime, Invariance, <1>1, PTL DEF Spec

\* Whatever the wall clock does, the document that write() leaves behind is one
\* that load() accepts at the next start.
THEOREM Loadable == Spec => []DocumentLoadable
<1>1. TimeInv => DocumentLoadable
  <2> SUFFICES ASSUME TimeInv, NEW i \in Retained
               PROVE  Cardinality(Retained) <= MaxRetained /\ Coherent(doc[i])
    BY DEF TimeInv, DocumentLoadable, Coherent
  <2> QED
    BY DEF TimeInv
<1> QED
  BY Timing, <1>1, PTL

\* run_next starts the operation that was submitted first, although enqueue may
\* write between its choice and the start.
THEOREM TimestampOrder == Spec => StartsInTimestampOrder
<1> DEFINE Ordered ==
      \A i \in Queued :
        doc'[i].status = "running" =>
          \A j \in Queued : doc[i].submitted <= doc[j].submitted
<1>1. IInv /\ TimeInv /\ [Next]_vars => [Ordered]_doc
  <2> SUFFICES ASSUME IInv, TimeInv, [Next]_vars, NEW i \in Queued,
                      doc'[i].status = "running", doc' # doc
               PROVE  \A j \in Queued : doc[i].submitted <= doc[j].submitted
    OBVIOUS
  <2>0. i \in Ids /\ doc[i].status = "queued" /\ TypeOK /\ Ownership
    BY DEF Queued, IInv
  <2>1. Begin \/ EnqueueWrite \/ Finish \/ \E j \in Ids : Recover(j)
    BY OtherEffect
  <2>2. CASE Begin
    BY <2>0, <2>2, BeginEffect DEF Moves, Only, TimeInv, Picked, Begin
  <2>3. CASE EnqueueWrite
    BY <2>0, <2>3, EnqueueEffect DEF Only
  <2>4. CASE Finish
    BY <2>0, <2>4, FinishEffect DEF Moves, Only
  <2>5. CASE \E j \in Ids : Recover(j)
    BY <2>0, <2>5, RecoverEffect DEF Moves, Only
  <2> QED
    BY <2>1, <2>2, <2>3, <2>4, <2>5
<1> QED
  BY Invariance, Timing, <1>1, PTL DEF Spec, StartsInTimestampOrder

-----------------------------------------------------------------------------
(* Repeats *)

\* The dispatches of an operation are covered by its recoveries; one that is
\* about to be dispatched has not used the one its start allows.
Counted ==
  /\ \A i \in Ids : doc[i].status = "absent" => dispatches[i] = 0
  /\ AuditedRepeats
  /\ worker = "dispatch" => dispatches[cur] <= doc[cur].recovery

\* What a dispatch adds was allowed by a start, what a start allows was given
\* back by a recovery.
LEMMA StepCounted == IInv /\ Counted /\ [Next]_vars => Counted'
<1> SUFFICES ASSUME IInv, Counted, [Next]_vars PROVE Counted'
  OBVIOUS
<1>0. /\ TypeOK /\ Ownership
      /\ \A i \in Ids : dispatches[i] \in Nat /\ doc[i].recovery \in Nat
  BY DEF IInv, TypeOK, OpType
<1> USE DEF Counted, AuditedRepeats, Retained, Only
<1>1. CASE \E i \in Ids : Recover(i)
  <2>1. PICK i \in Ids : Recover(i)
    BY <1>1
  <2>2. worker' = worker /\ worker = "off" /\ dispatches' = dispatches
    BY <1>0, <2>1 DEF Recover, Ownership
  <2>3. Moves(i, "running", "queued") /\ doc'[i].recovery = doc[i].recovery + 1
    BY <1>0, <2>1, RecoverEffect
  <2> QED
    BY <1>0, <2>2, <2>3 DEF Moves
<1>2. CASE EnqueueWrite
  <2>1. PICK i \in Ids :
          /\ Only(i) /\ doc[i].status = "absent" /\ doc'[i].status = "queued"
          /\ doc'[i].recovery = 0
    BY <1>0, <1>2, EnqueueStamps DEF Stamped
  <2>2. worker' = worker /\ cur' = cur /\ dispatches' = dispatches
    BY <1>2 DEF EnqueueWrite
  <2>3. worker = "dispatch" => cur \in Ids /\ cur # i
    BY <1>0, <2>1 DEF Ownership, Busy, Running
  <2> QED
    BY <1>0, <2>1, <2>2, <2>3
<1>3. CASE Begin
  <2>1. cur' = cur /\ dispatches' = dispatches
    BY <1>3 DEF Begin
  <2>2. cur \in Ids /\ Moves(cur, "queued", "running") /\ doc'[cur].recovery = doc[cur].recovery
    BY <1>0, <1>3, BeginEffect
  <2>3. dispatches[cur] <= doc[cur].recovery
    BY <1>0, <2>2 DEF Moves
  <2> QED
    BY <1>0, <2>1, <2>2, <2>3 DEF Moves
<1>4. CASE Finish
  <2>1. worker' = "check" /\ dispatches' = dispatches /\ worker \in Terminal
    BY <1>4 DEF Finish
  <2>2. cur \in Ids /\ Moves(cur, "running", worker) /\ doc'[cur].recovery = doc[cur].recovery
    BY <1>0, <1>4, FinishEffect
  <2> QED
    BY <1>0, <2>1, <2>2 DEF Moves, Terminal
<1>5. CASE Dispatch
  <2>1. /\ doc' = doc /\ worker' = "calling"
        /\ dispatches' = [dispatches EXCEPT ![cur] = @ + 1]
        /\ worker = "dispatch"
    BY <1>5 DEF Dispatch
  <2>2. cur \in Ids /\ doc[cur].status = "running"
    BY <1>0, <2>1 DEF Ownership, Busy, Running
  <2>3. \A j \in Ids : dispatches'[j] = IF j = cur THEN dispatches[j] + 1 ELSE dispatches[j]
    BY <1>0, <2>1, <2>2 DEF TypeOK
  <2> QED
    BY <1>0, <2>1, <2>2, <2>3
<1>6. CASE ~EnqueueWrite /\ ~Begin /\ ~Finish /\ ~Dispatch /\ ~\E i \in Ids : Recover(i)
  <2>1. doc' = doc
    BY <1>6, OtherEffect
  <2>2. dispatches' = dispatches /\ (worker' # "dispatch" \/ (worker' = worker /\ cur' = cur))
    BY <1>6
    DEF Next, StartStep, EnqueueStep, WorkerStep, Boot, Open, StartWorker, Exit, Stop,
        Crash, RecoverFault, ProcessEnds, EnqueueAdmit, EnqueueFull, EnqueueFault, Check,
        Pick, PickNone, Return, Park, Wake, WorkerFault, WorkerDies, Terminal, vars
  <2> QED
    BY <2>1, <2>2
<1> QED
  BY <1>1, <1>2, <1>3, <1>4, <1>5, <1>6

\* A provider is asked for an operation once, and once more for each recovery
\* that its record counts, whatever is killed or fails.
THEOREM Audited == Spec => []AuditedRepeats
<1>1. Init => Counted
  BY DEF Init, Counted, AuditedRepeats, Retained, AbsentOp
<1>2. Counted => AuditedRepeats
  BY DEF Counted
<1> QED
  BY Invariance, StepCounted, <1>1, <1>2, PTL DEF Spec

-----------------------------------------------------------------------------
(* The queue implements WorkQueue *)

\* The empty document is the initial state of WorkQueue.
LEMMA InitAbstract == Init => Abstract!Init
BY DEF Init, Abstract!Init, AbsentOp

\* A move of one operation is the step of WorkQueue that changes its status.
LEMMA MoveMaps ==
  ASSUME TypeOK, NEW i \in Ids, NEW from, NEW to, Moves(i, from, to)
  PROVE  /\ [j \in Ids |-> doc'[j].status]
              = [[j \in Ids |-> doc[j].status] EXCEPT ![i] = to]
         /\ [j \in Ids |-> doc'[j].request] = [j \in Ids |-> doc[j].request]
BY DEF Moves, Only

\* Every step is a step of WorkQueue or leaves what WorkQueue sees unchanged.
LEMMA StepAbstract == IInv /\ [Next]_vars => [Abstract!Next]_(Abstract!vars)
<1> SUFFICES ASSUME IInv, [Next]_vars PROVE [Abstract!Next]_(Abstract!vars)
  OBVIOUS
<1> USE DEF IInv
<1>1. CASE \E i \in Ids : Recover(i)
  <2>1. PICK i \in Ids : Recover(i)
    BY <1>1
  <2>2. Abstract!Requeue(i)
    BY <2>1, RecoverEffect, MoveMaps DEF Moves, Abstract!Requeue
  <2> QED
    BY <2>2 DEF Abstract!Next
<1>2. CASE EnqueueWrite
  <2>1. PICK i \in Ids :
          /\ doc[i].status = "absent"
          /\ doc'[i].status = "queued"
          /\ doc'[i].request = enq
          /\ Only(i)
    BY <1>2, EnqueueEffect
  <2>2. PICK r \in Requests :
          r = enq /\ \A j \in Ids : Active(doc[j]) => doc[j].request # r
    BY <1>2 DEF EnqueueWrite, Admission, HasActive, TypeOK
  <2>3. /\ [j \in Ids |-> doc'[j].status]
             = [[j \in Ids |-> doc[j].status] EXCEPT ![i] = "queued"]
        /\ [j \in Ids |-> doc'[j].request]
             = [[j \in Ids |-> doc[j].request] EXCEPT ![i] = r]
    BY <2>1, <2>2 DEF Only
  <2>4. /\ [j \in Ids |-> doc[j].status][i] = "absent"
        /\ \A j \in Ids : Abstract!Active([k \in Ids |-> doc[k].status][j])
                         => [k \in Ids |-> doc[k].request][j] # r
    BY <2>1, <2>2 DEF Active, Abstract!Active
  <2>5. Abstract!Submit(i, r)
    BY <2>3, <2>4 DEF Abstract!Submit
  <2> QED
    BY <2>2, <2>5 DEF Abstract!Next
<1>3. CASE Begin
  <2>1. Running = {}
    BY <1>3 DEF Begin, Ownership, Idle
  <2>2. PICK i \in Ids : i = cur /\ Moves(i, "queued", "running")
    BY <1>3, BeginEffect
  <2>3. /\ [j \in Ids |-> doc'[j].status]
             = [[j \in Ids |-> doc[j].status] EXCEPT ![i] = "running"]
        /\ [j \in Ids |-> doc'[j].request] = [j \in Ids |-> doc[j].request]
    BY <2>2, MoveMaps
  <2>4. doc[i].status = "queued" /\ \A j \in Ids : doc[j].status # "running"
    BY <2>1, <2>2 DEF Moves, Running
  <2>5. Abstract!Start(i)
    BY <2>2, <2>3, <2>4 DEF Abstract!Start
  <2> QED
    BY <2>2, <2>5 DEF Abstract!Next
<1>4. CASE Finish
  <2>1. PICK i \in Ids : i = cur /\ Moves(i, "running", worker) /\ worker \in Terminal
    BY <1>4, FinishEffect DEF Finish
  <2>2. /\ [j \in Ids |-> doc'[j].status]
             = [[j \in Ids |-> doc[j].status] EXCEPT ![i] = worker]
        /\ [j \in Ids |-> doc'[j].request] = [j \in Ids |-> doc[j].request]
    BY <2>1, MoveMaps
  <2>3. doc[i].status = "running" /\ worker \in {"succeeded", "failed"}
    BY <2>1 DEF Moves, Terminal
  <2>4. Abstract!Complete(i)
    BY <2>1, <2>2, <2>3 DEF Abstract!Complete
  <2> QED
    BY <2>1, <2>4 DEF Abstract!Next
<1>5. CASE ~EnqueueWrite /\ ~Begin /\ ~Finish /\ ~\E i \in Ids : Recover(i)
  BY <1>5, OtherEffect DEF Abstract!vars
<1> QED
  BY <1>1, <1>2, <1>3, <1>4, <1>5

\* Threads, crashes, clocks and failed writes only ever produce behaviours of
\* WorkQueue: deduplicated, one at a time, never reopened.
THEOREM Implementation == Spec => ImplementsWorkQueue
<1> QED
  BY InitAbstract, StepAbstract, Invariance, PTL
  DEF Spec, ImplementsWorkQueue, Abstract!Spec
=============================================================================
