-------------------------- MODULE CutWindowProofs --------------------------
(***************************************************************************)
(* The two safety properties of the global cut, for every length of the    *)
(* window and any number of reboots, runs of the hook and failures.        *)
(*                                                                         *)
(* The inductive invariant says where the phase, the unit file and the     *)
(* copied data can be while the owner or the hook is at each of its        *)
(* places: what each of them has read stays true until it acts on it,      *)
(* because the hook runs only once the owner is gone, and because the      *)
(* phase leaves ACTIVATING only for a phase that ends the window.          *)
(***************************************************************************)
EXTENDS CutWindow, TLAPS

ToV1 == {"return", "start v1", "close v1", "receipt v1", "invalidate"}
ToV2 == {"forward", "start v2", "health v2", "deploy", "close v2"}

\* The owner is alone, and its place tells the phase.
OwnerPhase ==
  /\ owner # "gone" => hook = "idle" /\ ~invalidated
  /\ owner = "preflight" => phase = "none"
  /\ owner \in {"prepared", "stop", "stopped", "quiescent", "reserve", "copy", "copied",
                "verified"} => phase \in Work
  /\ owner \in {"retarget", "restart", "health", "half", "terminal"} => phase = "ACTIVATING"

\* The hook goes one way, and nobody else moves the phase meanwhile.
HookPhase ==
  /\ hook \in ToV1 => unit = "v1" /\ phase \notin {"ACTIVATING", "HEALTHY_V2"}
  /\ hook \in ToV2 => phase \in {"ACTIVATING", "HEALTHY_V2"}
  /\ hook \in {"receipt v1", "invalidate", "receipt v2"} => phase \in Closed
  /\ receipt # "none" => phase \in Closed
  /\ owner = "receipt" => phase \in Closed
  /\ invalidated => phase \in {"HEALTHY_V1", "ABORTED"} /\ owner = "gone"

\* The unit names v2 only in a window that has gone forward.
Unit ==
  /\ unit = "v2" => phase \in {"ACTIVATING", "HEALTHY_V2", "ABORTED"} /\ ~invalidated
  /\ owner \in {"restart", "health", "half", "terminal", "receipt"} => unit = "v2"
  /\ hook \in {"start v2", "health v2", "deploy", "close v2", "receipt v2"} => unit = "v2"
  /\ phase = "HEALTHY_V2" => unit = "v2"
  /\ entered => unit = "v2" /\ service # "v1"
  /\ service = "v2" => entered

\* The copy is made with the service down, and stays complete.
Copied ==
  /\ owner \in {"stopped", "quiescent", "reserve", "copy", "copied", "verified", "retarget",
                "restart"} => service = "down" /\ ~wanted
  /\ owner \in {"copied", "verified"} => ~behind
  /\ phase = "ACTIVATING" \/ unit = "v2" => ~behind \/ woke

\* The type invariant in three parts, which different steps disturb.
Flags ==
  /\ reserved \in BOOLEAN /\ invalidated \in BOOLEAN /\ wanted \in BOOLEAN
  /\ behind \in BOOLEAN /\ woke \in BOOLEAN /\ entered \in BOOLEAN

Places ==
  /\ phase \in Phases \union {"none"}
  /\ receipt \in Closed \union {"none"}
  /\ unit \in Formats
  /\ deployed \in {"v1", "half", "v2"}
  /\ service \in Formats \union {"down"}
  /\ owner \in OwnerPlaces
  /\ hook \in HookPlaces

Bounds ==
  /\ clock \in 0..(Deadline + 1) /\ boot \in 0..MaxBoots
  /\ runs \in 0..MaxRuns /\ faults \in 0..MaxFaults

Inv == OwnerPhase /\ HookPhase /\ Unit /\ Copied
IInv == Flags /\ Places /\ Bounds /\ Inv

-----------------------------------------------------------------------------
\* What the steps write is what the types allow.
LEMMA Members ==
  /\ "preflight" \in OwnerPlaces /\ "prepared" \in OwnerPlaces /\ "stop" \in OwnerPlaces
  /\ "stopped" \in OwnerPlaces /\ "quiescent" \in OwnerPlaces
  /\ "reserve" \in OwnerPlaces /\ "copy" \in OwnerPlaces /\ "copied" \in OwnerPlaces
  /\ "verified" \in OwnerPlaces /\ "retarget" \in OwnerPlaces
  /\ "restart" \in OwnerPlaces /\ "health" \in OwnerPlaces /\ "half" \in OwnerPlaces
  /\ "terminal" \in OwnerPlaces /\ "receipt" \in OwnerPlaces /\ "gone" \in OwnerPlaces
  /\ "idle" \in HookPlaces /\ "look" \in HookPlaces /\ "return" \in HookPlaces
  /\ "start v1" \in HookPlaces /\ "close v1" \in HookPlaces
  /\ "receipt v1" \in HookPlaces /\ "invalidate" \in HookPlaces
  /\ "forward" \in HookPlaces /\ "start v2" \in HookPlaces /\ "health v2" \in HookPlaces
  /\ "deploy" \in HookPlaces /\ "close v2" \in HookPlaces /\ "receipt v2" \in HookPlaces
  /\ "done" \in HookPlaces /\ "killed" \in HookPlaces
  /\ "PREPARED" \in Phases /\ "STOPPING" \in Phases /\ "QUIESCENT" \in Phases
  /\ "APPLYING" \in Phases /\ "RECOVERY_VERIFIED" \in Phases /\ "ACTIVATING" \in Phases
  /\ "RETURNING_V1" \in Phases /\ "HEALTHY_V1" \in Phases /\ "HEALTHY_V2" \in Phases
  /\ "ABORTED" \in Phases
  /\ "v1" \in Formats /\ "v2" \in Formats
  BY DEF OwnerPlaces, HookPlaces, Phases, Work, Closed, Formats

\* A receipt is written once the window is closed.
LEMMA ReceiptClosed == IInv /\ (OwnerReceipt \/ Receipt) => phase \in Closed
  BY DEF IInv, Inv, HookPhase, OwnerReceipt, Receipt, Goes, Steps

\* The invariant holds when the command starts.
LEMMA InitIInv == Init => IInv
<1> SUFFICES ASSUME Init PROVE IInv
  OBVIOUS
<1>1. Flags /\ Places
  BY Members DEF Init, Flags, Places
<1>2. Bounds
  BY CutWindowAssumption DEF Init, Bounds, CutWindowAssumption
<1>3. OwnerPhase /\ HookPhase
  BY DEF Init, OwnerPhase, HookPhase, ToV1, ToV2
<1>4. Unit /\ Copied
  BY DEF Init, Unit, Copied
<1> QED
  BY <1>1, <1>2, <1>3, <1>4 DEF IInv, Inv

\* Every step keeps the flags Boolean.
LEMMA StepFlags == Flags /\ [Next]_vars => Flags'
<1> SUFFICES ASSUME Flags, [Next]_vars PROVE Flags'
  OBVIOUS
<1> USE CutWindowAssumption DEF Flags, window, attempt, release, live, time, used
<1>1. CASE Prepare
  BY <1>1 DEF Prepare, Goes
<1>2. CASE Stopping
  BY <1>2 DEF Stopping, Enters, Goes, CanAdvance
<1>3. CASE Stop
  BY <1>3 DEF Stop, Stops, Goes
<1>4. CASE Quiesce
  BY <1>4 DEF Quiesce, Enters, Goes
<1>5. CASE Apply
  BY <1>5 DEF Apply, Enters, Goes
<1>6. CASE ReserveSuccessor
  BY <1>6 DEF ReserveSuccessor, Goes
<1>7. CASE Copy
  BY <1>7 DEF Copy, Goes
<1>8. CASE Verified
  BY <1>8 DEF Verified, Enters, Goes
<1>9. CASE Activating
  BY <1>9 DEF Activating, Enters, Goes
<1>10. CASE Retarget
  BY <1>10 DEF Retarget, Goes
<1>11. CASE Restart
  BY <1>11 DEF Restart, Goes, Runs
<1>12. CASE Deploy
  BY <1>12 DEF Deploy, Deploys, Goes
<1>13. CASE OwnerCloses
  BY <1>13 DEF OwnerCloses, CanClose, TerminalPhase, Goes
<1>14. CASE OwnerReceipt
  BY <1>14 DEF OwnerReceipt, Goes
<1>15. CASE OwnerEnds
  BY <1>15 DEF OwnerEnds
<1>16. CASE ActivationFails
  BY <1>16 DEF ActivationFails, Stops
<1>17. CASE HookStarts
  BY <1>17 DEF HookStarts
<1>18. CASE Look
  BY <1>18 DEF Look, Finished, Forward, ForwardSafe, ReturnSafe
<1>19. CASE Return
  BY <1>19 DEF Return, CanAdvance, NextPhase
<1>20. CASE StartV1
  BY <1>20 DEF StartV1, Steps, StartUnlessActive, Runs
<1>21. CASE CloseV1
  BY <1>21 DEF CloseV1, Close, CanClose, CanAdvance, NextPhase, TerminalPhase
<1>22. CASE Receipt
  BY <1>22 DEF Receipt, Steps
<1>23. CASE Invalidate
  BY <1>23 DEF Invalidate, Steps
<1>24. CASE ForwardRetarget
  BY <1>24 DEF ForwardRetarget, Steps
<1>25. CASE StartV2
  BY <1>25 DEF StartV2, Steps, Runs
<1>26. CASE HealthV2
  BY <1>26 DEF HealthV2
<1>27. CASE ForwardDeploy
  BY <1>27 DEF ForwardDeploy, Deploys
<1>28. CASE CloseV2
  BY <1>28 DEF CloseV2, Close, CanClose, CanAdvance, NextPhase, TerminalPhase
<1>29. CASE HookFails
  BY <1>29 DEF HookFails
<1>30. CASE Tick
  BY <1>30 DEF Tick
<1>31. CASE ServiceFails
  BY <1>31 DEF ServiceFails
<1>32. CASE SystemdRestarts
  BY <1>32 DEF SystemdRestarts, Runs, Wakes
<1>33. CASE Reboot
  BY <1>33 DEF Reboot, Runs, Stops, Wakes
<1>34. CASE UNCHANGED vars
  BY <1>34 DEF vars
<1>35. QED
  BY <1>1, <1>2, <1>3, <1>4, <1>5, <1>6, <1>7, <1>8, <1>9, <1>10, <1>11, <1>12, <1>13,
     <1>14, <1>15, <1>16, <1>17, <1>18, <1>19, <1>20, <1>21, <1>22, <1>23, <1>24, <1>25,
     <1>26, <1>27, <1>28, <1>29, <1>30, <1>31, <1>32, <1>33, <1>34 DEF Next, OwnerStep,
     HookStep

\* Every step keeps the counters in their bounds.
LEMMA StepBounds == Bounds /\ [Next]_vars => Bounds'
<1> SUFFICES ASSUME Bounds, [Next]_vars PROVE Bounds'
  OBVIOUS
<1> USE CutWindowAssumption DEF Bounds, CutWindowAssumption, window, attempt, release, live,
    time, used
<1>1. CASE Prepare
  BY <1>1 DEF Prepare, Goes
<1>2. CASE Stopping
  BY <1>2 DEF Stopping, Enters, Goes, CanAdvance
<1>3. CASE Stop
  BY <1>3 DEF Stop, Stops, Goes
<1>4. CASE Quiesce
  BY <1>4 DEF Quiesce, Enters, Goes
<1>5. CASE Apply
  BY <1>5 DEF Apply, Enters, Goes
<1>6. CASE ReserveSuccessor
  BY <1>6 DEF ReserveSuccessor, Goes
<1>7. CASE Copy
  BY <1>7 DEF Copy, Goes
<1>8. CASE Verified
  BY <1>8 DEF Verified, Enters, Goes
<1>9. CASE Activating
  BY <1>9 DEF Activating, Enters, Goes
<1>10. CASE Retarget
  BY <1>10 DEF Retarget, Goes
<1>11. CASE Restart
  BY <1>11 DEF Restart, Goes, Runs
<1>12. CASE Deploy
  BY <1>12 DEF Deploy, Deploys, Goes
<1>13. CASE OwnerCloses
  BY <1>13 DEF OwnerCloses, CanClose, TerminalPhase, Goes
<1>14. CASE OwnerReceipt
  BY <1>14 DEF OwnerReceipt, Goes
<1>15. CASE OwnerEnds
  BY <1>15 DEF OwnerEnds
<1>16. CASE ActivationFails
  BY <1>16 DEF ActivationFails, Stops
<1>17. CASE HookStarts
  BY <1>17 DEF HookStarts
<1>18. CASE Look
  BY <1>18 DEF Look, Finished, Forward, ForwardSafe, ReturnSafe
<1>19. CASE Return
  BY <1>19 DEF Return, CanAdvance, NextPhase
<1>20. CASE StartV1
  BY <1>20 DEF StartV1, Steps, StartUnlessActive, Runs
<1>21. CASE CloseV1
  BY <1>21 DEF CloseV1, Close, CanClose, CanAdvance, NextPhase, TerminalPhase
<1>22. CASE Receipt
  BY <1>22 DEF Receipt, Steps
<1>23. CASE Invalidate
  BY <1>23 DEF Invalidate, Steps
<1>24. CASE ForwardRetarget
  BY <1>24 DEF ForwardRetarget, Steps
<1>25. CASE StartV2
  BY <1>25 DEF StartV2, Steps, Runs
<1>26. CASE HealthV2
  BY <1>26 DEF HealthV2
<1>27. CASE ForwardDeploy
  BY <1>27 DEF ForwardDeploy, Deploys
<1>28. CASE CloseV2
  BY <1>28 DEF CloseV2, Close, CanClose, CanAdvance, NextPhase, TerminalPhase
<1>29. CASE HookFails
  BY <1>29 DEF HookFails
<1>30. CASE Tick
  BY <1>30 DEF Tick
<1>31. CASE ServiceFails
  BY <1>31 DEF ServiceFails
<1>32. CASE SystemdRestarts
  BY <1>32 DEF SystemdRestarts, Runs, Wakes
<1>33. CASE Reboot
  BY <1>33 DEF Reboot, Runs, Stops, Wakes
<1>34. CASE UNCHANGED vars
  BY <1>34 DEF vars
<1>35. QED
  BY <1>1, <1>2, <1>3, <1>4, <1>5, <1>6, <1>7, <1>8, <1>9, <1>10, <1>11, <1>12, <1>13,
     <1>14, <1>15, <1>16, <1>17, <1>18, <1>19, <1>20, <1>21, <1>22, <1>23, <1>24, <1>25,
     <1>26, <1>27, <1>28, <1>29, <1>30, <1>31, <1>32, <1>33, <1>34 DEF Next, OwnerStep,
     HookStep

\* Every step keeps the phase, the service and the places of the processes in their types.
LEMMA StepPlaces == IInv /\ [Next]_vars => Places'
<1> SUFFICES ASSUME IInv, [Next]_vars PROVE Places'
  OBVIOUS
<1> USE CutWindowAssumption DEF Places, IInv, window, attempt, release, live, time, used
<1>1. CASE Prepare
  BY <1>1, Members, ReceiptClosed DEF Prepare, Goes
<1>2. CASE Stopping
  BY <1>2, Members, ReceiptClosed DEF Stopping, Enters, Goes, CanAdvance
<1>3. CASE Stop
  BY <1>3, Members, ReceiptClosed DEF Stop, Stops, Goes
<1>4. CASE Quiesce
  BY <1>4, Members, ReceiptClosed DEF Quiesce, Enters, Goes
<1>5. CASE Apply
  BY <1>5, Members, ReceiptClosed DEF Apply, Enters, Goes
<1>6. CASE ReserveSuccessor
  BY <1>6, Members, ReceiptClosed DEF ReserveSuccessor, Goes
<1>7. CASE Copy
  BY <1>7, Members, ReceiptClosed DEF Copy, Goes
<1>8. CASE Verified
  BY <1>8, Members, ReceiptClosed DEF Verified, Enters, Goes
<1>9. CASE Activating
  BY <1>9, Members, ReceiptClosed DEF Activating, Enters, Goes
<1>10. CASE Retarget
  BY <1>10, Members, ReceiptClosed DEF Retarget, Goes
<1>11. CASE Restart
  BY <1>11, Members, ReceiptClosed DEF Restart, Goes, Runs
<1>12. CASE Deploy
  BY <1>12, Members, ReceiptClosed DEF Deploy, Deploys, Goes
<1>13. CASE OwnerCloses
  BY <1>13, Members, ReceiptClosed DEF OwnerCloses, CanClose, TerminalPhase, Goes
<1>14. CASE OwnerReceipt
  BY <1>14, Members, ReceiptClosed DEF OwnerReceipt, Goes
<1>15. CASE OwnerEnds
  BY <1>15, Members, ReceiptClosed DEF OwnerEnds
<1>16. CASE ActivationFails
  BY <1>16, Members, ReceiptClosed DEF ActivationFails, Stops
<1>17. CASE HookStarts
  BY <1>17, Members, ReceiptClosed DEF HookStarts
<1>18. CASE Look
  BY <1>18, Members, ReceiptClosed DEF Look, Finished, Forward, ForwardSafe, ReturnSafe
<1>19. CASE Return
  BY <1>19, Members, ReceiptClosed DEF Return, CanAdvance, NextPhase
<1>20. CASE StartV1
  BY <1>20, Members, ReceiptClosed DEF StartV1, Steps, StartUnlessActive, Runs
<1>21. CASE CloseV1
  BY <1>21, Members, ReceiptClosed DEF CloseV1, Close, CanClose, CanAdvance, NextPhase,
     TerminalPhase
<1>22. CASE Receipt
  BY <1>22, Members, ReceiptClosed DEF Receipt, Steps
<1>23. CASE Invalidate
  BY <1>23, Members, ReceiptClosed DEF Invalidate, Steps
<1>24. CASE ForwardRetarget
  BY <1>24, Members, ReceiptClosed DEF ForwardRetarget, Steps
<1>25. CASE StartV2
  BY <1>25, Members, ReceiptClosed DEF StartV2, Steps, Runs
<1>26. CASE HealthV2
  BY <1>26, Members, ReceiptClosed DEF HealthV2
<1>27. CASE ForwardDeploy
  BY <1>27, Members, ReceiptClosed DEF ForwardDeploy, Deploys
<1>28. CASE CloseV2
  BY <1>28, Members, ReceiptClosed DEF CloseV2, Close, CanClose, CanAdvance, NextPhase,
     TerminalPhase
<1>29. CASE HookFails
  BY <1>29, Members, ReceiptClosed DEF HookFails
<1>30. CASE Tick
  BY <1>30, Members, ReceiptClosed DEF Tick
<1>31. CASE ServiceFails
  BY <1>31, Members, ReceiptClosed DEF ServiceFails
<1>32. CASE SystemdRestarts
  BY <1>32, Members, ReceiptClosed DEF SystemdRestarts, Runs, Wakes
<1>33. CASE Reboot
  BY <1>33, Members, ReceiptClosed DEF Reboot, Runs, Stops, Wakes
<1>34. CASE UNCHANGED vars
  BY <1>34 DEF vars
<1>35. QED
  BY <1>1, <1>2, <1>3, <1>4, <1>5, <1>6, <1>7, <1>8, <1>9, <1>10, <1>11, <1>12, <1>13,
     <1>14, <1>15, <1>16, <1>17, <1>18, <1>19, <1>20, <1>21, <1>22, <1>23, <1>24, <1>25,
     <1>26, <1>27, <1>28, <1>29, <1>30, <1>31, <1>32, <1>33, <1>34 DEF Next, OwnerStep,
     HookStep

\* The place of the owner tells the phase: the hook does not run before the owner is gone.
LEMMA StepOwnerPhase == IInv /\ [Next]_vars => OwnerPhase'
<1> SUFFICES ASSUME IInv, [Next]_vars PROVE OwnerPhase'
  OBVIOUS
<1> USE CutWindowAssumption DEF IInv, Inv, Flags, OwnerPhase, HookPhase, Unit, Copied, Work,
    Closed, Formats, ToV1, ToV2, window, attempt, release, live, time, used
<1>1. CASE Prepare
  BY <1>1 DEF Prepare, Goes
<1>2. CASE Stopping
  BY <1>2 DEF Stopping, Enters, Goes, CanAdvance
<1>3. CASE Stop
  BY <1>3 DEF Stop, Stops, Goes
<1>4. CASE Quiesce
  BY <1>4 DEF Quiesce, Enters, Goes
<1>5. CASE Apply
  BY <1>5 DEF Apply, Enters, Goes
<1>6. CASE ReserveSuccessor
  BY <1>6 DEF ReserveSuccessor, Goes
<1>7. CASE Copy
  BY <1>7 DEF Copy, Goes
<1>8. CASE Verified
  BY <1>8 DEF Verified, Enters, Goes
<1>9. CASE Activating
  BY <1>9 DEF Activating, Enters, Goes
<1>10. CASE Retarget
  BY <1>10 DEF Retarget, Goes
<1>11. CASE Restart
  BY <1>11 DEF Restart, Goes, Runs
<1>12. CASE Deploy
  BY <1>12 DEF Deploy, Deploys, Goes
<1>13. CASE OwnerCloses
  BY <1>13 DEF OwnerCloses, CanClose, TerminalPhase, Goes
<1>14. CASE OwnerReceipt
  BY <1>14 DEF OwnerReceipt, Goes
<1>15. CASE OwnerEnds
  BY <1>15 DEF OwnerEnds
<1>16. CASE ActivationFails
  BY <1>16 DEF ActivationFails, Stops
<1>17. CASE HookStarts
  BY <1>17 DEF HookStarts
<1>18. CASE Look
  BY <1>18 DEF Look, Finished, Forward, ForwardSafe, ReturnSafe
<1>19. CASE Return
  BY <1>19 DEF Return, CanAdvance, NextPhase
<1>20. CASE StartV1
  BY <1>20 DEF StartV1, Steps, StartUnlessActive, Runs
<1>21. CASE CloseV1
  BY <1>21 DEF CloseV1, Close, CanClose, CanAdvance, NextPhase, TerminalPhase
<1>22. CASE Receipt
  BY <1>22 DEF Receipt, Steps
<1>23. CASE Invalidate
  BY <1>23 DEF Invalidate, Steps
<1>24. CASE ForwardRetarget
  BY <1>24 DEF ForwardRetarget, Steps
<1>25. CASE StartV2
  BY <1>25 DEF StartV2, Steps, Runs
<1>26. CASE HealthV2
  BY <1>26 DEF HealthV2
<1>27. CASE ForwardDeploy
  BY <1>27 DEF ForwardDeploy, Deploys
<1>28. CASE CloseV2
  BY <1>28 DEF CloseV2, Close, CanClose, CanAdvance, NextPhase, TerminalPhase
<1>29. CASE HookFails
  BY <1>29 DEF HookFails
<1>30. CASE Tick
  BY <1>30 DEF Tick
<1>31. CASE ServiceFails
  BY <1>31 DEF ServiceFails
<1>32. CASE SystemdRestarts
  BY <1>32 DEF SystemdRestarts, Runs, Wakes
<1>33. CASE Reboot
  BY <1>33 DEF Reboot, Runs, Stops, Wakes
<1>34. CASE UNCHANGED vars
  BY <1>34 DEF vars
<1>35. QED
  BY <1>1, <1>2, <1>3, <1>4, <1>5, <1>6, <1>7, <1>8, <1>9, <1>10, <1>11, <1>12, <1>13,
     <1>14, <1>15, <1>16, <1>17, <1>18, <1>19, <1>20, <1>21, <1>22, <1>23, <1>24, <1>25,
     <1>26, <1>27, <1>28, <1>29, <1>30, <1>31, <1>32, <1>33, <1>34 DEF Next, OwnerStep,
     HookStep

\* The hook keeps to its direction: no step leaves a phase that ends the window.
LEMMA StepHookPhase == IInv /\ [Next]_vars => HookPhase'
<1> SUFFICES ASSUME IInv, [Next]_vars PROVE HookPhase'
  OBVIOUS
<1> USE CutWindowAssumption DEF IInv, Inv, Flags, OwnerPhase, HookPhase, Unit, Copied, Work,
    Closed, Formats, ToV1, ToV2, window, attempt, release, live, time, used
<1>1. CASE Prepare
  BY <1>1 DEF Prepare, Goes
<1>2. CASE Stopping
  BY <1>2 DEF Stopping, Enters, Goes, CanAdvance
<1>3. CASE Stop
  BY <1>3 DEF Stop, Stops, Goes
<1>4. CASE Quiesce
  BY <1>4 DEF Quiesce, Enters, Goes
<1>5. CASE Apply
  BY <1>5 DEF Apply, Enters, Goes
<1>6. CASE ReserveSuccessor
  BY <1>6 DEF ReserveSuccessor, Goes
<1>7. CASE Copy
  BY <1>7 DEF Copy, Goes
<1>8. CASE Verified
  BY <1>8 DEF Verified, Enters, Goes
<1>9. CASE Activating
  BY <1>9 DEF Activating, Enters, Goes
<1>10. CASE Retarget
  BY <1>10 DEF Retarget, Goes
<1>11. CASE Restart
  BY <1>11 DEF Restart, Goes, Runs
<1>12. CASE Deploy
  BY <1>12 DEF Deploy, Deploys, Goes
<1>13. CASE OwnerCloses
  BY <1>13 DEF OwnerCloses, CanClose, TerminalPhase, Goes
<1>14. CASE OwnerReceipt
  BY <1>14 DEF OwnerReceipt, Goes
<1>15. CASE OwnerEnds
  BY <1>15 DEF OwnerEnds
<1>16. CASE ActivationFails
  BY <1>16 DEF ActivationFails, Stops
<1>17. CASE HookStarts
  BY <1>17 DEF HookStarts
<1>18. CASE Look
  BY <1>18 DEF Look, Finished, Forward, ForwardSafe, ReturnSafe
<1>19. CASE Return
  BY <1>19 DEF Return, CanAdvance, NextPhase
<1>20. CASE StartV1
  BY <1>20 DEF StartV1, Steps, StartUnlessActive, Runs
<1>21. CASE CloseV1
  <2>1. CASE receipt # "none"
    <3>1. hook = "close v1" /\ hook' = "invalidate" /\ UNCHANGED <<window, attempt, release, live, owner>>
      BY <1>21, <2>1 DEF CloseV1
    <3> QED
      BY <2>1, <3>1
  <2>2. CASE CanClose("v1")
    <3>1. TerminalPhase("v1") \in {"HEALTHY_V1", "ABORTED"}
      BY DEF TerminalPhase
    <3>2. phase' = phase \/ phase' \in {"HEALTHY_V1", "ABORTED"}
      BY <1>21, <2>2, <3>1 DEF CloseV1, Close
    <3>3. phase = TerminalPhase("v1") \/ phase \notin Closed
      BY <2>2 DEF CanClose, CanAdvance, NextPhase
    <3>4. UNCHANGED <<receipt, reserved, invalidated, unit, deployed, service, entered, owner>>
      BY <1>21 DEF CloseV1, Close
    <3>5. hook = "close v1" /\ hook' \in {"receipt v1", "invalidate"}
      BY <1>21, <2>2 DEF CloseV1, Close
    <3>6. receipt = "none" => phase' \in {"HEALTHY_V1", "ABORTED"}
      BY <1>21, <2>2, <3>1 DEF CloseV1, Close
    <3> QED
      BY <3>1, <3>2, <3>3, <3>4, <3>5, <3>6
  <2>3. CASE receipt = "none" /\ ~CanClose("v1")
    <3>1. hook' = "done" /\ UNCHANGED <<window, attempt, release, live, owner>>
      BY <1>21, <2>3 DEF CloseV1, Close
    <3> QED
      BY <2>3, <3>1
  <2> QED
    BY <2>1, <2>2, <2>3
<1>22. CASE Receipt
  BY <1>22 DEF Receipt, Steps
<1>23. CASE Invalidate
  BY <1>23 DEF Invalidate, Steps
<1>24. CASE ForwardRetarget
  BY <1>24 DEF ForwardRetarget, Steps
<1>25. CASE StartV2
  BY <1>25 DEF StartV2, Steps, Runs
<1>26. CASE HealthV2
  BY <1>26 DEF HealthV2
<1>27. CASE ForwardDeploy
  BY <1>27 DEF ForwardDeploy, Deploys
<1>28. CASE CloseV2
  BY <1>28 DEF CloseV2, Close, CanClose, CanAdvance, NextPhase, TerminalPhase
<1>29. CASE HookFails
  BY <1>29 DEF HookFails
<1>30. CASE Tick
  BY <1>30 DEF Tick
<1>31. CASE ServiceFails
  BY <1>31 DEF ServiceFails
<1>32. CASE SystemdRestarts
  BY <1>32 DEF SystemdRestarts, Runs, Wakes
<1>33. CASE Reboot
  BY <1>33 DEF Reboot, Runs, Stops, Wakes
<1>34. CASE UNCHANGED vars
  BY <1>34 DEF vars
<1>35. QED
  BY <1>1, <1>2, <1>3, <1>4, <1>5, <1>6, <1>7, <1>8, <1>9, <1>10, <1>11, <1>12, <1>13,
     <1>14, <1>15, <1>16, <1>17, <1>18, <1>19, <1>20, <1>21, <1>22, <1>23, <1>24, <1>25,
     <1>26, <1>27, <1>28, <1>29, <1>30, <1>31, <1>32, <1>33, <1>34 DEF Next, OwnerStep,
     HookStep

\* The unit is retargeted only in a window that goes forward, and v2 runs only under it.
LEMMA StepUnit == IInv /\ [Next]_vars => Unit'
<1> SUFFICES ASSUME IInv, [Next]_vars PROVE Unit'
  OBVIOUS
<1> USE CutWindowAssumption DEF IInv, Inv, Flags, OwnerPhase, HookPhase, Unit, Copied, Work,
    Closed, Formats, ToV1, ToV2, window, attempt, release, live, time, used
<1>1. CASE Prepare
  BY <1>1 DEF Prepare, Goes
<1>2. CASE Stopping
  BY <1>2 DEF Stopping, Enters, Goes, CanAdvance
<1>3. CASE Stop
  BY <1>3 DEF Stop, Stops, Goes
<1>4. CASE Quiesce
  BY <1>4 DEF Quiesce, Enters, Goes
<1>5. CASE Apply
  BY <1>5 DEF Apply, Enters, Goes
<1>6. CASE ReserveSuccessor
  BY <1>6 DEF ReserveSuccessor, Goes
<1>7. CASE Copy
  BY <1>7 DEF Copy, Goes
<1>8. CASE Verified
  BY <1>8 DEF Verified, Enters, Goes
<1>9. CASE Activating
  BY <1>9 DEF Activating, Enters, Goes
<1>10. CASE Retarget
  BY <1>10 DEF Retarget, Goes
<1>11. CASE Restart
  BY <1>11 DEF Restart, Goes, Runs
<1>12. CASE Deploy
  BY <1>12 DEF Deploy, Deploys, Goes
<1>13. CASE OwnerCloses
  BY <1>13 DEF OwnerCloses, CanClose, TerminalPhase, Goes
<1>14. CASE OwnerReceipt
  BY <1>14 DEF OwnerReceipt, Goes
<1>15. CASE OwnerEnds
  BY <1>15 DEF OwnerEnds
<1>16. CASE ActivationFails
  BY <1>16 DEF ActivationFails, Stops
<1>17. CASE HookStarts
  BY <1>17 DEF HookStarts
<1>18. CASE Look
  BY <1>18 DEF Look, Finished, Forward, ForwardSafe, ReturnSafe
<1>19. CASE Return
  BY <1>19 DEF Return, CanAdvance, NextPhase
<1>20. CASE StartV1
  BY <1>20 DEF StartV1, Steps, StartUnlessActive, Runs
<1>21. CASE CloseV1
  <2>1. CASE receipt # "none"
    <3>1. hook = "close v1" /\ hook' = "invalidate" /\ UNCHANGED <<window, attempt, release, live, owner>>
      BY <1>21, <2>1 DEF CloseV1
    <3> QED
      BY <2>1, <3>1
  <2>2. CASE CanClose("v1")
    <3>1. TerminalPhase("v1") \in {"HEALTHY_V1", "ABORTED"}
      BY DEF TerminalPhase
    <3>2. phase' = phase \/ phase' \in {"HEALTHY_V1", "ABORTED"}
      BY <1>21, <2>2, <3>1 DEF CloseV1, Close
    <3>3. phase = TerminalPhase("v1") \/ phase \notin Closed
      BY <2>2 DEF CanClose, CanAdvance, NextPhase
    <3>4. UNCHANGED <<receipt, reserved, invalidated, unit, deployed, service, entered, owner>>
      BY <1>21 DEF CloseV1, Close
    <3>5. hook = "close v1" /\ hook' \in {"receipt v1", "invalidate"}
      BY <1>21, <2>2 DEF CloseV1, Close
    <3>6. receipt = "none" => phase' \in {"HEALTHY_V1", "ABORTED"}
      BY <1>21, <2>2, <3>1 DEF CloseV1, Close
    <3> QED
      BY <3>1, <3>2, <3>3, <3>4, <3>5, <3>6
  <2>3. CASE receipt = "none" /\ ~CanClose("v1")
    <3>1. hook' = "done" /\ UNCHANGED <<window, attempt, release, live, owner>>
      BY <1>21, <2>3 DEF CloseV1, Close
    <3> QED
      BY <2>3, <3>1
  <2> QED
    BY <2>1, <2>2, <2>3
<1>22. CASE Receipt
  BY <1>22 DEF Receipt, Steps
<1>23. CASE Invalidate
  BY <1>23 DEF Invalidate, Steps
<1>24. CASE ForwardRetarget
  BY <1>24 DEF ForwardRetarget, Steps
<1>25. CASE StartV2
  BY <1>25 DEF StartV2, Steps, Runs
<1>26. CASE HealthV2
  BY <1>26 DEF HealthV2
<1>27. CASE ForwardDeploy
  BY <1>27 DEF ForwardDeploy, Deploys
<1>28. CASE CloseV2
  BY <1>28 DEF CloseV2, Close, CanClose, CanAdvance, NextPhase, TerminalPhase
<1>29. CASE HookFails
  BY <1>29 DEF HookFails
<1>30. CASE Tick
  BY <1>30 DEF Tick
<1>31. CASE ServiceFails
  BY <1>31 DEF ServiceFails
<1>32. CASE SystemdRestarts
  BY <1>32 DEF SystemdRestarts, Runs, Wakes
<1>33. CASE Reboot
  <2>1. CASE Stops
    BY <1>33, <2>1 DEF Reboot, Stops
  <2>2. CASE Runs(unit) /\ Wakes
    <3>1. /\ service' = unit /\ wanted' = TRUE /\ behind' = (behind \/ unit = "v1")
          /\ entered' = (entered \/ unit = "v2")
          /\ woke' = (woke \/ (unit = "v1" /\ phase = "ACTIVATING"))
      BY <2>2 DEF Runs, Wakes
    <3>2. /\ owner' = "gone" /\ hook' \in {"idle", "done", "killed"}
          /\ UNCHANGED <<phase, receipt, invalidated, unit>>
      BY <1>33 DEF Reboot
    <3>3. unit \in {"v1", "v2"}
      BY DEF IInv, Places, Formats
    <3> QED
      BY <3>1, <3>2, <3>3
  <2> QED
    BY <1>33, <2>1, <2>2 DEF Reboot
<1>34. CASE UNCHANGED vars
  BY <1>34 DEF vars
<1>35. QED
  BY <1>1, <1>2, <1>3, <1>4, <1>5, <1>6, <1>7, <1>8, <1>9, <1>10, <1>11, <1>12, <1>13,
     <1>14, <1>15, <1>16, <1>17, <1>18, <1>19, <1>20, <1>21, <1>22, <1>23, <1>24, <1>25,
     <1>26, <1>27, <1>28, <1>29, <1>30, <1>31, <1>32, <1>33, <1>34 DEF Next, OwnerStep,
     HookStep

\* From the copy on v1 has not run, unless systemd started it in a window already ACTIVATING.
LEMMA StepCopied == IInv /\ [Next]_vars => Copied'
<1> SUFFICES ASSUME IInv, [Next]_vars PROVE Copied'
  OBVIOUS
<1> USE CutWindowAssumption DEF IInv, Inv, Flags, OwnerPhase, HookPhase, Unit, Copied, Work,
    Closed, Formats, ToV1, ToV2, window, attempt, release, live, time, used
<1>1. CASE Prepare
  BY <1>1 DEF Prepare, Goes
<1>2. CASE Stopping
  BY <1>2 DEF Stopping, Enters, Goes, CanAdvance
<1>3. CASE Stop
  BY <1>3 DEF Stop, Stops, Goes
<1>4. CASE Quiesce
  BY <1>4 DEF Quiesce, Enters, Goes
<1>5. CASE Apply
  BY <1>5 DEF Apply, Enters, Goes
<1>6. CASE ReserveSuccessor
  BY <1>6 DEF ReserveSuccessor, Goes
<1>7. CASE Copy
  BY <1>7 DEF Copy, Goes
<1>8. CASE Verified
  BY <1>8 DEF Verified, Enters, Goes
<1>9. CASE Activating
  BY <1>9 DEF Activating, Enters, Goes
<1>10. CASE Retarget
  BY <1>10 DEF Retarget, Goes
<1>11. CASE Restart
  BY <1>11 DEF Restart, Goes, Runs
<1>12. CASE Deploy
  BY <1>12 DEF Deploy, Deploys, Goes
<1>13. CASE OwnerCloses
  BY <1>13 DEF OwnerCloses, CanClose, TerminalPhase, Goes
<1>14. CASE OwnerReceipt
  BY <1>14 DEF OwnerReceipt, Goes
<1>15. CASE OwnerEnds
  BY <1>15 DEF OwnerEnds
<1>16. CASE ActivationFails
  BY <1>16 DEF ActivationFails, Stops
<1>17. CASE HookStarts
  BY <1>17 DEF HookStarts
<1>18. CASE Look
  BY <1>18 DEF Look, Finished, Forward, ForwardSafe, ReturnSafe
<1>19. CASE Return
  BY <1>19 DEF Return, CanAdvance, NextPhase
<1>20. CASE StartV1
  BY <1>20 DEF StartV1, Steps, StartUnlessActive, Runs
<1>21. CASE CloseV1
  BY <1>21 DEF CloseV1, Close, CanClose, CanAdvance, NextPhase, TerminalPhase
<1>22. CASE Receipt
  BY <1>22 DEF Receipt, Steps
<1>23. CASE Invalidate
  BY <1>23 DEF Invalidate, Steps
<1>24. CASE ForwardRetarget
  BY <1>24 DEF ForwardRetarget, Steps
<1>25. CASE StartV2
  BY <1>25 DEF StartV2, Steps, Runs
<1>26. CASE HealthV2
  BY <1>26 DEF HealthV2
<1>27. CASE ForwardDeploy
  BY <1>27 DEF ForwardDeploy, Deploys
<1>28. CASE CloseV2
  BY <1>28 DEF CloseV2, Close, CanClose, CanAdvance, NextPhase, TerminalPhase
<1>29. CASE HookFails
  BY <1>29 DEF HookFails
<1>30. CASE Tick
  BY <1>30 DEF Tick
<1>31. CASE ServiceFails
  BY <1>31 DEF ServiceFails
<1>32. CASE SystemdRestarts
  BY <1>32 DEF SystemdRestarts, Runs, Wakes
<1>33. CASE Reboot
  <2>1. CASE Stops
    BY <1>33, <2>1 DEF Reboot, Stops
  <2>2. CASE Runs(unit) /\ Wakes
    <3>1. /\ service' = unit /\ wanted' = TRUE /\ behind' = (behind \/ unit = "v1")
          /\ entered' = (entered \/ unit = "v2")
          /\ woke' = (woke \/ (unit = "v1" /\ phase = "ACTIVATING"))
      BY <2>2 DEF Runs, Wakes
    <3>2. /\ owner' = "gone" /\ hook' \in {"idle", "done", "killed"}
          /\ UNCHANGED <<phase, receipt, invalidated, unit>>
      BY <1>33 DEF Reboot
    <3>3. unit \in {"v1", "v2"}
      BY DEF IInv, Places, Formats
    <3> QED
      BY <3>1, <3>2, <3>3
  <2> QED
    BY <1>33, <2>1, <2>2 DEF Reboot
<1>34. CASE UNCHANGED vars
  BY <1>34 DEF vars
<1>35. QED
  BY <1>1, <1>2, <1>3, <1>4, <1>5, <1>6, <1>7, <1>8, <1>9, <1>10, <1>11, <1>12, <1>13,
     <1>14, <1>15, <1>16, <1>17, <1>18, <1>19, <1>20, <1>21, <1>22, <1>23, <1>24, <1>25,
     <1>26, <1>27, <1>28, <1>29, <1>30, <1>31, <1>32, <1>33, <1>34 DEF Next, OwnerStep,
     HookStep

\* Every behaviour of the specification keeps the invariant.
THEOREM Invariance == Spec => []IInv
<1>1. IInv /\ [Next]_vars => IInv'
  BY StepFlags, StepPlaces, StepBounds, StepOwnerPhase, StepHookPhase, StepUnit, StepCopied
     DEF IInv, Inv
<1> QED
  BY InitIInv, <1>1, PTL DEF Spec

\* The variables of the cut have their types, for every value of the constants.
THEOREM TypeCorrect == Spec => []TypeOK
<1>1. IInv => TypeOK
  BY DEF IInv, Flags, Places, Bounds, TypeOK
<1> QED
  BY Invariance, <1>1, PTL

\* Once v2 may have accepted writes, v1 never runs and the attempt is never
\* invalidated: the unit names v2 from then on, and every start obeys the unit.
THEOREM NoRevival == Spec => []OldRootNotRevived
<1>1. IInv => OldRootNotRevived
  BY DEF IInv, Inv, Unit, OldRootNotRevived
<1> QED
  BY Invariance, <1>1, PTL

\* v2 serves no copy that lacks an accepted write, but for a v1 that systemd
\* started in a window already ACTIVATING.
THEOREM CompleteCopy == Spec => []NothingForgotten
<1>1. IInv => NothingForgotten
  BY DEF IInv, Inv, Unit, Copied, NothingForgotten
<1> QED
  BY Invariance, <1>1, PTL
=============================================================================
