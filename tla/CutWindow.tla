----------------------------- MODULE CutWindow -----------------------------
(***************************************************************************)
(* The global cut of a workspace from v1 to v2                             *)
(* (workspace/workspace_v2_cutover.py, scripts/close_data_chassis.py,      *)
(* application/local_release.py).                                          *)
(*                                                                         *)
(* One owner process opens a window with one deadline on the clock of one  *)
(* boot, stops the v1 service, copies its data, and starts the v2 service  *)
(* over the copy.  The phase of the window is durable and every step       *)
(* advances it first.  When the owner is gone, for whatever reason, a hook *)
(* of the unit (ExecStopPost) looks at the phase and finishes the cut in   *)
(* one direction: before ACTIVATING it returns v1 and invalidates the      *)
(* attempt, from ACTIVATING on it goes forward to v2.  The hook itself may *)
(* be killed; a rerun of the command over the existing window only runs    *)
(* the hook again.  The machine may be rebooted at any time, after which   *)
(* the clock of the window counts no longer and systemd may start the      *)
(* service that the unit file names.                                       *)
(***************************************************************************)
EXTENDS Naturals

CONSTANTS
  Deadline,  \* length of the window, in steps of the clock
  Reserve,   \* the part of it that is kept for the return
  MaxBoots,  \* bound: reboots
  MaxRuns,   \* bound: runs of the hook
  MaxFaults  \* bound: failures of a service, of a health check, of the hook

ASSUME CutWindowAssumption ==
  /\ Deadline \in Nat /\ Reserve \in Nat /\ 0 < Reserve /\ Reserve < Deadline
  /\ MaxBoots \in Nat /\ MaxRuns \in Nat /\ MaxFaults \in Nat

Work == {"PREPARED", "STOPPING", "QUIESCENT", "APPLYING", "RECOVERY_VERIFIED"}
Closed == {"HEALTHY_V1", "HEALTHY_V2", "ABORTED"}
Phases == Work \union {"ACTIVATING", "RETURNING_V1"} \union Closed
Formats == {"v1", "v2"}

VARIABLES
  phase,     \* durable: the phase of the window, "none" before it is prepared
  receipt,   \* durable: the phase the terminal receipt names, or "none"
  reserved, invalidated,  \* durable: the attempt's reservation, its invalidation
  unit,      \* durable: the workspace the unit file of the service names
  deployed,  \* durable: what the release pointers name: v1, half, v2
  service,   \* the running service: v1, v2 or down
  wanted,    \* systemd starts the service again when it fails
  owner,     \* where the owner process is
  hook,      \* where the hook is
  clock,     \* the clock since the window began, while its boot lasts
  boot,      \* reboots since the window began
  runs, faults,  \* bounds used so far
  behind,    \* history: v2 lacks a write that v1 has accepted
  woke,      \* history: systemd started v1 while the window was ACTIVATING
  entered    \* history: v2 has run, and may have accepted a write

window == <<phase, receipt>>
attempt == <<reserved, invalidated>>
release == <<unit, deployed>>
live == <<service, wanted, behind, woke, entered>>
time == <<clock, boot>>
used == <<runs, faults>>
vars == <<phase, receipt, reserved, invalidated, unit, deployed, service, wanted,
          owner, hook, clock, boot, runs, faults, behind, woke, entered>>

Init ==
  /\ phase = "none" /\ receipt = "none"
  /\ reserved = FALSE /\ invalidated = FALSE
  /\ unit = "v1" /\ deployed = "v1"
  /\ service = "v1" /\ wanted = TRUE
  /\ owner = "preflight" /\ hook = "idle"
  /\ clock = 0 /\ boot = 0
  /\ runs = 0 /\ faults = 0
  /\ behind = TRUE /\ woke = FALSE /\ entered = FALSE

-----------------------------------------------------------------------------
(* The window *)

NextPhase(p) ==
  CASE p = "PREPARED" -> {"STOPPING", "ABORTED"}
    [] p = "STOPPING" -> {"QUIESCENT", "RETURNING_V1"}
    [] p = "QUIESCENT" -> {"APPLYING", "RETURNING_V1"}
    [] p = "APPLYING" -> {"RECOVERY_VERIFIED", "RETURNING_V1"}
    [] p = "RECOVERY_VERIFIED" -> {"ACTIVATING", "RETURNING_V1"}
    [] p = "ACTIVATING" -> {"HEALTHY_V2", "ABORTED"}
    [] p = "RETURNING_V1" -> {"HEALTHY_V1", "ABORTED"}
    [] OTHER -> {}

\* Time for work remains.  A clock of another boot is refused.
WorkRemains == boot = 0 /\ clock + Reserve < Deadline

\* Within the deadline of the boot that the window belongs to.
InTime == boot = 0 /\ clock <= Deadline

CanAdvance(to) ==
  \/ to = "ABORTED" /\ boot # 0 /\ phase \notin Closed
  \/ /\ to \in NextPhase(phase)
     /\ boot = 0
     /\ to \in Closed \union {"RETURNING_V1"} \/ WorkRemains
     /\ to = "ABORTED" \/ InTime

\* A command of the cut is admitted in its phases, for as long as it cannot
\* consume the reserve and the attempt has not been invalidated.
Admitted(S) == phase \in S /\ WorkRemains /\ ~invalidated

\* The service of format f is started: its writes are its own from here on.
Runs(f) ==
  /\ service' = f
  /\ wanted' = TRUE
  /\ behind' = (behind \/ f = "v1")
  /\ entered' = (entered \/ f = "v2")

\* The service is stopped, and systemd is not to start it again.
Stops ==
  /\ service' = "down"
  /\ wanted' = FALSE
  /\ UNCHANGED <<behind, woke, entered>>

-----------------------------------------------------------------------------
(* The owner *)

Goes(from, to) == owner = from /\ owner' = to

\* A phase is made durable before its work begins.
Enters(from, to, p) ==
  /\ Goes(from, to)
  /\ CanAdvance(p)
  /\ phase' = p
  /\ UNCHANGED <<receipt, attempt, release, live, hook, time, used>>

\* _run_global_cut before the stop: everything is verified with v1 active.
Prepare ==
  /\ Goes("preflight", "prepared")
  /\ service = "v1"
  /\ phase' = "PREPARED"
  /\ UNCHANGED <<receipt, attempt, release, live, hook, time, used>>

Stopping == Enters("prepared", "stop", "STOPPING")

Stop ==
  /\ Goes("stop", "stopped")
  /\ Stops
  /\ UNCHANGED <<window, attempt, release, hook, time, used>>

Quiesce == Enters("stopped", "quiescent", "QUIESCENT")
Apply == Enters("quiescent", "reserve", "APPLYING")

\* The catch-up reserves the successor generation first, ...
ReserveSuccessor ==
  /\ Goes("reserve", "copy")
  /\ Admitted({"QUIESCENT", "APPLYING"})
  /\ reserved' = TRUE
  /\ UNCHANGED <<window, invalidated, release, live, hook, time, used>>

\* ... then it copies everything the source holds, and the recovery is proved.
Copy ==
  /\ Goes("copy", "copied")
  /\ Admitted({"APPLYING"})
  /\ behind' = (service = "v1")
  /\ UNCHANGED <<window, attempt, release, service, wanted, woke, entered>>
  /\ UNCHANGED <<hook, time, used>>

Verified == Enters("copied", "verified", "RECOVERY_VERIFIED")

\* The intention is written, then the phase that makes it irrevocable.
Activating == Enters("verified", "retarget", "ACTIVATING")

Retarget ==
  /\ Goes("retarget", "restart")
  /\ Admitted({"ACTIVATING"})
  /\ unit' = "v2"
  /\ UNCHANGED <<window, attempt, deployed, live, hook, time, used>>

Restart ==
  /\ Goes("restart", "health")
  /\ Runs(unit)
  /\ UNCHANGED <<window, attempt, release, woke, hook, time, used>>

\* Fault: a failed activation restores the unit it had replaced and restarts it.
ActivationFailsBack ==
  /\ owner \in {"restart", "health"} /\ owner' = "gone"
  /\ faults < MaxFaults /\ faults' = faults + 1
  /\ unit' = "v1"
  /\ Runs("v1")
  /\ UNCHANGED <<window, attempt, deployed, woke, hook, time, runs>>

\* The restart fails, or the service is not healthy: it is stopped, and the
\* old unit is not restored.
ActivationFails ==
  /\ owner \in {"restart", "health"} /\ owner' = "gone"
  /\ faults < MaxFaults /\ faults' = faults + 1
  /\ Stops
  /\ UNCHANGED <<window, attempt, release, hook, time, runs>>

\* The deployment state is saved, then the workspace binding.
Deploys == deployed' = IF deployed = "v1" THEN "half" ELSE "v2"

Deploy ==
  /\ \/ Goes("health", "half") /\ service = "v2"
     \/ Goes("half", "terminal")
  /\ Deploys
  /\ UNCHANGED <<window, attempt, unit, live, hook, time, used>>

\* _cut_terminal: the live service is observed; past the deadline, or on
\* another boot, the window is closed as aborted.
TerminalPhase(f) ==
  IF InTime THEN (IF f = "v2" THEN "HEALTHY_V2" ELSE "HEALTHY_V1") ELSE "ABORTED"

Observed(f) == service = f /\ (f = "v2" => deployed = "v2")

CanClose(f) == Observed(f) /\ (phase = TerminalPhase(f) \/ CanAdvance(TerminalPhase(f)))

OwnerCloses ==
  /\ Goes("terminal", "receipt")
  /\ CanClose("v2")
  /\ phase' = TerminalPhase("v2")
  /\ UNCHANGED <<receipt, attempt, release, live, hook, time, used>>

OwnerReceipt ==
  /\ Goes("receipt", "gone")
  /\ receipt' = phase
  /\ UNCHANGED <<phase, attempt, release, live, hook, time, used>>

\* A step raises, the monitor or systemd ends the process, or it is killed.
OwnerEnds ==
  /\ owner # "gone" /\ owner' = "gone"
  /\ UNCHANGED <<window, attempt, release, live, hook, time, used>>

-----------------------------------------------------------------------------
(* The hook *)

Steps(from, to) == hook = from /\ hook' = to

\* systemd runs it when the owner is gone; later runs are reruns by hand.
HookStarts ==
  /\ owner = "gone"
  /\ hook \in {"idle", "done", "killed"} /\ hook' = "look"
  /\ runs < MaxRuns /\ runs' = runs + 1
  /\ UNCHANGED <<window, attempt, release, live, owner, time, faults>>

\* Fault: a window whose recovery was verified goes forward as well.
ForwardFromVerified == phase \in {"RECOVERY_VERIFIED", "ACTIVATING", "HEALTHY_V2"}

\* An activation may already have accepted writes.
Forward == phase \in {"ACTIVATING", "HEALTHY_V2"}

\* A deployment that names v2 anywhere is not returned to v1.
ReturnSafe == deployed # "v2" /\ unit = "v1"

\* Another boot has the reserve to recover in, the window's own what is left.
\* A live service that the unit does not name as v2 is not touched.
ForwardSafe == (boot # 0 \/ clock < Deadline) /\ (service = "down" \/ unit = "v2")

Finished == phase = "none" \/ (phase = "HEALTHY_V2" /\ receipt # "none")

\* _recover_global_cut up to its first write.
Look ==
  /\ hook = "look"
  /\ hook' = CASE Finished -> "done"
               [] ~Finished /\ Forward ->
                    IF ~ForwardSafe THEN "done"
                    ELSE IF service = "down" THEN "forward" ELSE "health v2"
               [] ~Finished /\ ~Forward ->
                    IF ~ReturnSafe THEN "done"
                    ELSE IF boot = 0 /\ phase \in Work THEN "return" ELSE "start v1"
  /\ UNCHANGED <<window, attempt, release, live, owner, time, used>>

\* A window that was not stopped is aborted; any other returns to v1.
Return ==
  /\ hook = "return"
  /\ \/ /\ phase = "PREPARED" /\ CanAdvance("ABORTED")
        /\ phase' = "ABORTED" /\ hook' = "done"
     \/ /\ phase # "PREPARED" /\ CanAdvance("RETURNING_V1")
        /\ phase' = "RETURNING_V1" /\ hook' = "start v1"
     \/ /\ phase # "PREPARED" /\ ~CanAdvance("RETURNING_V1")
        /\ phase' = phase /\ hook' = "done"
  /\ UNCHANGED <<receipt, attempt, release, live, owner, time, used>>

\* Fault: the service is left to systemd.
StartLeft == UNCHANGED live

\* The service is restarted unless it is active.
StartUnlessActive ==
  IF service = "down" THEN Runs(unit) /\ woke' = woke ELSE UNCHANGED live

StartV1 ==
  /\ Steps("start v1", "close v1")
  /\ StartUnlessActive
  /\ UNCHANGED <<window, attempt, release, owner, time, used>>

\* Fault: the hook goes on to the receipt with the window as it is.
CloseAnyway(f, next) ==
  /\ hook' = next
  /\ phase' = IF CanClose(f) THEN TerminalPhase(f) ELSE phase
  /\ UNCHANGED <<receipt, attempt, release, live, owner, time, used>>

\* Without a receipt the window is closed.  A service that is not there, or a
\* phase that does not lead to the one observed, ends the hook.
Close(f, next) ==
  /\ IF CanClose(f) THEN hook' = next /\ phase' = TerminalPhase(f)
                    ELSE hook' = "done" /\ phase' = phase
  /\ UNCHANGED <<receipt, attempt, release, live, owner, time, used>>

CloseV1 ==
  /\ hook = "close v1"
  /\ \/ receipt = "none" /\ Close("v1", "receipt v1")
     \/ /\ receipt # "none" /\ hook' = "invalidate"
        /\ UNCHANGED <<window, attempt, release, live, owner, time, used>>

Receipt ==
  /\ Steps("receipt v1", "invalidate") \/ Steps("receipt v2", "done")
  /\ receipt' = phase
  /\ UNCHANGED <<phase, attempt, release, live, owner, time, used>>

\* The reservation of the dead owner is invalidated, with v1 up.
Invalidate ==
  /\ Steps("invalidate", "done")
  /\ invalidated' = (invalidated \/ (reserved /\ service = "v1" /\ deployed # "v2"))
  /\ UNCHANGED <<window, reserved, release, live, owner, time, used>>

\* recover_interrupted_v2_activation: a service that was not active when the
\* hook looked is restarted, whatever systemd has started meanwhile.
ForwardRetarget ==
  /\ Steps("forward", "start v2")
  /\ unit' = "v2"
  /\ UNCHANGED <<window, attempt, deployed, live, owner, time, used>>

StartV2 ==
  /\ Steps("start v2", "health v2")
  /\ Runs(unit)
  /\ UNCHANGED <<window, attempt, release, woke, owner, time, used>>

HealthV2 ==
  /\ hook = "health v2"
  /\ hook' = IF service # "v2" THEN "done"
             ELSE IF deployed = "v2" THEN "close v2" ELSE "deploy"
  /\ UNCHANGED <<window, attempt, release, live, owner, time, used>>

ForwardDeploy ==
  /\ hook = "deploy"
  /\ Deploys
  /\ hook' = IF deployed = "half" THEN "close v2" ELSE "deploy"
  /\ UNCHANGED <<window, attempt, unit, live, owner, time, used>>

CloseV2 == hook = "close v2" /\ Close("v2", "receipt v2")

\* The hook is killed at its own limit, or what it started is not healthy.
HookFails ==
  /\ hook \notin {"idle", "done", "killed"} /\ hook' = "killed"
  /\ faults < MaxFaults /\ faults' = faults + 1
  /\ UNCHANGED <<window, attempt, release, live, owner, time, runs>>

-----------------------------------------------------------------------------
(* The machine and systemd *)

Tick ==
  /\ phase # "none" /\ boot = 0 /\ clock <= Deadline
  /\ clock' = clock + 1
  /\ UNCHANGED <<window, attempt, release, live, owner, hook, boot, used>>

Wakes == woke' = (woke \/ (unit = "v1" /\ phase = "ACTIVATING"))

\* The service fails; systemd starts what the unit file names.
ServiceFails ==
  /\ service # "down" /\ service' = "down"
  /\ faults < MaxFaults /\ faults' = faults + 1
  /\ UNCHANGED <<window, attempt, release, wanted, behind, woke, entered>>
  /\ UNCHANGED <<owner, hook, time, runs>>

SystemdRestarts ==
  /\ service = "down" /\ wanted
  /\ Runs(unit) /\ Wakes
  /\ UNCHANGED <<window, attempt, release, owner, hook, time, used>>

\* The enabled unit is started at boot, or its start fails.
Reboot ==
  /\ phase # "none" /\ boot < MaxBoots
  /\ boot' = boot + 1
  /\ owner' = "gone"
  /\ hook' = IF hook \in {"idle", "done"} THEN hook ELSE "killed"
  /\ \/ Runs(unit) /\ Wakes
     \/ Stops
  /\ UNCHANGED <<window, attempt, release, clock, used>>

-----------------------------------------------------------------------------
OwnerStep ==
  \/ Prepare \/ Stopping \/ Stop \/ Quiesce \/ Apply \/ ReserveSuccessor \/ Copy
  \/ Verified \/ Activating \/ Retarget \/ Restart \/ Deploy \/ OwnerCloses
  \/ OwnerReceipt \/ OwnerEnds

HookStep ==
  \/ Look \/ Return \/ StartV1 \/ CloseV1 \/ Receipt \/ Invalidate
  \/ ForwardRetarget \/ StartV2 \/ HealthV2 \/ ForwardDeploy \/ CloseV2

Next ==
  \/ OwnerStep \/ ActivationFails
  \/ HookStarts \/ HookStep \/ HookFails
  \/ Tick \/ ServiceFails \/ SystemdRestarts \/ Reboot

Spec == Init /\ [][Next]_vars

\* The hook runs on until it ends, and systemd restarts what failed.  Neither
\* the owner nor the clock owes a step.
FairSpec == Spec /\ WF_vars(HookStep) /\ WF_vars(SystemdRestarts)

-----------------------------------------------------------------------------
OwnerPlaces ==
  {"preflight", "prepared", "stop", "stopped", "quiescent", "reserve", "copy", "copied",
   "verified", "retarget", "restart", "health", "half", "terminal", "receipt", "gone"}
HookPlaces ==
  {"idle", "look", "return", "start v1", "close v1", "receipt v1", "invalidate", "forward",
   "start v2", "health v2", "deploy", "close v2", "receipt v2", "done", "killed"}

\* Type invariant: the window is one of CutWindowPhase, and a receipt names a
\* phase that ends it (CutWindowReceipt refuses any other).
TypeOK ==
  /\ phase \in Phases \union {"none"}
  /\ receipt \in Closed \union {"none"}
  /\ reserved \in BOOLEAN /\ invalidated \in BOOLEAN
  /\ unit \in Formats
  /\ deployed \in {"v1", "half", "v2"}
  /\ service \in Formats \union {"down"}
  /\ wanted \in BOOLEAN
  /\ owner \in OwnerPlaces
  /\ hook \in HookPlaces
  /\ clock \in 0..(Deadline + 1)
  /\ boot \in 0..MaxBoots
  /\ runs \in 0..MaxRuns
  /\ faults \in 0..MaxFaults
  /\ behind \in BOOLEAN /\ woke \in BOOLEAN /\ entered \in BOOLEAN

\* Once v2 has run, and may have accepted writes, v1 is never up again and the
\* attempt is not invalidated, whoever was killed and however often the machine
\* was rebooted ("Never restart an older data root after a v2 writer may have
\* started", _stop_failed_v2_activation and _recover_global_cut).
OldRootNotRevived == entered => service # "v1" /\ ~invalidated

\* v2 only ever serves a copy that holds every write v1 has accepted.  The
\* exception is a v1 that systemd started by itself in a window already
\* ACTIVATING, which nothing in the code prevents.
NothingForgotten == service = "v2" => ~behind \/ woke

\* docs/archive/data_chassis_45_migration_runbook_20261021.md:449-450: once the
\* window is ACTIVATING the old v1 is never started automatically.
OldRootNotAutostarted ==
  [][phase = "ACTIVATING" /\ service = "down" => service' # "v1"]_vars

\* The workspace is out of service for no longer than the window: a hook that
\* meets a window between the stop and its end brings a service up, of either
\* format, unless the deadline has passed on the window's own boot or the hook
\* itself fails.
AvailabilityReturns ==
  (hook = "look" /\ phase \notin Closed \union {"none", "PREPARED"})
    ~> (service # "down" \/ (boot = 0 /\ clock >= Deadline) \/ hook = "killed")
=============================================================================
