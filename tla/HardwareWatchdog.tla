-------------------------- MODULE HardwareWatchdog --------------------------
(***************************************************************************)
(* inverter_control/watchdog.py: the one lock every setpoint write passes. *)
(*                                                                         *)
(* Four writers compete for the inverter's AC-input setpoint:              *)
(*   - the control loop         (write_control_setpoint),                  *)
(*   - the stalled-loop zero    (_apply_failsafe and its restore),         *)
(*   - the meter-loss fallback  (_maintain_grid_loss_fallback_locked),     *)
(*   - the manual override      (set_setpoint_override and its refresh).   *)
(*                                                                         *)
(* Every method holds HardwareWatchdog._lock from its first read to its    *)
(* last write, so each is one action.  The control loop, the MQTT thread   *)
(* and the watchdog thread interleave between them in any order.           *)
(*                                                                         *)
(* Time is a Tick action.  A monotonic timestamp of the code becomes the   *)
(* age of that timestamp, saturating at the largest value the code ever    *)
(* compares it with; a timestamp that is None and "due at once" is the     *)
(* saturated age.                                                          *)
(*                                                                         *)
(* A definition whose name begins with Faulty is the next one with a       *)
(* plausible bug in it: no specification uses it, each shows that a        *)
(* property notices the bug.                                               *)
(***************************************************************************)
EXTENDS Integers

CONSTANTS
  None,             \* no override value
  ControlValues,    \* setpoints the control loop may compute, in watts
  OverrideValues,   \* setpoints an operator may command
  HoldEnabled,      \* GRID_LOSS_HOLD_SECONDS is not None
  Hold,             \* GRID_LOSS_HOLD_SECONDS
  Timeout,          \* WATCHDOG_TIMEOUT_SECONDS
  CheckInterval,    \* WATCHDOG_CHECK_INTERVAL
  RefreshInterval,  \* GRID_LOSS_REFRESH_INTERVAL
  RetryInterval,    \* GRID_LOSS_RETRY_INTERVAL
  OverrideInterval  \* SETPOINT_OVERRIDE_INTERVAL

Fallback == -10           \* GRID_LOSS_FALLBACK_SETPOINT
Zero == 0                 \* the stalled-loop setpoint
FailThreshold == 3        \* consecutive failed checks to trigger
SuccessThreshold == 2     \* consecutive successful checks to recover

Values == ControlValues \cup OverrideValues \cup {Fallback, Zero}

ASSUME ValuesAssumption ==
  /\ ControlValues \subseteq Int
  /\ OverrideValues \subseteq Int
  /\ None \notin Values
ASSUME TimesAssumption ==
  /\ HoldEnabled \in BOOLEAN
  /\ Hold \in Nat
  /\ Timeout \in Nat
  /\ CheckInterval \in Nat \ {0}
  /\ RefreshInterval \in Nat \ {0}
  /\ RetryInterval \in 1 .. RefreshInterval
  /\ OverrideInterval \in Nat \ {0}

VARIABLES
  override,          \* _override_value, or None
  ovAge,             \* age of the last override attempt
  calcCurrent,       \* the generation the loop read is still _control_generation
  dryRun,            \* dry_run
  triggered,         \* _triggered
  hardwareForced,    \* _hardware_forced
  preForced,         \* _pre_forced_setpoint
  telemetryInvalid,  \* _telemetry_invalid
  outageOpen,        \* _grid_invalid_since is not None
  outageAge,         \* age of _grid_invalid_since
  gridLossForced,    \* _grid_loss_forced
  hasValid,          \* _has_valid_setpoint
  fallbackApplied,   \* _grid_loss_fallback_applied
  refreshPending,    \* _grid_loss_refresh_pending
  fbAge,             \* age of the last fallback attempt
  setpointAge,       \* age of _last_setpoint_update
  dbusAge,           \* age of _last_dbus_update
  hbAge,             \* age of the last heartbeat check
  failCount,         \* _fail_count, saturating at its threshold
  successCount,      \* _success_count, saturating at its threshold
  previous,          \* controller.previous_setpoint, read through get_setpoint
  hw,                \* the setpoint the inverter holds
  acked,             \* the last write it acknowledged: who wrote what
  flipAge            \* time since telemetryInvalid last changed (history only)

overrideVars == <<override, ovAge, calcCurrent>>
tripVars     == <<triggered, hardwareForced, preForced>>
lossVars     == <<gridLossForced, fallbackApplied, refreshPending, fbAge>>
outageVars   == <<telemetryInvalid, outageOpen, outageAge, flipAge>>
countVars    == <<failCount, successCount>>
outputVars   == <<hw, acked>>
wdVars == <<override, ovAge, calcCurrent, dryRun, triggered, hardwareForced,
            preForced, telemetryInvalid, outageOpen, outageAge, gridLossForced,
            hasValid, fallbackApplied, refreshPending, fbAge, setpointAge,
            dbusAge, hbAge, failCount, successCount, previous, hw, acked,
            flipAge>>

Writers == {"none", "control", "failsafe", "restore", "fallback", "override"}
AckRecord == [by : Writers, value : Values]

FlipCap == IF Hold > CheckInterval THEN Hold ELSE CheckInterval

TypeOK ==
  /\ override \in OverrideValues \cup {None}
  /\ ovAge \in 0 .. OverrideInterval
  /\ calcCurrent \in BOOLEAN
  /\ dryRun \in BOOLEAN
  /\ triggered \in BOOLEAN
  /\ hardwareForced \in BOOLEAN
  /\ preForced \in Values
  /\ telemetryInvalid \in BOOLEAN
  /\ outageOpen \in BOOLEAN
  /\ outageAge \in 0 .. Hold
  /\ gridLossForced \in BOOLEAN
  /\ hasValid \in BOOLEAN
  /\ fallbackApplied \in BOOLEAN
  /\ refreshPending \in BOOLEAN
  /\ fbAge \in 0 .. RefreshInterval
  /\ setpointAge \in 0 .. Timeout + 1
  /\ dbusAge \in 0 .. Timeout + 1
  /\ hbAge \in 0 .. CheckInterval
  /\ failCount \in 0 .. FailThreshold
  /\ successCount \in 0 .. SuccessThreshold
  /\ previous \in Values
  /\ hw \in Values
  /\ acked \in AckRecord
  /\ flipAge \in 0 .. FlipCap

\* The state start() leaves: no override survives a restart, every heartbeat
\* is fresh, and the inverter still holds whatever it was last told.
Init ==
  /\ override = None /\ ovAge = OverrideInterval /\ calcCurrent = FALSE
  /\ dryRun \in BOOLEAN
  /\ triggered = FALSE /\ hardwareForced = FALSE /\ preForced = Zero
  /\ telemetryInvalid = FALSE /\ outageOpen = FALSE /\ outageAge = 0
  /\ gridLossForced = FALSE /\ hasValid = FALSE
  /\ fallbackApplied = FALSE /\ refreshPending = FALSE
  /\ fbAge = RefreshInterval
  /\ setpointAge = 0 /\ dbusAge = 0 /\ hbAge = 0
  /\ failCount = 0 /\ successCount = 0
  /\ previous = Zero
  /\ hw \in Values
  /\ acked = [by |-> "none", value |-> Zero]
  /\ flipAge = 0

------------------------------------------------------------------------------
(* Physical writes.  victron.set_grid_setpoint returns True only for an      *)
(* explicit success reply.  A timed-out SetValue returns False although the  *)
(* inverter may have taken it: "unconfirmed".                                *)

Outcomes == {"accepted", "rejected", "unconfirmed"}

Attempt(v, writer, out) ==
  /\ hw' = IF out = "rejected" THEN hw ELSE v
  /\ acked' = IF out = "accepted" THEN [by |-> writer, value |-> v] ELSE acked

------------------------------------------------------------------------------
(* The override refresh and the meter-loss policy.                           *)

FaultyMaintainTrustsAck(out) ==
  IF ovAge < OverrideInterval \/ acked.value = override
  THEN UNCHANGED <<ovAge, setpointAge, outputVars>>
  ELSE /\ Attempt(override, "override", out)
       /\ ovAge' = 0
       /\ setpointAge' = IF out = "accepted" THEN 0 ELSE setpointAge

MaintainOverride(out) ==
  IF ovAge < OverrideInterval
  THEN UNCHANGED <<ovAge, setpointAge, outputVars>>
  ELSE /\ Attempt(override, "override", out)
       /\ ovAge' = 0
       /\ setpointAge' = IF out = "accepted" THEN 0 ELSE setpointAge

\* The hold has run out, or there is no accepted command worth holding.
LossDetected ==
  /\ telemetryInvalid
  /\ outageOpen
  /\ ~hasValid \/ triggered \/ outageAge >= Hold

FaultyPolicyInDry == override = None /\ HoldEnabled

PolicyActive == override = None /\ ~dryRun /\ HoldEnabled
Entering     == LossDetected /\ ~gridLossForced
InFallback   == PolicyActive /\ (gridLossForced \/ LossDetected)

FaultyFallbackNoRetry ==
  Entering \/ (~refreshPending /\ fbAge >= RefreshInterval)

FallbackDue ==
  Entering \/ fbAge >= (IF refreshPending THEN RetryInterval ELSE RefreshInterval)

FaultyFallbackInheritsZero(out) ==
  IF FallbackDue
  THEN /\ Attempt(Fallback, "fallback", out)
       /\ fbAge' = 0
       /\ refreshPending' = (out # "accepted")
       /\ hardwareForced' = (out = "accepted" \/ hardwareForced)
       /\ fallbackApplied' = (out = "accepted" \/ fallbackApplied)
  ELSE UNCHANGED <<outputVars, fbAge, refreshPending, hardwareForced,
                   fallbackApplied>>

MaintainFallback(out) ==
  IF FallbackDue
  THEN /\ Attempt(Fallback, "fallback", out)
       /\ fbAge' = 0
       /\ refreshPending' = (out # "accepted")
       /\ hardwareForced' = (out = "accepted" \/ (hardwareForced /\ ~Entering))
       /\ fallbackApplied' = (out = "accepted" \/ fallbackApplied)
  ELSE UNCHANGED <<outputVars, fbAge, refreshPending, hardwareForced,
                   fallbackApplied>>

FaultyFallbackKeepsSaved(out) ==
  /\ gridLossForced' = TRUE
  /\ triggered' = TRUE
  /\ UNCHANGED preForced
  /\ MaintainFallback(out)

ForceFallback(out) ==
  /\ gridLossForced' = TRUE
  /\ triggered' = TRUE
  /\ preForced' = IF LossDetected THEN Zero ELSE preForced
  /\ MaintainFallback(out)

\* _check_grid_loss_locked: what every telemetry report and every wake-up of
\* the watchdog thread runs first.
CheckGridLossLocked(out) ==
  \/ /\ override # None
     /\ MaintainOverride(out)
     /\ UNCHANGED <<tripVars, lossVars>>
  \/ /\ InFallback
     /\ ForceFallback(out)
     /\ UNCHANGED <<ovAge, setpointAge>>
  \/ /\ override = None
     /\ ~InFallback
     /\ UNCHANGED <<ovAge, setpointAge, tripVars, lossVars, outputVars>>

CheckGridLoss(out) ==
  /\ CheckGridLossLocked(out)
  /\ UNCHANGED <<override, calcCurrent, dryRun, outageVars, hasValid, dbusAge,
                 hbAge, countVars, previous>>

------------------------------------------------------------------------------
(* The control loop.                                                         *)

FaultyReadingRequalifies(out) ==
  /\ CheckGridLossLocked(out)
  /\ dbusAge' = 0
  /\ telemetryInvalid' = FALSE
  /\ outageOpen' = (outageOpen /\ gridLossForced')
  /\ outageAge' = IF outageOpen' THEN outageAge ELSE 0
  /\ flipAge' = IF telemetryInvalid THEN 0 ELSE flipAge
  /\ successCount' = 0
  /\ UNCHANGED <<override, calcCurrent, dryRun, hasValid, hbAge, failCount,
                 previous>>

\* A valid reading: an expired hold is enforced before the report counts.
MarkDbusUpdate(out) ==
  /\ CheckGridLossLocked(out)
  /\ dbusAge' = 0
  /\ telemetryInvalid' = FALSE
  /\ outageOpen' = (outageOpen /\ gridLossForced')
  /\ outageAge' = IF outageOpen' THEN outageAge ELSE 0
  /\ flipAge' = IF telemetryInvalid THEN 0 ELSE flipAge
  /\ UNCHANGED <<override, calcCurrent, dryRun, hasValid, hbAge, countVars,
                 previous>>

FaultyInvalidKeepsCount ==
  /\ telemetryInvalid' = TRUE
  /\ outageOpen' = TRUE
  /\ outageAge' = IF outageOpen THEN outageAge ELSE 0
  /\ flipAge' = IF telemetryInvalid THEN flipAge ELSE 0
  /\ UNCHANGED <<overrideVars, dryRun, tripVars, lossVars, hasValid,
                 setpointAge, dbusAge, hbAge, countVars, previous, outputVars>>

\* An invalid reading: one deadline per outage, never renewed.
MarkDbusInvalid ==
  /\ telemetryInvalid' = TRUE
  /\ outageOpen' = TRUE
  /\ outageAge' = IF outageOpen THEN outageAge ELSE 0
  /\ flipAge' = IF telemetryInvalid THEN flipAge ELSE 0
  /\ successCount' = 0
  /\ UNCHANGED <<overrideVars, dryRun, tripVars, lossVars, hasValid,
                 setpointAge, dbusAge, hbAge, failCount, previous, outputVars>>

\* The loop reads control_generation() and starts a calculation from it.
ReadGeneration ==
  /\ calcCurrent' = TRUE
  /\ UNCHANGED <<override, ovAge, dryRun, tripVars, outageVars, lossVars,
                 hasValid, setpointAge, dbusAge, hbAge, countVars, previous,
                 outputVars>>

FaultyWriteOverOverride  == calcCurrent /\ ~triggered
FaultyWriteWhileTriggered == override = None /\ calcCurrent

MayWrite == override = None /\ calcCurrent /\ ~triggered

\* An accepted write is a command worth holding only if telemetry is valid.
MarkSetpointUpdate ==
  /\ setpointAge' = 0
  /\ hasValid' = (hasValid \/ ~telemetryInvalid)
  /\ fallbackApplied' = (fallbackApplied /\ telemetryInvalid)

\* write_control_setpoint: in DRY the baseline is committed without a write.
WriteControl(v, out) ==
  /\ MayWrite
  /\ IF dryRun
     THEN /\ previous' = v
          /\ UNCHANGED <<outputVars, setpointAge, hasValid, fallbackApplied>>
     ELSE /\ Attempt(v, "control", out)
          /\ IF out = "accepted"
             THEN previous' = v /\ MarkSetpointUpdate
             ELSE UNCHANGED <<previous, setpointAge, hasValid, fallbackApplied>>
  /\ UNCHANGED <<overrideVars, dryRun, tripVars, outageVars, gridLossForced,
                 refreshPending, fbAge, dbusAge, hbAge, countVars>>

\* _update_grid_loss_state_locked: the controller adopts the command another
\* writer put on the inverter as its own baseline.
AdoptOutput ==
  /\ previous' = IF override # None THEN override
                 ELSE IF fallbackApplied THEN Fallback
                 ELSE previous
  /\ UNCHANGED <<overrideVars, dryRun, tripVars, outageVars, lossVars, hasValid,
                 setpointAge, dbusAge, hbAge, countVars, outputVars>>

------------------------------------------------------------------------------
(* The MQTT thread.                                                          *)

FaultyForgetSavedNone ==
  /\ calcCurrent' = FALSE
  /\ triggered' = FALSE /\ hardwareForced' = FALSE /\ preForced' = None
  /\ gridLossForced' = FALSE /\ fallbackApplied' = FALSE
  /\ refreshPending' = FALSE /\ fbAge' = RefreshInterval
  /\ failCount' = 0 /\ successCount' = 0

\* Entering or leaving an override forgets every automatic episode and makes
\* calculations in progress obsolete.
ForgetEpisodes ==
  /\ calcCurrent' = FALSE
  /\ triggered' = FALSE /\ hardwareForced' = FALSE /\ preForced' = Zero
  /\ gridLossForced' = FALSE /\ fallbackApplied' = FALSE
  /\ refreshPending' = FALSE /\ fbAge' = RefreshInterval
  /\ failCount' = 0 /\ successCount' = 0

\* A command the inverter does not acknowledge leaves the prior override (or
\* its absence) in force.
SetOverride(v, out) ==
  /\ Attempt(v, "override", out)
  /\ IF out = "accepted"
     THEN /\ override' = v
          /\ ovAge' = 0
          /\ setpointAge' = 0
          /\ hasValid' = TRUE
          /\ ForgetEpisodes
     ELSE UNCHANGED <<overrideVars, setpointAge, hasValid, tripVars, lossVars,
                      countVars>>
  /\ UNCHANGED <<dryRun, outageVars, dbusAge, hbAge, previous>>

\* Stop hands the output back without a write.
StopOverride ==
  /\ override # None
  /\ override' = None
  /\ ovAge' = OverrideInterval
  /\ ForgetEpisodes
  /\ UNCHANGED <<dryRun, outageVars, hasValid, setpointAge, dbusAge, hbAge,
                 previous, outputVars>>

SetDryRun(enabled) ==
  /\ dryRun' = enabled
  /\ UNCHANGED <<overrideVars, tripVars, outageVars, lossVars, hasValid,
                 setpointAge, dbusAge, hbAge, countVars, previous, outputVars>>

------------------------------------------------------------------------------
(* The watchdog thread's heartbeat check.                                    *)

AtMost(cap, n) == IF n > cap THEN cap ELSE n

Silent == setpointAge > Timeout /\ dbusAge > Timeout

FaultyQualifiedUnconfirmed(out) == ~telemetryInvalid /\ dbusAge <= Timeout

\* _recover_grid_loss_locked, after the policy's own refresh: a check counts
\* towards recovery only with an accepted fallback, none pending, and a valid
\* reading no older than the timeout.
Qualified(out) ==
  /\ IF FallbackDue THEN out = "accepted" ELSE hardwareForced /\ ~refreshPending
  /\ ~telemetryInvalid
  /\ dbusAge <= Timeout

\* The accepted fallback stays on the inverter; nothing is restored.
MeterLossHeartbeat(out) ==
  /\ InFallback
  /\ failCount' = 0
  /\ \/ /\ Qualified(out)
        /\ successCount + 1 >= SuccessThreshold
        /\ successCount' = SuccessThreshold
        /\ gridLossForced' = FALSE /\ outageOpen' = FALSE /\ outageAge' = 0
        /\ triggered' = FALSE /\ hardwareForced' = FALSE /\ preForced' = Zero
        /\ refreshPending' = FALSE
        /\ IF FallbackDue
           THEN Attempt(Fallback, "fallback", out) /\ fbAge' = 0
                /\ fallbackApplied' = TRUE
           ELSE UNCHANGED <<outputVars, fbAge, fallbackApplied>>
     \/ /\ ~(Qualified(out) /\ successCount + 1 >= SuccessThreshold)
        /\ successCount' = IF Qualified(out) THEN successCount + 1 ELSE 0
        /\ ForceFallback(out)
        /\ UNCHANGED <<outageOpen, outageAge>>

CountCheck ==
  /\ failCount' = IF Silent THEN AtMost(FailThreshold, failCount + 1) ELSE 0
  /\ successCount' = IF Silent \/ telemetryInvalid THEN 0
                     ELSE AtMost(SuccessThreshold, successCount + 1)

FaultyFailsafeKeepsFallback(out) ==
  /\ triggered' = TRUE
  /\ IF hardwareForced
     THEN UNCHANGED <<hardwareForced, preForced, outputVars>>
     ELSE /\ preForced' = previous
          /\ Attempt(Zero, "failsafe", out)
          /\ hardwareForced' = (out = "accepted")
  /\ UNCHANGED fallbackApplied

FaultyFailsafeUnchecked(out) ==
  /\ triggered' = TRUE
  /\ IF hardwareForced
     THEN UNCHANGED <<hardwareForced, preForced, fallbackApplied, outputVars>>
     ELSE /\ preForced' = previous
          /\ Attempt(Zero, "failsafe", out)
          /\ hardwareForced' = TRUE
          /\ fallbackApplied' = FALSE

\* _apply_failsafe: remember the controller's baseline, then command zero.
ApplyFailsafe(out) ==
  /\ triggered' = TRUE
  /\ IF hardwareForced
     THEN UNCHANGED <<hardwareForced, preForced, fallbackApplied, outputVars>>
     ELSE /\ preForced' = previous
          /\ Attempt(Zero, "failsafe", out)
          /\ hardwareForced' = (out = "accepted")
          /\ fallbackApplied' = (fallbackApplied /\ out # "accepted")

\* _recover_from_failsafe_locked: re-arm, once the saved setpoint is accepted
\* again if the zero was.
RestoreSetpoint(out) ==
  /\ IF hardwareForced THEN Attempt(preForced, "restore", out)
                       ELSE UNCHANGED outputVars
  /\ IF hardwareForced /\ out # "accepted"
     THEN UNCHANGED tripVars
     ELSE triggered' = FALSE /\ hardwareForced' = FALSE /\ preForced' = Zero
  /\ UNCHANGED fallbackApplied

LoopHeartbeat(out) ==
  /\ ~InFallback
  /\ CountCheck
  /\ \/ failCount' >= FailThreshold /\ ApplyFailsafe(out)
     \/ /\ failCount' < FailThreshold
        /\ successCount' >= SuccessThreshold /\ triggered
        /\ RestoreSetpoint(out)
     \/ /\ failCount' < FailThreshold
        /\ ~(successCount' >= SuccessThreshold /\ triggered)
        /\ UNCHANGED <<tripVars, fallbackApplied, outputVars>>
  /\ UNCHANGED <<gridLossForced, refreshPending, fbAge, outageOpen, outageAge>>

CheckHeartbeat(out) ==
  /\ hbAge >= CheckInterval
  /\ hbAge' = 0
  /\ \/ /\ override # None
        /\ MaintainOverride(out)
        /\ UNCHANGED <<tripVars, lossVars, outageOpen, outageAge, countVars>>
     \/ /\ override = None /\ dryRun
        /\ UNCHANGED <<ovAge, setpointAge, tripVars, lossVars, outageOpen,
                       outageAge, countVars, outputVars>>
     \/ /\ override = None /\ ~dryRun
        /\ MeterLossHeartbeat(out) \/ LoopHeartbeat(out)
        /\ UNCHANGED <<ovAge, setpointAge>>
  /\ UNCHANGED <<override, calcCurrent, dryRun, telemetryInvalid, flipAge,
                 hasValid, dbusAge, previous>>

Older(age, cap) == IF age < cap THEN age + 1 ELSE cap

Tick ==
  /\ ovAge' = Older(ovAge, OverrideInterval)
  /\ outageAge' = IF outageOpen THEN Older(outageAge, Hold) ELSE outageAge
  /\ fbAge' = Older(fbAge, RefreshInterval)
  /\ setpointAge' = Older(setpointAge, Timeout + 1)
  /\ dbusAge' = Older(dbusAge, Timeout + 1)
  /\ hbAge' = Older(hbAge, CheckInterval)
  /\ flipAge' = Older(flipAge, FlipCap)
  /\ UNCHANGED <<override, calcCurrent, dryRun, tripVars, telemetryInvalid,
                 outageOpen, gridLossForced, fallbackApplied, refreshPending,
                 hasValid, countVars, previous, outputVars>>

------------------------------------------------------------------------------
ControlLoop(out) ==
  \/ MarkDbusUpdate(out)
  \/ MarkDbusInvalid
  \/ ReadGeneration
  \/ \E v \in ControlValues : WriteControl(v, out)
  \/ AdoptOutput

MqttThread(out) ==
  \/ \E v \in OverrideValues : SetOverride(v, out)
  \/ StopOverride
  \/ \E enabled \in BOOLEAN : SetDryRun(enabled)

WatchdogThread(out) == CheckGridLoss(out) \/ CheckHeartbeat(out)

Next ==
  \/ Tick
  \/ \E out \in Outcomes : ControlLoop(out) \/ MqttThread(out) \/ WatchdogThread(out)

Spec == Init /\ [][Next]_wdVars

\* Time passes and the watchdog thread keeps running its loop; a command it
\* repeats for ever is accepted again and again.  Nothing is assumed of the
\* control loop or of the operator.
Fairness ==
  /\ WF_wdVars(Tick)
  /\ WF_wdVars(\E out \in Outcomes : CheckGridLoss(out))
  /\ WF_wdVars(\E out \in Outcomes : CheckHeartbeat(out))
  /\ SF_wdVars(CheckGridLoss("accepted"))
  /\ SF_wdVars(CheckHeartbeat("accepted"))

FairSpec == Spec /\ Fairness

------------------------------------------------------------------------------
(* Safety.                                                                   *)

\* While an override is in force the last command the inverter acknowledged is
\* that override: neither the loop, nor the zero, nor the fallback, nor a
\* restore was accepted after it (set_setpoint_override, write_control_setpoint
\* and every guard on _override_value).
OverrideOwnsOutput ==
  override # None => acked = [by |-> "override", value |-> override]

\* An outage reported as "fallback" or "recovering" really has an accepted
\* -10 W as the last acknowledged command: a zero the stalled-loop policy wrote
\* earlier never passes for it (_check_grid_loss_locked, "Require an accepted
\* -10W before recovery").
FallbackConfirmed ==
  gridLossForced /\ hardwareForced
    => acked = [by |-> "fallback", value |-> Fallback]

\* While the stalled-loop zero stands, the value kept for the restore is the
\* baseline the controller believes in, so the restore does not split the two
\* (_apply_failsafe reads it once; previous_setpoint can be changed by the
\* loop, by an override and by an earlier fallback).
RestoreIsBaseline ==
  hardwareForced /\ ~gridLossForced
    => /\ acked = [by |-> "failsafe", value |-> Zero]
       /\ preForced = previous

\* A meter-loss episode always has an outage to end it, belongs to a triggered
\* watchdog, and holds no setpoint to replay.
EpisodeConsistent ==
  gridLossForced => /\ triggered /\ outageOpen /\ preForced = Zero
                    /\ HoldEnabled /\ override = None

\* The watchdog re-arms without an operator's override only after telemetry has
\* been valid for a whole check interval: two consecutive good checks, none of
\* them before the last invalid report (success_count over mark_dbus_invalid,
\* both heartbeat branches, DRY and overrides in between).
RecoveryHasEvidence ==
  [][triggered /\ ~triggered' /\ override' = None
       => ~telemetryInvalid /\ flipAge >= CheckInterval]_wdVars

\* Leaving a meter-loss episode, other than by an override, leaves the accepted
\* -10 W as the last acknowledged command: no pre-outage command is replayed
\* (_recover_from_failsafe_locked).
NoReplayAfterMeterLoss ==
  [][gridLossForced /\ ~gridLossForced' /\ override' = None
       => acked' = [by |-> "fallback", value |-> Fallback]]_wdVars

\* In DRY only an explicit override can change what the inverter holds
\* (write_control_setpoint, _check_grid_loss_locked, _check_heartbeat_locked
\* and _apply_failsafe each check dry_run on their own).
DrySuppressesAutomatic ==
  [][dryRun /\ hw' # hw => hw' \in OverrideValues]_wdVars

------------------------------------------------------------------------------
(* The abstract specification this module implements.                        *)

Owner == IF override # None THEN "override"
         ELSE IF gridLossForced THEN "fallback"
         ELSE IF triggered THEN "failsafe"
         ELSE "control"

Arbiter == INSTANCE SetpointArbiter WITH owner <- Owner, output <- acked

\* Whatever the timers, counters and threads do, one party owns the output and
\* only the owner's commands are acknowledged.
ImplementsArbiter == Arbiter!Spec

------------------------------------------------------------------------------
(* Liveness.                                                                 *)

Automatic == override = None /\ ~dryRun

\* A loop that stops writing and reporting does not leave its last command on
\* the inverter for ever: the zero, or the fallback if an outage is open, ends
\* up acknowledged and stays.
StalledLoopIsReplaced ==
  <>[](Automatic /\ Silent) => <>[](acked.by \in {"failsafe", "fallback"})

\* A lasting meter outage ends with the fallback acknowledged and maintained,
\* however often a write was refused first, however often the loop repeats its
\* invalid report, and although a refused override may still reach the inverter.
OutageIsCovered ==
  HoldEnabled /\ <>[](Automatic /\ telemetryInvalid)
    => <>[](acked.by = "fallback") /\ []<>(hw = Fallback)

\* A refused or unconfirmed edit cannot stay on the inverter: the refresh
\* brings the override in force back.
OverrideIsMaintained ==
  \A v \in OverrideValues : <>[](override = v) => []<>(hw = v)

\* With telemetry valid and fresh for good, and refreshes no longer failing, the
\* watchdog re-arms: no episode, of either kind, waits for ever.
RecoveryCompletes ==
  <>[](Automatic /\ ~telemetryInvalid /\ dbusAge <= Timeout /\ ~refreshPending)
    => <>[](~triggered)

=============================================================================
