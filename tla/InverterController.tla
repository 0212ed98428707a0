------------------------- MODULE InverterController -------------------------
(***************************************************************************)
(* inverter_control/controller.py: InverterController.run_cycle and the    *)
(* commands that change what it works on, over the setpoint ownership that *)
(* SetpointArbiter states and HardwareWatchdog implements.                 *)
(*                                                                         *)
(* run_cycle is a sequence of steps of the main thread.  Between any two   *)
(* of them the MQTT and webhook threads, the watchdog thread and the       *)
(* telemetry readers run.  Only what one HardwareWatchdog._lock section    *)
(* covers is one step: the last clamps and the write, one telemetry        *)
(* report, one adoption of another writer's output.                        *)
(*                                                                         *)
(* The calculation is any setpoint inside the limits it read; the          *)
(* watchdog's timers are gone: it may trip, hold, fall back and recover    *)
(* whenever SetpointArbiter lets it.                                       *)
(*                                                                         *)
(* A definition whose name begins with Faulty is the next one with a       *)
(* plausible bug in it; no specification uses it.                          *)
(***************************************************************************)
EXTENDS Integers

CONSTANTS
  None,            \* no pending manual setpoint
  CalcValues,      \* results of the regulation strategies, in watts
  ChargeValue,     \* the charge_battery strategy's setpoint
  ManualValues,    \* one-cycle manual commands
  OverrideValues,  \* persistent overrides
  LimitChoices,    \* the [min, max] pairs an operator may choose
  Sources,         \* subset of {"primary", "backup"}: grid sources in use
  Policies         \* subset of {"dry", "flag", "precharge", "ev"}: what may be
                   \* switched on besides ordinary regulation

Fallback == -10
Zero == 0

Clamp(v, l) == IF v < l.min THEN l.min ELSE IF v > l.max THEN l.max ELSE v
Positive(v) == IF v > 0 THEN v ELSE 0
Negative(v) == IF v < 0 THEN v ELSE 0

Computable == CalcValues \cup {ChargeValue}
\* A limit is a result too: a held command may lie outside two ranges at once.
Clamped == {Clamp(v, l) : v \in Computable \cup ManualValues \cup OverrideValues
                               \cup {Fallback, Zero}, l \in LimitChoices}
             \cup {l.min : l \in LimitChoices} \cup {l.max : l \in LimitChoices}
ControlValues == Computable \cup ManualValues \cup Clamped \cup {Zero}
Setpoints == ControlValues \cup OverrideValues \cup {Fallback}

ASSUME ControllerAssumption ==
  /\ CalcValues \subseteq Int /\ ChargeValue \in Int
  /\ ManualValues \subseteq Int /\ OverrideValues \subseteq Int
  /\ None \notin Setpoints
  /\ \A l \in LimitChoices : l.min \in Int /\ l.max \in Int /\ l.min <= l.max

VARIABLES
  \* what HardwareWatchdog keeps
  owner,            \* who owns the inverter's setpoint
  output,           \* the last acknowledged write
  saved,            \* _pre_forced_setpoint
  fallbackApplied,  \* _grid_loss_fallback_applied
  telemetryInvalid, \* _telemetry_invalid
  calcCurrent,      \* the cycle's generation is still _control_generation
  dryRun,
  \* the grid snapshot, and how it relates to the one the cycle works on
  gridValid,        \* it is valid
  gridBackup,       \* it comes from the backup meter
  sourceNew,        \* its selection is not _control_grid_selection
  sourceStale,      \* its selection changed since get_system_data
  sampleStale,      \* its selection or backup measurement changed since then
  sampleUsed,       \* its backup measurement is _last_backup_measurement
  \* policy, read whenever the cycle needs it
  expensive,        \* _in_expensive_window
  evFloor,          \* unknown EV power under a restricted mode
  chargeFlag,       \* control flag charge_battery
  preCharge,        \* _pre_charge_requested, not expired
  limits,           \* power_limit_min, power_limit_max
  manual,           \* manual_setpoint
  \* the cycle
  pc, phase,        \* next step; which pass through the telemetry gate
  sample,           \* get_system_data's grid fields
  pending,          \* pending_manual
  setpoint,         \* the computed setpoint
  charge,           \* _calculated_charge_battery
  writeOk,          \* the write was accepted
  previous,         \* previous_setpoint
  lastCharge,       \* _last_setpoint_was_charge
  mqtt,             \* what set_setpoint_override still has to do
  seen              \* history, for the properties only

watchdogVars == <<owner, output, saved, fallbackApplied, telemetryInvalid,
                  calcCurrent, dryRun>>
gridVars     == <<gridValid, gridBackup, sourceNew, sourceStale, sampleStale,
                  sampleUsed>>
policyVars   == <<expensive, evFloor, chargeFlag, preCharge, limits>>
localVars    == <<sample, pending, setpoint, charge, writeOk>>
cycleVars    == <<pc, phase, localVars, lastCharge>>
vars == <<watchdogVars, gridVars, policyVars, manual, cycleVars, previous, mqtt,
          seen>>

Arbiter == INSTANCE SetpointArbiter

Steps == {"start", "read", "override?", "report", "triggered?", "resume",
          "yield", "calculate", "recheck", "write", "settle", "clear"}
Samples == [valid : BOOLEAN, backup : BOOLEAN, new : BOOLEAN, used : BOOLEAN,
            fed : BOOLEAN]

\* virtual    the baseline was last committed in DRY, without a write
\* charging   the last accepted command was, or held, a forced charge, and was
\*            not cut to zero or less
\* forced     the command being prepared is, or holds, a forced charge
\* fed        the current backup measurement has already been fed back
\* changed    the source or the backup measurement changed before the cycle's
\*            recheck, or the recheck found the grid invalid
History == [virtual : BOOLEAN, charging : BOOLEAN, forced : BOOLEAN,
            fed : BOOLEAN, changed : BOOLEAN]

TypeOK ==
  /\ Arbiter!TypeOK
  /\ saved \in Setpoints
  /\ {fallbackApplied, telemetryInvalid, calcCurrent, dryRun, gridValid,
      gridBackup, sourceNew, sourceStale, sampleStale, sampleUsed, expensive,
      evFloor, chargeFlag, preCharge, charge, writeOk, lastCharge}
       \subseteq BOOLEAN
  /\ limits \in LimitChoices
  /\ manual \in ControlValues \cup {None}
  /\ pc \in Steps /\ phase \in {"first", "recheck", "override"}
  /\ sample \in Samples
  /\ pending \in ControlValues \cup {None}
  /\ setpoint \in Setpoints
  /\ previous \in Setpoints
  /\ mqtt \in {"idle", "clear", "adopt"}
  /\ seen \in History

NoSample == [valid |-> FALSE, backup |-> FALSE, new |-> FALSE, used |-> FALSE,
             fed |-> FALSE]

Init ==
  /\ owner = "control" /\ output = [by |-> "none", value |-> Zero]
  /\ saved = Zero /\ fallbackApplied = FALSE /\ telemetryInvalid = FALSE
  /\ calcCurrent = FALSE /\ dryRun = FALSE
  /\ gridValid = FALSE /\ gridBackup = FALSE /\ sourceNew = FALSE
  /\ sourceStale = FALSE /\ sampleStale = FALSE /\ sampleUsed = FALSE
  /\ expensive = FALSE /\ evFloor = FALSE /\ chargeFlag = FALSE
  /\ preCharge = FALSE /\ limits \in LimitChoices
  /\ manual = None
  /\ pc = "start" /\ phase = "first" /\ sample = NoSample
  /\ pending = None /\ setpoint = Zero /\ charge = FALSE /\ writeOk = FALSE
  /\ previous = Zero /\ lastCharge = FALSE
  /\ mqtt = "idle"
  /\ seen = [virtual |-> FALSE, charging |-> FALSE, forced |-> FALSE,
             fed |-> FALSE, changed |-> FALSE]

------------------------------------------------------------------------------
(* The control cycle, on the main thread.                                    *)

Goto(step) == pc' = step

\* The locals of a finished cycle are dead, and nothing is stale without a
\* snapshot to compare with: both are reset, to keep states few.
Finish ==
  /\ Goto("start")
  /\ phase' = "first" /\ sample' = NoSample
  /\ pending' = None /\ setpoint' = Zero /\ charge' = FALSE /\ writeOk' = FALSE
  /\ sourceStale' = FALSE /\ sampleStale' = FALSE

ReadGeneration ==
  /\ pc = "start" /\ Goto("read")
  /\ calcCurrent' = TRUE
  /\ seen' = [seen EXCEPT !.forced = FALSE, !.changed = FALSE]
  /\ UNCHANGED <<owner, output, saved, fallbackApplied, telemetryInvalid, dryRun,
                 gridVars, policyVars, manual, phase, localVars, lastCharge,
                 previous, mqtt>>

GetSystemData ==
  /\ pc = "read" /\ Goto("override?")
  /\ sample' = [valid |-> gridValid, backup |-> gridBackup, new |-> sourceNew,
                used |-> sampleUsed, fed |-> seen.fed]
  /\ UNCHANGED <<watchdogVars, gridVars, policyVars, manual, phase, pending,
                 setpoint, charge, writeOk, lastCharge, previous, mqtt, seen>>

ReadOverride ==
  /\ pc = "override?" /\ Goto("report")
  /\ phase' = IF owner = "override" THEN "override" ELSE "first"
  /\ UNCHANGED <<watchdogVars, gridVars, policyVars, manual, localVars,
                 lastCharge, previous, mqtt, seen>>

\* _grid_ready_for_control up to its reports.  The watchdog's own reaction to a
\* report is one of its steps below.
ReportInvalid ==
  /\ pc = "report" /\ ~sample.valid
  /\ telemetryInvalid' = TRUE
  /\ Goto(IF phase = "override" THEN "resume" ELSE "yield")
  /\ UNCHANGED <<owner, output, saved, fallbackApplied, calcCurrent, dryRun,
                 gridVars, policyVars, manual, phase, localVars, lastCharge,
                 previous, mqtt, seen>>

\* A new source is only noted: the next cycle calculates from it.
ReportNewSource ==
  /\ pc = "report" /\ sample.valid /\ sample.new
  /\ telemetryInvalid' = FALSE
  /\ sourceNew' = sourceStale
  /\ sampleUsed' = FALSE
  /\ IF phase = "override"
     THEN Goto("yield") /\ UNCHANGED <<sourceStale, sampleStale, phase, localVars>>
     ELSE Finish
  /\ UNCHANGED <<owner, output, saved, fallbackApplied, calcCurrent, dryRun,
                 gridValid, gridBackup, policyVars, manual, lastCharge, previous,
                 mqtt, seen>>

ReportValid ==
  /\ pc = "report" /\ sample.valid /\ ~sample.new
  /\ telemetryInvalid' = FALSE
  /\ Goto("triggered?")
  /\ UNCHANGED <<owner, output, saved, fallbackApplied, calcCurrent, dryRun,
                 gridVars, policyVars, manual, phase, localVars, lastCharge,
                 previous, mqtt, seen>>

\* While the watchdog recovers, the loop only follows it.
CheckTriggered ==
  /\ pc = "triggered?"
  /\ Goto(IF owner \in {"failsafe", "fallback"} /\ phase # "override"
          THEN "yield" ELSE "resume")
  /\ UNCHANGED <<watchdogVars, gridVars, policyVars, manual, phase, localVars,
                 lastCharge, previous, mqtt, seen>>

FaultyAdoptIgnoresFallback ==
  /\ previous' = IF owner = "override" THEN output.value ELSE previous
  /\ seen' = [seen EXCEPT !.virtual = @ /\ ~(owner = "override" \/ fallbackApplied)]

\* _update_grid_loss_state_locked: another writer's accepted command becomes
\* the controller's baseline.
AdoptOutput ==
  /\ previous' = IF owner = "override" THEN output.value
                 ELSE IF fallbackApplied THEN Fallback
                 ELSE previous
  /\ seen' = [seen EXCEPT !.virtual = @ /\ ~(owner = "override" \/ fallbackApplied)]

Resume ==
  /\ pc = "resume"
  /\ AdoptOutput
  /\ Goto(CASE phase = "first"    -> "calculate"
            [] phase = "recheck"  -> "write"
            [] phase = "override" -> "yield")
  /\ UNCHANGED <<watchdogVars, gridVars, policyVars, manual, phase, localVars,
                 lastCharge, mqtt>>

Yield ==
  /\ pc = "yield" /\ Finish
  /\ AdoptOutput
  /\ UNCHANGED <<watchdogVars, gridValid, gridBackup, sourceNew, sampleUsed,
                 policyVars, manual, lastCharge, mqtt>>


\* calculate_setpoint: a used backup measurement holds the baseline; a fresh one
\* is fed back within the limits read here.
Hold == sample.backup /\ sample.used

CalculateManual ==
  /\ manual # None
  /\ pending' = manual /\ setpoint' = manual
  /\ seen' = [seen EXCEPT !.forced = FALSE]
  /\ UNCHANGED <<charge, preCharge>>

FaultyHoldForgetsCharge ==
  /\ manual = None /\ Hold
  /\ pending' = None
  /\ charge' = FALSE
  /\ setpoint' = previous
  /\ seen' = [seen EXCEPT !.forced = seen.charging]
  /\ UNCHANGED preCharge

CalculateHold ==
  /\ manual = None /\ Hold
  /\ pending' = None
  /\ charge' = lastCharge
  /\ setpoint' = IF lastCharge /\ expensive THEN Negative(previous) ELSE previous
  /\ seen' = [seen EXCEPT !.forced = seen.charging]
  /\ UNCHANGED preCharge

CalculateFresh ==
  LET charging == (chargeFlag \/ preCharge) /\ ~expensive
      results  == IF charging THEN {ChargeValue} ELSE CalcValues \cup {previous}
  IN /\ manual = None /\ ~Hold
     /\ pending' = None
     /\ preCharge' = FALSE
     /\ charge' = (charging \/ (lastCharge /\ expensive))
     /\ seen' = [seen EXCEPT !.forced = charging \/ (seen.charging /\ expensive)]
     /\ \E v \in results :
          setpoint' = IF evFloor THEN Positive(Clamp(v, limits))
                                 ELSE Clamp(v, limits)

Calculate ==
  /\ pc = "calculate" /\ Goto("recheck")
  /\ CalculateManual \/ CalculateHold \/ CalculateFresh
  /\ UNCHANGED <<watchdogVars, gridVars, expensive, evFloor, chargeFlag, limits,
                 manual, phase, sample, writeOk, lastCharge, previous, mqtt>>

GridChanged == sourceStale \/ sampleStale

\* _skip_changed_grid: a changed sample ends the cycle, an unchanged one passes
\* the telemetry gate once more.
SkipChangedGrid ==
  /\ pc = "recheck" /\ Finish
  /\ GridChanged
  /\ UNCHANGED <<watchdogVars, gridValid, gridBackup, sourceNew, sampleUsed,
                 policyVars, manual, lastCharge, previous, mqtt, seen>>

FaultyRecheckGrid ==
  /\ pc = "recheck" /\ Goto("report")
  /\ ~GridChanged
  /\ phase' = "recheck"
  /\ seen' = [seen EXCEPT !.changed = @ \/ ~gridValid]
  /\ UNCHANGED <<watchdogVars, gridVars, policyVars, manual, localVars, lastCharge,
                 previous, mqtt>>

RecheckGrid ==
  /\ pc = "recheck" /\ Goto("report")
  /\ ~GridChanged
  /\ phase' = "recheck"
  /\ sample' = [sample EXCEPT !.valid = gridValid]
  /\ seen' = [seen EXCEPT !.changed = @ \/ ~gridValid]
  /\ UNCHANGED <<watchdogVars, gridVars, policyVars, manual, pending, setpoint,
                 charge, writeOk, lastCharge, previous, mqtt>>

\* A submeter correction of a primary sample may no longer hold: no write.
WithdrawTrim ==
  /\ pc = "write" /\ Finish
  /\ pending = None /\ ~sample.backup
  /\ UNCHANGED <<watchdogVars, gridValid, gridBackup, sourceNew, sampleUsed,
                 policyVars, manual, lastCharge, previous, mqtt, seen>>

FaultyMayWrite == calcCurrent

MayWrite == owner = "control" /\ calcCurrent

FaultyBounded == setpoint

Bounded   == Clamp(setpoint, limits)
EvSafe    == IF evFloor THEN Positive(Bounded) ELSE Bounded
Overruled == charge /\ expensive
TouSafe   == IF Overruled THEN Negative(EvSafe) ELSE EvSafe

FaultyCommit(v, automatic) ==
  /\ previous' = v
  /\ lastCharge' = (automatic /\ charge')
  /\ UNCHANGED <<sample, sampleUsed>>

\* accept_control_setpoint, under the same lock as the write.
Commit(v, automatic) ==
  /\ previous' = v
  /\ lastCharge' = (automatic /\ charge')
  /\ sample' = [sample EXCEPT !.used = sample.backup]
  /\ sampleUsed' = (sample.backup /\ ~sampleStale)

\* _write_cycle_setpoint: everything that may have changed since the calculation
\* is applied again under the write lock.
Write(accepted) ==
  LET automatic == pending = None
      v         == IF automatic THEN TouSafe ELSE Bounded
  IN /\ pc = "write" /\ Goto("settle")
     /\ setpoint' = v
     /\ charge' = IF automatic THEN charge /\ ~Overruled ELSE charge
     /\ writeOk' = (MayWrite /\ (dryRun \/ accepted))
     /\ IF writeOk'
        THEN /\ Commit(v, automatic)
             /\ seen' = [seen EXCEPT
                  !.virtual = dryRun, !.charging = seen.forced /\ v > 0,
                  !.fed = @ \/ (automatic /\ sample.backup /\ ~sampleStale)]
        ELSE UNCHANGED <<previous, lastCharge, sample, sampleUsed, seen>>
     /\ IF writeOk' /\ ~dryRun
        THEN /\ output' = [by |-> "control", value |-> v]
             /\ fallbackApplied' = (fallbackApplied /\ telemetryInvalid)
        ELSE UNCHANGED <<output, fallbackApplied>>
     /\ UNCHANGED <<owner, saved, telemetryInvalid, calcCurrent, dryRun, gridValid,
                    gridBackup, sourceNew, sourceStale, sampleStale, policyVars,
                    manual, phase, pending, mqtt>>

ManualServed == writeOk /\ pending # None /\ manual = pending

\* A Start or Stop during the cycle makes its result worthless; a manual command
\* is done when the one written is still the one asked for.
Settle ==
  /\ pc = "settle" /\ (~calcCurrent \/ ManualServed)
  /\ Goto(IF calcCurrent THEN "clear" ELSE "yield")
  /\ UNCHANGED <<watchdogVars, gridVars, policyVars, manual, phase, localVars,
                 lastCharge, previous, mqtt, seen>>

EndCycle ==
  /\ pc = "settle" /\ Finish
  /\ calcCurrent /\ ~ManualServed
  /\ UNCHANGED <<watchdogVars, gridValid, gridBackup, sourceNew, sampleUsed,
                 policyVars, manual, lastCharge, previous, mqtt, seen>>

\* The comparison above and this assignment are not one atomic step.
ClearServedManual ==
  /\ pc = "clear" /\ Finish
  /\ manual' = None
  /\ UNCHANGED <<watchdogVars, gridValid, gridBackup, sourceNew, sampleUsed,
                 policyVars, lastCharge, previous, mqtt, seen>>

\* Any exception out of the telemetry reads or the calculation ends the cycle: a
\* consumed pre-charge intent is gone, a pending manual command stays.
CycleError ==
  /\ pc \in {"read", "calculate", "recheck"} /\ Finish
  /\ UNCHANGED <<watchdogVars, gridValid, gridBackup, sourceNew, sampleUsed,
                 policyVars, manual, lastCharge, previous, mqtt, seen>>

------------------------------------------------------------------------------
(* Commands: one MQTT thread runs them one after the other, the pre-charge   *)
(* webhook has a thread of its own.                                          *)

MqttIdle == mqtt = "idle"

SetManual(v) ==
  /\ MqttIdle
  /\ manual' = Clamp(v, limits)
  /\ UNCHANGED <<watchdogVars, gridVars, policyVars, cycleVars, previous, mqtt,
                 seen>>

FaultyObsolete ==
  /\ calcCurrent' = FALSE
  /\ saved' = None
  /\ fallbackApplied' = FALSE

\* Taking over and handing back make the calculation in progress obsolete and
\* forget what the watchdog was doing.
Obsolete ==
  /\ calcCurrent' = FALSE
  /\ saved' = Zero
  /\ fallbackApplied' = FALSE

SetOverride(v) ==
  /\ MqttIdle /\ mqtt' = "clear"
  /\ owner' = "override"
  /\ output' = [by |-> "override", value |-> v]
  /\ Obsolete
  /\ UNCHANGED <<telemetryInvalid, dryRun, gridVars, policyVars, manual, cycleVars,
                 previous, seen>>

RefusedOverride ==
  /\ MqttIdle /\ OverrideValues # {} /\ mqtt' = "adopt"
  /\ UNCHANGED <<watchdogVars, gridVars, policyVars, manual, cycleVars, previous,
                 seen>>

StopOverride ==
  /\ MqttIdle /\ OverrideValues # {} /\ mqtt' = "clear"
  /\ IF owner = "override" THEN owner' = "control" /\ Obsolete
                           ELSE UNCHANGED <<owner, calcCurrent, saved,
                                            fallbackApplied>>
  /\ UNCHANGED <<output, telemetryInvalid, dryRun, gridVars, policyVars, manual,
                 cycleVars, previous, seen>>

\* set_setpoint_override, after the watchdog's part: an accepted Start or Stop
\* supersedes a pending manual command.
ClearManual ==
  /\ mqtt = "clear" /\ mqtt' = "adopt"
  /\ manual' = None
  /\ UNCHANGED <<watchdogVars, gridVars, policyVars, cycleVars, previous, seen>>

AdoptCommand ==
  /\ mqtt = "adopt" /\ mqtt' = "idle"
  /\ AdoptOutput
  /\ UNCHANGED <<watchdogVars, gridVars, policyVars, manual, cycleVars>>

SetPowerLimits(l) ==
  /\ MqttIdle
  /\ limits' = l
  /\ UNCHANGED <<watchdogVars, gridVars, expensive, evFloor, chargeFlag, preCharge,
                 manual, cycleVars, previous, mqtt, seen>>

SetDryRun(enabled) ==
  /\ MqttIdle /\ "dry" \in Policies
  /\ dryRun' = enabled
  /\ UNCHANGED <<owner, output, saved, fallbackApplied, telemetryInvalid,
                 calcCurrent, gridVars, policyVars, manual, cycleVars, previous,
                 mqtt, seen>>

SetChargeFlag(value) ==
  /\ MqttIdle /\ "flag" \in Policies
  /\ chargeFlag' = value
  /\ UNCHANGED <<watchdogVars, gridVars, expensive, evFloor, preCharge, limits,
                 manual, cycleVars, previous, mqtt, seen>>

\* The webhook queues one intent unless the window is expensive; it may expire.
PreCharge(queued) ==
  /\ "precharge" \in Policies
  /\ queued => ~expensive
  /\ preCharge' = queued
  /\ UNCHANGED <<watchdogVars, gridVars, expensive, evFloor, chargeFlag, limits,
                 manual, cycleVars, previous, mqtt, seen>>


------------------------------------------------------------------------------
(* The watchdog thread, as HardwareWatchdog implements SetpointArbiter.  A    *)
(* refresh of the command already acknowledged changes nothing here.          *)

Zeroed    == output = [by |-> "failsafe", value |-> Zero]
Automatic == owner # "override" /\ ~dryRun

\* The loop stalled: the baseline is remembered and zero commanded until it is
\* accepted.
Trip(accepted) ==
  /\ Automatic /\ owner \in {"control", "failsafe"}
  /\ owner = "failsafe" => ~Zeroed
  /\ owner' = "failsafe"
  /\ saved' = previous
  /\ output' = IF accepted THEN [by |-> "failsafe", value |-> Zero] ELSE output
  /\ fallbackApplied' = (fallbackApplied /\ ~accepted)
  /\ UNCHANGED <<telemetryInvalid, calcCurrent, dryRun, gridVars, policyVars,
                 manual, cycleVars, previous, mqtt, seen>>

Restore ==
  /\ Automatic /\ owner = "failsafe" /\ ~telemetryInvalid
  /\ owner' = "control"
  /\ saved' = Zero
  /\ output' = IF Zeroed THEN [by |-> "restore", value |-> saved] ELSE output
  /\ UNCHANGED <<fallbackApplied, telemetryInvalid, calcCurrent, dryRun, gridVars,
                 policyVars, manual, cycleVars, previous, mqtt, seen>>

\* The hold of an invalid meter ran out.
LoseMeter(accepted) ==
  /\ Automatic
  /\ owner = "fallback" \/ telemetryInvalid
  /\ owner' = "fallback"
  /\ saved' = Zero
  /\ output' = IF accepted THEN [by |-> "fallback", value |-> Fallback] ELSE output
  /\ fallbackApplied' = (fallbackApplied \/ accepted)
  /\ UNCHANGED <<telemetryInvalid, calcCurrent, dryRun, gridVars, policyVars,
                 manual, cycleVars, previous, mqtt, seen>>

ResumeMeter ==
  /\ Automatic /\ owner = "fallback" /\ ~telemetryInvalid
  /\ owner' = "control"
  /\ saved' = Zero
  /\ output' = [by |-> "fallback", value |-> Fallback]
  /\ fallbackApplied' = TRUE
  /\ UNCHANGED <<telemetryInvalid, calcCurrent, dryRun, gridVars, policyVars,
                 manual, cycleVars, previous, mqtt, seen>>

------------------------------------------------------------------------------
(* What the telemetry readers, the clock and other actors change.             *)

InCycle   == pc \notin {"start", "read"}
FirstPass == InCycle /\ phase = "first"

\* The primary meter carries no measurement time: only its validity shows.
PrimaryReading(valid) ==
  /\ ~gridBackup
  /\ gridValid' = valid
  /\ UNCHANGED <<watchdogVars, gridBackup, sourceNew, sourceStale, sampleStale,
                 sampleUsed, policyVars, manual, cycleVars, previous, mqtt, seen>>

\* The backup, while selected, is valid: each report has a source time of its own.
BackupMeasurement ==
  /\ gridBackup
  /\ sampleStale' = InCycle /\ sampleUsed' = FALSE
  /\ seen' = [seen EXCEPT !.fed = FALSE, !.changed = @ \/ FirstPass]
  /\ UNCHANGED <<watchdogVars, gridValid, gridBackup, sourceNew, sourceStale,
                 policyVars, manual, cycleVars, previous, mqtt>>

\* GridBackup.select: a lost backup may leave an invalid primary.
SourceSwitches(valid) ==
  /\ "backup" \in Sources
  /\ gridBackup' = ~gridBackup
  /\ gridBackup' => valid
  /\ gridValid' = valid
  /\ sourceNew' = TRUE /\ sourceStale' = InCycle
  /\ sampleStale' = InCycle /\ sampleUsed' = FALSE
  /\ seen' = [seen EXCEPT !.fed = FALSE, !.changed = @ \/ FirstPass]
  /\ UNCHANGED <<watchdogVars, policyVars, manual, cycleVars, previous, mqtt>>

WindowMoves ==
  /\ Policies \cap {"flag", "precharge"} # {}
  /\ expensive' = ~expensive
  /\ UNCHANGED <<watchdogVars, gridVars, evFloor, chargeFlag, preCharge, limits,
                 manual, cycleVars, previous, mqtt, seen>>

EvPowerChanges ==
  /\ "ev" \in Policies
  /\ evFloor' = ~evFloor
  /\ UNCHANGED <<watchdogVars, gridVars, expensive, chargeFlag, preCharge, limits,
                 manual, cycleVars, previous, mqtt, seen>>

------------------------------------------------------------------------------
ControlLoop ==
  \/ ReadGeneration \/ GetSystemData \/ ReadOverride
  \/ ReportInvalid \/ ReportNewSource \/ ReportValid \/ CheckTriggered
  \/ Resume \/ Yield
  \/ Calculate \/ SkipChangedGrid \/ RecheckGrid
  \/ WithdrawTrim \/ \E accepted \in BOOLEAN : Write(accepted)
  \/ Settle \/ EndCycle \/ ClearServedManual
  \/ CycleError

Commands ==
  \/ \E v \in ManualValues : SetManual(v)
  \/ \E v \in OverrideValues : SetOverride(v)
  \/ RefusedOverride \/ StopOverride \/ ClearManual \/ AdoptCommand
  \/ \E l \in LimitChoices : SetPowerLimits(l)
  \/ \E b \in BOOLEAN : SetDryRun(b) \/ SetChargeFlag(b) \/ PreCharge(b)

Watchdog ==
  \/ \E accepted \in BOOLEAN : Trip(accepted) \/ LoseMeter(accepted)
  \/ Restore \/ ResumeMeter

Environment ==
  \/ \E valid \in BOOLEAN : PrimaryReading(valid) \/ SourceSwitches(valid)
  \/ BackupMeasurement \/ WindowMoves \/ EvPowerChanges

Next == ControlLoop \/ Commands \/ Watchdog \/ Environment

Spec == Init /\ [][Next]_vars

------------------------------------------------------------------------------
(* Properties.                                                               *)

\* When the loop owns the output and begins a calculation, the baseline it works
\* from is the command the inverter last acknowledged, whichever of the four
\* writers sent it (previous_setpoint over _update_grid_loss_state_locked and
\* accept_control_setpoint; DRY commits apart).
BaselineIsOutput ==
  /\ pc = "calculate" /\ owner = "control" /\ calcCurrent
  /\ ~seen.virtual /\ output.by # "none"
  => previous = output.value

ControlWrite == output' # output /\ output'.by = "control"

\* An accepted regulation command rests on telemetry that was reported valid
\* last, and on a source and a backup measurement that had not changed when the
\* second pass through the gate found the grid valid again
\* (_grid_ready_for_control, _skip_changed_grid).
RegulatesOnVerifiedGrid ==
  [][ControlWrite => ~telemetryInvalid /\ ~seen.changed]_vars

\* A forced charge does not outlive the cheap tariff: whatever is accepted from
\* the loop inside the expensive window is not a forced-charge command, nor a
\* held or recalculated continuation of one, unless it no longer charges
\* (charge_battery, the pre-charge intent, SUBMETER HOLD, _guard_tou_charge).
ForcedChargeEnds ==
  [][ControlWrite /\ expensive /\ seen.forced => output'.value <= 0]_vars

\* Whatever the limits were when a command was calculated, what the loop gets
\* accepted lies within those in force now, or at the zero a safety guard demands
\* (set_power_limits races calculate_setpoint; _write_cycle_setpoint clamps last).
WithinCurrentLimits ==
  [][ControlWrite => output'.value \in (limits.min .. limits.max) \cup {Zero}]_vars

\* One backup measurement is fed back once: while it stands, further automatic
\* writes only hold (_last_backup_measurement).
FeedbackOnce ==
  [][ControlWrite /\ pending = None /\ sample.fed
       => output'.value \in {Zero, Clamp(Zero, limits), Clamp(previous, limits)}]_vars

\* The cycle, the commands and the telemetry never break the ownership protocol.
ImplementsArbiter == Arbiter!Spec

\* docs/interfaces.md: `setpoint` sets the manual setpoint.  The loop clears only
\* the manual command it has written.
ManualNotLost ==
  [][pc = "clear" /\ pc' = "start" => manual \in {pending, None}]_vars

\* LOGIC.md, step 6: the accepted baseline changes only after the write is
\* acknowledged, so a restore re-commands something the inverter once took.
RestoreWasAcknowledged ==
  [][output' # output /\ output'.by = "restore" => ~seen.virtual]_vars

\* docs/power-limits.md: the limits bound the requested power; only the override
\* bypasses them.
RestoreWithinLimits ==
  [][output' # output /\ output'.by = "restore"
       => output'.value = Clamp(output'.value, limits)]_vars

==============================================================================
