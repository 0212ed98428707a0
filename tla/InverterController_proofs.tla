---------------------- MODULE InverterController_proofs ----------------------
(***************************************************************************)
(* Theorems about InverterController, for any setpoints, limits and        *)
(* results of the strategies that ControllerAssumption allows.             *)
(*                                                                         *)
(* First the values: what a clamp or a guard makes of a setpoint is one of *)
(* the setpoints the model has.  Then type correctness, then an inductive  *)
(* invariant that says at each step of the cycle what its locals still     *)
(* tell of the shared state, then the properties and the refinement.       *)
(***************************************************************************)
EXTENDS InverterController, TLAPS

\* The sets of setpoints are of integers, and each is closed as the code needs it.
LEMMA ValueFacts ==
  /\ Setpoints \subseteq Int /\ None \notin Setpoints
  /\ ControlValues \subseteq Setpoints /\ Computable \subseteq ControlValues
  /\ ManualValues \subseteq ControlValues /\ OverrideValues \subseteq Setpoints
  /\ Zero \in ControlValues /\ Zero = 0 /\ Fallback \in Setpoints
  /\ ChargeValue \in Setpoints /\ CalcValues \subseteq Setpoints
<1>1. \A v \in Int, l \in LimitChoices : Clamp(v, l) \in Int
  BY ControllerAssumption DEF Clamp
<1>2. Clamped \subseteq Int
  BY <1>1, ControllerAssumption DEF Clamped, Computable, Fallback, Zero
<1>3. QED
  BY <1>2, ControllerAssumption DEF Setpoints, ControlValues, Computable, Fallback, Zero

\* A result stays one when it is clamped, once more or to another range.
LEMMA ClampedIsControl ==
  ASSUME NEW v \in Setpoints, NEW l \in LimitChoices
  PROVE  /\ Clamp(v, l) \in ControlValues
         /\ Clamp(v, l) \in l.min .. l.max
         /\ Positive(Clamp(v, l)) \in ControlValues
         /\ Negative(Clamp(v, l)) \in ControlValues
<1>1. v \in Int /\ l.min \in Int /\ l.max \in Int /\ l.min <= l.max
  BY ValueFacts, ControllerAssumption
<1>2. Clamp(v, l) \in l.min .. l.max
  BY <1>1 DEF Clamp
<1>3. Clamp(v, l) \in ControlValues
  <2>1. CASE Clamp(v, l) # v
    BY <2>1 DEF Clamp, ControlValues, Clamped
  <2>2. CASE v \in OverrideValues \cup {Fallback}
    BY <2>2 DEF ControlValues, Clamped
  <2>3. QED BY <2>1, <2>2 DEF Setpoints
<1>4. QED BY <1>2, <1>3, ValueFacts DEF Positive, Negative

\* A charge that a guard cuts to zero at most is still a setpoint.
LEMMA NegativeIsSetpoint ==
  ASSUME NEW v \in Setpoints
  PROVE  Negative(v) \in Setpoints
BY ValueFacts DEF Negative

\* The arbiter's values are the setpoints.
LEMMA ArbiterValues == Arbiter!Values = Setpoints
BY DEF Arbiter!Values, Setpoints, ControlValues

\* What the guards before the write leave of a setpoint: it lies in the limits in
\* force or is zero, and is no charge where the tariff overrules one.
LEMMA WriteValues ==
  ASSUME TypeOK
  PROVE  /\ {Bounded, TouSafe} \subseteq ControlValues
         /\ Bounded \in limits.min .. limits.max
         /\ TouSafe \in (limits.min .. limits.max) \cup {Zero}
         /\ Overruled => TouSafe <= 0
<1>1. setpoint \in Setpoints /\ limits \in LimitChoices
  BY DEF TypeOK
<1>2. /\ Clamp(setpoint, limits) \in ControlValues
      /\ Clamp(setpoint, limits) \in limits.min .. limits.max
  BY <1>1, ClampedIsControl
<1>3. limits.min \in Int /\ limits.max \in Int
  BY <1>1, ControllerAssumption
<1>4. QED
  BY <1>2, <1>3, ValueFacts DEF Bounded, EvSafe, TouSafe, Positive, Negative, Overruled

------------------------------------------------------------------------------
(* Type correctness, one lemma per actor.                                    *)

LEMMA InitTypeOK == Init => TypeOK
<1> SUFFICES ASSUME Init PROVE TypeOK
  OBVIOUS
<1>1. Arbiter!TypeOK
  BY ValueFacts, ArbiterValues DEF Init, Arbiter!TypeOK, Arbiter!Owners
<1>2. sample \in Samples /\ seen \in History /\ pc \in Steps
  BY DEF Init, Samples, NoSample, History, Steps
<1>3. saved \in Setpoints /\ setpoint \in Setpoints /\ previous \in Setpoints
  BY ValueFacts DEF Init
<1>4. QED BY <1>1, <1>2, <1>3 DEF Init, TypeOK

\* The locals a finished cycle leaves.
LEMMA FinishTypes ==
  ASSUME Finish
  PROVE  /\ pc' \in Steps /\ phase' \in {"first", "recheck", "override"}
         /\ sample' \in Samples /\ pending' \in ControlValues \cup {None}
         /\ setpoint' \in Setpoints
         /\ charge' = FALSE /\ writeOk' = FALSE
         /\ sourceStale' = FALSE /\ sampleStale' = FALSE
BY ValueFacts DEF Finish, Goto, Steps, Samples, NoSample

LEMMA ControlLoopTypeOK == TypeOK /\ ControlLoop => TypeOK'
<1> SUFFICES ASSUME TypeOK, ControlLoop PROVE TypeOK'
  OBVIOUS
<1> USE DEF TypeOK, Arbiter!TypeOK, watchdogVars, gridVars, policyVars, localVars, Goto
<1>1. CASE ReadGeneration
  BY <1>1, ZenonT(30) DEF ReadGeneration, Steps, History
<1>2. CASE GetSystemData
  BY <1>2 DEF GetSystemData, Steps, Samples, History
<1>3. CASE ReadOverride
  BY <1>3 DEF ReadOverride, Steps
<1>4. CASE ReportInvalid \/ ReportValid
  BY <1>4, ZenonT(30) DEF ReportInvalid, ReportValid, Steps
<1>5. CASE ReportNewSource
  <2>1. CASE phase = "override"
    BY <1>5, <2>1, ZenonT(30) DEF ReportNewSource, Steps
  <2>2. CASE phase # "override"
    BY <1>5, <2>2, FinishTypes DEF ReportNewSource
  <2>3. QED BY <2>1, <2>2
<1>6. CASE CheckTriggered
  BY <1>6 DEF CheckTriggered, Steps
<1>7. CASE Resume
  <2>1. previous' \in Setpoints /\ seen' \in History
    BY <1>7, ArbiterValues, ValueFacts DEF Resume, AdoptOutput, History
  <2>2. QED
    BY <1>7, <2>1 DEF Resume, Steps
<1>8. CASE Yield
  <2>1. previous' \in Setpoints /\ seen' \in History
    BY <1>8, ArbiterValues, ValueFacts DEF Yield, AdoptOutput, History
  <2>2. QED
    BY <1>8, <2>1, FinishTypes DEF Yield
<1>9. CASE Calculate
  <2>1. /\ setpoint' \in Setpoints /\ pending' \in ControlValues \cup {None}
        /\ charge' \in BOOLEAN /\ preCharge' \in BOOLEAN
        /\ seen' \in History
    <3>1. CASE CalculateManual
      BY <3>1, ValueFacts DEF CalculateManual, History
    <3>2. CASE CalculateHold
      BY <3>2, NegativeIsSetpoint DEF CalculateHold, History
    <3>3. CASE CalculateFresh
      <4>1. \A v \in CalcValues \cup {previous, ChargeValue} :
              /\ Clamp(v, limits) \in Setpoints
              /\ Positive(Clamp(v, limits)) \in Setpoints
        BY ValueFacts, ClampedIsControl
      <4>2. QED
        BY <3>3, <4>1 DEF CalculateFresh, History
    <3>4. QED BY <1>9, <3>1, <3>2, <3>3 DEF Calculate
  <2>2. QED
    BY <1>9, <2>1 DEF Calculate, Steps
<1>10. CASE SkipChangedGrid \/ EndCycle \/ CycleError \/ WithdrawTrim
  BY <1>10, FinishTypes DEF SkipChangedGrid, EndCycle, CycleError, WithdrawTrim
<1>11. CASE RecheckGrid
  BY <1>11 DEF RecheckGrid, Samples, History, Steps
<1>12. CASE \E accepted \in BOOLEAN : Write(accepted)
  <2>1. PICK accepted \in BOOLEAN : Write(accepted)
    BY <1>12
  <2>2. setpoint' \in Setpoints /\ setpoint' \in ControlValues
    BY <2>1, WriteValues, ValueFacts DEF Write
  <2>3. CASE writeOk'
    <3>1. /\ previous' \in Setpoints /\ lastCharge' \in BOOLEAN
          /\ sample' \in Samples /\ sampleUsed' \in BOOLEAN /\ seen' \in History
      BY <2>1, <2>2, <2>3 DEF Write, Commit, Samples, History
    <3>2. output'.value \in Arbiter!Values /\ fallbackApplied' \in BOOLEAN
      BY <2>1, <2>2, <2>3, ArbiterValues DEF Write
    <3>3. charge' \in BOOLEAN /\ writeOk' \in BOOLEAN
      BY <2>1, <2>3 DEF Write
    <3>4. QED
      BY <2>1, <2>2, <3>1, <3>2, <3>3 DEF Write, Steps
  <2>4. CASE ~writeOk'
    <3>1. charge' \in BOOLEAN /\ writeOk' \in BOOLEAN
      BY <2>1, <2>4 DEF Write
    <3>2. QED
      BY <2>1, <2>2, <2>4, <3>1 DEF Write, Steps
  <2>5. QED BY <2>3, <2>4
<1>13. CASE Settle
  BY <1>13 DEF Settle, Steps
<1>14. CASE ClearServedManual
  BY <1>14, FinishTypes DEF ClearServedManual
<1>15. QED
  BY <1>1, <1>2, <1>3, <1>4, <1>5, <1>6, <1>7, <1>8, <1>9, <1>10, <1>11, <1>12,
     <1>13, <1>14 DEF ControlLoop

LEMMA CommandsTypeOK == TypeOK /\ Commands => TypeOK'
<1> SUFFICES ASSUME TypeOK, Commands PROVE TypeOK'
  OBVIOUS
<1> USE DEF TypeOK, Arbiter!TypeOK, watchdogVars, gridVars, policyVars, cycleVars,
            localVars
<1>1. CASE \E v \in ManualValues : SetManual(v)
  <2>1. manual' \in ControlValues
    BY <1>1, ValueFacts, ClampedIsControl, ZenonT(30) DEF SetManual
  <2>2. QED BY <1>1, <2>1 DEF SetManual
<1>2. CASE \E v \in OverrideValues : SetOverride(v)
  <2>1. output'.value \in Arbiter!Values /\ owner' \in Arbiter!Owners
    BY <1>2, ValueFacts, ArbiterValues DEF SetOverride, Arbiter!Owners
  <2>2. saved' \in Setpoints /\ calcCurrent' = FALSE /\ fallbackApplied' = FALSE
    BY <1>2, ValueFacts DEF SetOverride, Obsolete
  <2>3. QED
    BY <1>2, <2>1, <2>2 DEF SetOverride
<1>3. CASE RefusedOverride \/ ClearManual
  BY <1>3 DEF RefusedOverride, ClearManual
<1>4. CASE StopOverride
  <2>1. CASE owner = "override"
    <3>1. saved' \in Setpoints /\ calcCurrent' = FALSE /\ fallbackApplied' = FALSE
      BY <1>4, <2>1, ValueFacts DEF StopOverride, Obsolete
    <3>2. QED
      BY <1>4, <2>1, <3>1 DEF StopOverride, Arbiter!Owners
  <2>2. CASE owner # "override"
    BY <1>4, <2>2 DEF StopOverride
  <2>3. QED BY <2>1, <2>2
<1>5. CASE AdoptCommand
  <2>1. previous' \in Setpoints /\ seen' \in History
    BY <1>5, ArbiterValues, ValueFacts DEF AdoptCommand, AdoptOutput, History
  <2>2. QED
    BY <1>5, <2>1 DEF AdoptCommand
<1>6. CASE \E l \in LimitChoices : SetPowerLimits(l)
  BY <1>6 DEF SetPowerLimits
<1>7. CASE \E b \in BOOLEAN : SetDryRun(b) \/ SetChargeFlag(b) \/ PreCharge(b)
  BY <1>7 DEF SetDryRun, SetChargeFlag, PreCharge
<1>8. QED
  BY <1>1, <1>2, <1>3, <1>4, <1>5, <1>6, <1>7 DEF Commands

LEMMA WatchdogTypeOK == TypeOK /\ Watchdog => TypeOK'
<1> SUFFICES ASSUME TypeOK, Watchdog PROVE TypeOK'
  OBVIOUS
<1> USE ValueFacts, ArbiterValues
    DEF TypeOK, Arbiter!TypeOK, Arbiter!Owners, gridVars, policyVars, cycleVars, localVars
<1>1. CASE \E accepted \in BOOLEAN : Trip(accepted)
  BY <1>1 DEF Trip
<1>2. CASE \E accepted \in BOOLEAN : LoseMeter(accepted)
  BY <1>2 DEF LoseMeter
<1>3. CASE Restore
  BY <1>3 DEF Restore
<1>4. CASE ResumeMeter
  BY <1>4 DEF ResumeMeter
<1>5. QED BY <1>1, <1>2, <1>3, <1>4 DEF Watchdog

LEMMA EnvironmentTypeOK == TypeOK /\ Environment => TypeOK'
<1> SUFFICES ASSUME TypeOK, Environment PROVE TypeOK'
  OBVIOUS
<1> USE DEF TypeOK, Arbiter!TypeOK, watchdogVars, gridVars, policyVars, cycleVars, localVars
<1>1. CASE \E valid \in BOOLEAN : PrimaryReading(valid)
  BY <1>1 DEF PrimaryReading
<1>2. CASE BackupMeasurement
  <2>1. seen' \in History
    BY <1>2 DEF BackupMeasurement, FirstPass, InCycle, History
  <2>2. sampleStale' \in BOOLEAN /\ sampleUsed' \in BOOLEAN
    BY <1>2 DEF BackupMeasurement, InCycle
  <2>3. QED
    BY <1>2, <2>1, <2>2 DEF BackupMeasurement
<1>3. CASE \E valid \in BOOLEAN : SourceSwitches(valid)
  BY <1>3 DEF SourceSwitches, InCycle, FirstPass, History
<1>4. CASE WindowMoves \/ EvPowerChanges
  BY <1>4 DEF WindowMoves, EvPowerChanges
<1>5. QED BY <1>1, <1>2, <1>3, <1>4 DEF Environment

\* Stuttering keeps what is said of the state.
LEMMA StutterTypeOK == TypeOK /\ UNCHANGED vars => TypeOK'
BY DEF TypeOK, Arbiter!TypeOK, vars, watchdogVars, gridVars, policyVars, cycleVars, localVars

\* Every variable keeps its type: in particular no sequence of clamps, guards,
\* restores and overrides leads out of the setpoints (controller.py, watchdog.py).
THEOREM TypeCorrect == Spec => []TypeOK
<1>1. TypeOK /\ [Next]_vars => TypeOK'
  BY ControlLoopTypeOK, CommandsTypeOK, WatchdogTypeOK, EnvironmentTypeOK, StutterTypeOK
  DEF Next
<1>2. QED BY InitTypeOK, <1>1, PTL DEF Spec

------------------------------------------------------------------------------
(* The inductive invariant.                                                  *)

Writers == {"none", "control", "failsafe", "restore", "fallback", "override"}

\* A setpoint of this cycle is on its way to the inverter.
AfterCalc ==
  \/ pc = "recheck"
  \/ phase = "recheck" /\ pc \in {"report", "triggered?", "resume", "write"}
\* The gate let this cycle regulate.
Regulating == AfterCalc \/ pc = "calculate" \/ (phase = "first" /\ pc = "resume")

\* The pass through the gate belongs to the step.
PhaseMatches ==
  /\ pc \in {"start", "read", "override?", "calculate", "recheck"} => phase = "first"
  /\ pc \in {"write", "settle", "clear"} => phase = "recheck"

\* What was acknowledged last tells whose turn it is.
OutputMatches ==
  /\ output \in [by : Writers, value : Setpoints]
  /\ output.by = "failsafe" => output.value = Zero /\ owner # "control"
  /\ fallbackApplied <=> output.by = "fallback"
  /\ output.by = "fallback" => output.value = Fallback
  /\ owner = "override" => output.by = "override"

\* The baseline follows the output: an override's value is adopted before the next
\* command, any other is the one committed, and while the zero stands the one to
\* be restored.
BaselineTracks ==
  /\ owner = "override" /\ mqtt = "idle" => previous = output.value
  /\ owner \in {"control", "failsafe"} /\ ~seen.virtual
       /\ output.by \in {"control", "restore", "override"} => previous = output.value
  /\ owner = "failsafe" /\ output.by = "failsafe" => saved = previous

\* The cycle regulates on telemetry last reported valid, and no fallback begins.
Verified ==
  /\ pc = "triggered?" \/ Regulating => ~telemetryInvalid
  /\ Regulating => owner # "fallback"

\* A fallback still in force is the baseline of the calculation.
FallbackAdopted ==
  fallbackApplied /\ (pc = "calculate" \/ AfterCalc) => previous = Fallback

\* A change of the grid before the recheck is either seen by the recheck, or was
\* found there.
ChangesAreSeen ==
  /\ pc = "start" => ~sampleStale
  /\ pc = "read" => ~seen.changed
  /\ FirstPass /\ seen.changed => sampleStale
  /\ phase = "recheck" /\ pc = "report" /\ sample.valid => ~seen.changed
  /\ phase = "recheck" /\ pc \in {"triggered?", "resume", "write"} => ~seen.changed

\* A selection the cycle has not worked with stays new until it is reported.
NewIsReported ==
  /\ InCycle /\ sourceNew /\ ~sample.new => sampleStale
  /\ pc \in {"override?", "report"} /\ sample.new => sourceNew
  /\ phase # "override" /\ pc \in {"triggered?", "resume"} => ~sample.new
  /\ pc = "calculate" \/ AfterCalc => ~sample.new

\* A measurement that was fed back is marked as used, in the sample too.
FedIsUsed ==
  /\ seen.fed => sampleUsed /\ gridBackup /\ ~sourceNew /\ ~sampleStale
  /\ InCycle /\ ~sampleStale => sample.backup = gridBackup
  /\ sample.fed => sample.backup /\ sample.used

\* A command that came after ReadOverride made the cycle's result obsolete.
OverrideIsNoticed ==
  calcCurrent /\ InCycle /\ pc # "override?" /\ phase # "override"
    => owner # "override"

\* What is written on a used measurement is the baseline still, or zero.
HoldIsKept ==
  AfterCalc /\ calcCurrent /\ pending = None /\ sample.fed
    => setpoint \in {previous, Zero}

\* A command known to be a forced charge is marked as one.
ForcedIsMarked ==
  /\ AfterCalc /\ seen.forced => pending = None /\ charge
  /\ seen.charging => lastCharge

CycleInv ==
  /\ PhaseMatches /\ Verified /\ FallbackAdopted
  /\ ChangesAreSeen /\ NewIsReported /\ FedIsUsed
  /\ OverrideIsNoticed /\ HoldIsKept /\ ForcedIsMarked

IInv == TypeOK /\ OutputMatches /\ BaselineTracks /\ CycleInv

\* The controller starts at zero, at the beginning of a cycle.
LEMMA InitIInv == Init => IInv
<1> SUFFICES ASSUME Init PROVE IInv
  OBVIOUS
<1>1. TypeOK
  BY InitTypeOK
<1>2. OutputMatches /\ BaselineTracks
  BY ValueFacts DEF Init, OutputMatches, BaselineTracks, Writers
<1>3. CycleInv
  BY DEF Init, NoSample, CycleInv, PhaseMatches, Verified, FallbackAdopted, ChangesAreSeen,
         NewIsReported, FedIsUsed, OverrideIsNoticed, HoldIsKept, ForcedIsMarked,
         AfterCalc, Regulating, InCycle, FirstPass
<1>4. QED BY <1>1, <1>2, <1>3 DEF IInv

\* Which steps write, or move the ownership or the baseline.
LEMMA OutputFrame ==
  ASSUME TypeOK, Next
  PROVE  \/ /\ UNCHANGED <<owner, output, saved, fallbackApplied, previous, mqtt>>
            /\ seen'.virtual = seen.virtual
         \/ \E accepted \in BOOLEAN : Write(accepted) \/ Trip(accepted) \/ LoseMeter(accepted)
         \/ Restore \/ ResumeMeter
         \/ \E v \in OverrideValues : SetOverride(v)
         \/ StopOverride \/ RefusedOverride \/ ClearManual
         \/ AdoptCommand \/ Resume \/ Yield
<1>1. CASE ControlLoop
  BY <1>1
  DEF ControlLoop, TypeOK, History, ReadGeneration, GetSystemData, ReadOverride, ReportInvalid,
      ReportNewSource, ReportValid, CheckTriggered, Calculate, CalculateManual, CalculateHold,
      CalculateFresh, SkipChangedGrid, RecheckGrid, WithdrawTrim, Settle, EndCycle,
      ClearServedManual, CycleError, watchdogVars
<1>2. CASE Commands
  BY <1>2
  DEF Commands, SetManual, SetPowerLimits, SetDryRun, SetChargeFlag, PreCharge, watchdogVars
<1>3. CASE Watchdog
  BY <1>3 DEF Watchdog
<1>4. CASE Environment
  BY <1>4
  DEF Environment, TypeOK, History, PrimaryReading, SourceSwitches, BackupMeasurement, WindowMoves,
      EvPowerChanges, watchdogVars
<1>5. QED BY <1>1, <1>2, <1>3, <1>4 DEF Next

\* The cycle writes on valid telemetry only, so that its write ends a fallback.
LEMMA WriteOnValid ==
  ASSUME IInv, NEW accepted \in BOOLEAN, Write(accepted)
  PROVE  ~telemetryInvalid
BY DEF IInv, CycleInv, PhaseMatches, Verified, Regulating, AfterCalc, Write

\* Ownership, output and baseline stay in step.
LEMMA OutputStep ==
  ASSUME IInv, Next
  PROVE  OutputMatches' /\ BaselineTracks'
<1> USE DEF IInv, OutputMatches, BaselineTracks
<1>1. CASE /\ UNCHANGED <<owner, output, saved, fallbackApplied, previous, mqtt>>
           /\ seen'.virtual = seen.virtual
  BY <1>1
<1>2. ASSUME NEW accepted \in BOOLEAN, Write(accepted)
      PROVE  OutputMatches' /\ BaselineTracks'
  <2>1. ~telemetryInvalid
    BY <1>2, WriteOnValid
  <2>2. setpoint' \in Setpoints
    BY <1>2, WriteValues, ValueFacts DEF Write
  <2>3. CASE writeOk' /\ ~dryRun
    <3>1. /\ output' = [by |-> "control", value |-> setpoint']
          /\ previous' = setpoint' /\ ~fallbackApplied' /\ owner = "control"
          /\ UNCHANGED owner
      BY <1>2, <2>1, <2>3 DEF Write, Commit, MayWrite
    <3>2. QED BY <2>2, <3>1 DEF Writers
  <2>4. CASE writeOk' /\ dryRun
    <3>1. /\ UNCHANGED <<output, fallbackApplied, owner>>
          /\ owner = "control" /\ seen'.virtual
      BY <1>2, <2>4 DEF Write, MayWrite, TypeOK, History
    <3>2. QED BY <3>1
  <2>5. CASE ~writeOk'
    BY <1>2, <2>5 DEF Write
  <2>6. QED BY <2>3, <2>4, <2>5 DEF Write
<1>3. ASSUME NEW accepted \in BOOLEAN, Trip(accepted)
      PROVE  OutputMatches' /\ BaselineTracks'
  BY <1>3, ValueFacts DEF Trip, Automatic, Zeroed, TypeOK, Writers
<1>4. ASSUME NEW accepted \in BOOLEAN, LoseMeter(accepted)
      PROVE  OutputMatches' /\ BaselineTracks'
  BY <1>4, ValueFacts DEF LoseMeter, Automatic, TypeOK, Writers
<1>5. CASE Restore
  BY <1>5, ValueFacts DEF Restore, Automatic, Zeroed, TypeOK, Writers
<1>6. CASE ResumeMeter
  BY <1>6, ValueFacts DEF ResumeMeter, Writers
<1>7. CASE \E v \in OverrideValues : SetOverride(v)
  BY <1>7, ValueFacts DEF SetOverride, Obsolete, Writers
<1>8. CASE StopOverride
  BY <1>8 DEF StopOverride, Obsolete, MqttIdle
<1>9. CASE RefusedOverride \/ ClearManual
  BY <1>9 DEF RefusedOverride, ClearManual, watchdogVars
<1>10. CASE AdoptCommand \/ Resume \/ Yield
  <2>1. AdoptOutput /\ UNCHANGED watchdogVars /\ (mqtt' = mqtt \/ mqtt = "adopt")
    BY <1>10 DEF AdoptCommand, Resume, Yield
  <2>2. previous' = IF owner = "override" \/ fallbackApplied THEN output.value ELSE previous
    BY <2>1 DEF AdoptOutput
  <2>3. owner # "override" /\ ~fallbackApplied => seen'.virtual = seen.virtual
    BY <2>1 DEF AdoptOutput, TypeOK, History
  <2>4. QED
    BY <2>1, <2>2, <2>3 DEF watchdogVars
<1>11. QED
  BY <1>1, <1>2, <1>3, <1>4, <1>5, <1>6, <1>7, <1>8, <1>9, <1>10, OutputFrame

\* Adopting another writer's output leaves a current calculation its baseline.
LEMMA AdoptionKeeps ==
  ASSUME IInv, AdoptOutput
  PROVE  /\ fallbackApplied => previous' = Fallback
         /\ AfterCalc /\ calcCurrent => previous' = previous
         /\ \A f \in {"charging", "forced", "fed", "changed"} : seen'[f] = seen[f]
<1>1. fallbackApplied => previous' = Fallback
  BY DEF IInv, OutputMatches, AdoptOutput
<1>2. AfterCalc /\ calcCurrent => owner # "override"
  BY DEF IInv, CycleInv, OverrideIsNoticed, PhaseMatches, AfterCalc, InCycle
<1>3. AfterCalc /\ calcCurrent => previous' = previous
  BY <1>2 DEF IInv, CycleInv, FallbackAdopted, AdoptOutput
<1>4. QED
  BY <1>1, <1>3 DEF IInv, TypeOK, History, AdoptOutput

\* The steps of the control loop itself, one case each.
LEMMA CycleControlStep ==
  ASSUME IInv, ControlLoop
  PROVE  CycleInv'
<1> USE DEF IInv, TypeOK, History, Samples, CycleInv, PhaseMatches, Verified, FallbackAdopted,
            ChangesAreSeen, NewIsReported, FedIsUsed, OverrideIsNoticed, HoldIsKept,
            ForcedIsMarked, AfterCalc, Regulating, InCycle, FirstPass,
            watchdogVars, gridVars, policyVars, localVars, Goto
<1>1. CASE ReadGeneration
  BY <1>1 DEF ReadGeneration
<1>2. CASE GetSystemData
  BY <1>2 DEF GetSystemData
<1>3. CASE ReadOverride
  BY <1>3 DEF ReadOverride
<1>4. CASE ReportInvalid
  BY <1>4 DEF ReportInvalid
<1>5. CASE ReportNewSource
  BY <1>5 DEF ReportNewSource, Finish, NoSample
<1>6. CASE ReportValid
  BY <1>6 DEF ReportValid
<1>7. CASE CheckTriggered
  BY <1>7 DEF CheckTriggered
<1>8. CASE Resume
  <2>1. AdoptOutput
    BY <1>8 DEF Resume
  <2>2. HoldIsKept' /\ FallbackAdopted'
    BY <1>8, <2>1, AdoptionKeeps DEF Resume
  <2>3. ForcedIsMarked' /\ FedIsUsed' /\ ChangesAreSeen'
    BY <1>8, <2>1, AdoptionKeeps DEF Resume
  <2>4. PhaseMatches' /\ Verified' /\ NewIsReported' /\ OverrideIsNoticed'
    BY <1>8 DEF Resume
  <2>5. QED BY <2>2, <2>3, <2>4
<1>9. CASE Yield
  BY <1>9 DEF Yield, Finish, AdoptOutput, NoSample
<1>10. CASE Calculate
  BY <1>10, ValueFacts
  DEF Calculate, CalculateManual, CalculateHold, CalculateFresh, Hold, Negative
<1>11. CASE SkipChangedGrid \/ EndCycle \/ CycleError \/ WithdrawTrim
  BY <1>11
  DEF SkipChangedGrid, EndCycle, CycleError, WithdrawTrim, Finish, NoSample
<1>12. CASE RecheckGrid
  BY <1>12 DEF RecheckGrid, GridChanged
<1>13. CASE \E accepted \in BOOLEAN : Write(accepted)
  <2>1. PICK accepted \in BOOLEAN : Write(accepted)
    BY <1>13
  <2>2. PhaseMatches' /\ Verified' /\ FallbackAdopted' /\ OverrideIsNoticed' /\ HoldIsKept'
    BY <2>1 DEF Write
  <2>3. seen'.changed = seen.changed /\ seen'.forced = seen.forced
    BY <2>1 DEF Write
  <2>4. ChangesAreSeen'
    BY <2>1, <2>3 DEF Write
  <2>5. sample'.new = sample.new /\ sample'.backup = sample.backup /\ sample'.fed = sample.fed
    BY <2>1 DEF Write, Commit
  <2>6. NewIsReported'
    BY <2>1, <2>5 DEF Write
  <2>7. FedIsUsed'
    <3>1. CASE writeOk'
      <4>1. /\ sample'.used = sample.backup /\ sampleUsed' = (sample.backup /\ ~sampleStale)
            /\ seen'.fed = (seen.fed \/ (pending = None /\ sample.backup /\ ~sampleStale))
        BY <2>1, <3>1 DEF Write, Commit
      <4>2. ~sampleStale => ~sourceNew /\ sample.backup = gridBackup
        BY <2>1 DEF Write
      <4>3. QED BY <2>1, <2>5, <4>1, <4>2 DEF Write
    <3>2. CASE ~writeOk'
      BY <2>1, <3>2 DEF Write
    <3>3. QED BY <3>1, <3>2
  <2>8. ForcedIsMarked'
    <3>1. CASE writeOk'
      <4>1. seen'.charging = (seen.forced /\ setpoint' > 0)
        BY <2>1, <3>1 DEF Write
      <4>2. seen.forced => pending = None /\ charge
        BY <2>1 DEF Write
      <4>3. CASE Overruled
        <5>1. TouSafe <= 0 /\ TouSafe \in Int
          BY <4>3, WriteValues, ValueFacts
        <5>2. QED BY <2>1, <4>1, <4>2, <5>1 DEF Write
      <4>4. CASE ~Overruled
        BY <2>1, <3>1, <4>1, <4>2, <4>4 DEF Write, Commit
      <4>5. QED BY <4>3, <4>4
    <3>2. CASE ~writeOk'
      BY <2>1, <3>2 DEF Write
    <3>3. QED BY <3>1, <3>2
  <2>9. QED BY <2>2, <2>4, <2>6, <2>7, <2>8
<1>14. CASE Settle
  BY <1>14 DEF Settle
<1>15. CASE ClearServedManual
  BY <1>15 DEF ClearServedManual, Finish, NoSample
<1>16. QED
  BY <1>1, <1>2, <1>3, <1>4, <1>5, <1>6, <1>7, <1>8, <1>9, <1>10, <1>11, <1>12,
     <1>13, <1>14, <1>15 DEF ControlLoop

\* What other threads do between two steps of the cycle.
LEMMA CycleOtherStep ==
  ASSUME IInv, Commands \/ Watchdog \/ Environment
  PROVE  CycleInv'
<1> USE DEF IInv, TypeOK, History, Samples, CycleInv, PhaseMatches, Verified, FallbackAdopted,
            ChangesAreSeen, NewIsReported, FedIsUsed, OverrideIsNoticed, HoldIsKept,
            ForcedIsMarked, AfterCalc, Regulating, InCycle, FirstPass,
            watchdogVars, gridVars, policyVars, cycleVars, localVars
<1>1. CASE \/ \E v \in ManualValues : SetManual(v)
           \/ RefusedOverride \/ ClearManual
           \/ \E l \in LimitChoices : SetPowerLimits(l)
           \/ \E b \in BOOLEAN : SetDryRun(b) \/ SetChargeFlag(b) \/ PreCharge(b)
  BY <1>1 DEF SetManual, RefusedOverride, ClearManual, SetPowerLimits, SetDryRun,
              SetChargeFlag, PreCharge
<1>2. CASE \E v \in OverrideValues : SetOverride(v)
  BY <1>2 DEF SetOverride, Obsolete
<1>3. CASE StopOverride
  BY <1>3 DEF StopOverride, Obsolete
<1>4. CASE AdoptCommand
  <2>1. AdoptOutput
    BY <1>4 DEF AdoptCommand
  <2>2. HoldIsKept' /\ FallbackAdopted'
    BY <1>4, <2>1, AdoptionKeeps DEF AdoptCommand
  <2>3. ForcedIsMarked' /\ FedIsUsed' /\ ChangesAreSeen'
    BY <1>4, <2>1, AdoptionKeeps DEF AdoptCommand
  <2>4. PhaseMatches' /\ Verified' /\ NewIsReported' /\ OverrideIsNoticed'
    BY <1>4 DEF AdoptCommand
  <2>5. QED BY <2>2, <2>3, <2>4
<1>5. CASE Watchdog
  BY <1>5 DEF Watchdog, Trip, Restore, LoseMeter, ResumeMeter, Automatic
<1>6. CASE \E valid \in BOOLEAN : PrimaryReading(valid)
  BY <1>6 DEF PrimaryReading
<1>7. CASE BackupMeasurement
  <2>1. PhaseMatches' /\ Verified' /\ FallbackAdopted' /\ OverrideIsNoticed' /\ HoldIsKept'
    BY <1>7 DEF BackupMeasurement
  <2>2. NewIsReported' /\ FedIsUsed' /\ ForcedIsMarked'
    BY <1>7 DEF BackupMeasurement
  <2>3. ChangesAreSeen'
    BY <1>7 DEF BackupMeasurement
  <2>4. QED BY <2>1, <2>2, <2>3
<1>8. CASE \E valid \in BOOLEAN : SourceSwitches(valid)
  <2>1. PhaseMatches' /\ Verified' /\ FallbackAdopted' /\ OverrideIsNoticed' /\ HoldIsKept'
    BY <1>8 DEF SourceSwitches
  <2>2. NewIsReported' /\ FedIsUsed' /\ ForcedIsMarked'
    <3>1. /\ seen'.fed = FALSE /\ seen'.forced = seen.forced
          /\ seen'.charging = seen.charging
          /\ InCycle => sampleStale'
          /\ sourceNew' /\ UNCHANGED <<pc, phase, sample, pending, charge, lastCharge>>
      BY <1>8 DEF SourceSwitches
    <3>2. NewIsReported'
      BY <3>1
    <3>3. FedIsUsed'
      BY <3>1
    <3>4. ForcedIsMarked'
      BY <3>1
    <3>5. QED BY <3>2, <3>3, <3>4
  <2>3. ChangesAreSeen'
    BY <1>8 DEF SourceSwitches
  <2>4. QED BY <2>1, <2>2, <2>3
<1>9. CASE WindowMoves \/ EvPowerChanges
  BY <1>9 DEF WindowMoves, EvPowerChanges
<1>10. QED
  BY <1>1, <1>2, <1>3, <1>4, <1>5, <1>6, <1>7, <1>8, <1>9 DEF Commands, Environment

LEMMA StutterIInv == IInv /\ UNCHANGED vars => IInv'
<1> SUFFICES ASSUME IInv, UNCHANGED vars PROVE IInv'
  OBVIOUS
<1> USE DEF IInv, vars, watchdogVars, gridVars, policyVars, cycleVars, localVars
<1>1. TypeOK'
  BY StutterTypeOK
<1>2. OutputMatches' /\ BaselineTracks'
  BY DEF OutputMatches, BaselineTracks
<1>3. CycleInv'
  BY DEF CycleInv, PhaseMatches, Verified, FallbackAdopted, ChangesAreSeen, NewIsReported,
         FedIsUsed, OverrideIsNoticed, HoldIsKept, ForcedIsMarked, AfterCalc, Regulating,
         InCycle, FirstPass
<1>4. QED BY <1>1, <1>2, <1>3

\* The invariant holds in every reachable state: whatever commands, watchdog and
\* telemetry do between two steps, run_cycle's locals tell of them what it needs.
THEOREM Inductive == Spec => []IInv
<1>1. IInv /\ [Next]_vars => IInv'
  <2>1. CASE IInv /\ Next
    <3>1. TypeOK'
      BY <2>1, ControlLoopTypeOK, CommandsTypeOK, WatchdogTypeOK, EnvironmentTypeOK
      DEF IInv, Next
    <3>2. OutputMatches' /\ BaselineTracks'
      BY <2>1, OutputStep
    <3>3. CycleInv'
      BY <2>1, CycleControlStep, CycleOtherStep DEF Next
    <3>4. QED BY <3>1, <3>2, <3>3 DEF IInv
  <2>2. QED BY <2>1, StutterIInv
<1>2. QED BY InitIInv, <1>1, PTL DEF Spec

------------------------------------------------------------------------------
(* The properties.                                                           *)

\* The calculation starts from the command the inverter acknowledged last,
\* whichever of the four writers sent it (previous_setpoint over
\* _update_grid_loss_state_locked and accept_control_setpoint).
THEOREM BaselineIsAcknowledged == Spec => []BaselineIsOutput
<1>1. IInv => BaselineIsOutput
  BY DEF IInv, OutputMatches, BaselineTracks, CycleInv, FallbackAdopted, BaselineIsOutput, Writers
<1>2. QED BY <1>1, Inductive, PTL

\* Only the loop's accepted write is a regulation command, and it is the value
\* clamped last, made by the owner in a current cycle.
LEMMA ControlWrites ==
  ASSUME IInv, [Next]_vars, ControlWrite
  PROVE  /\ \E accepted \in BOOLEAN : Write(accepted)
         /\ MayWrite /\ AfterCalc /\ pc = "write" /\ phase = "recheck"
         /\ output'.value = IF pending = None THEN TouSafe ELSE Bounded
<1>1. Next
  BY DEF ControlWrite, vars, watchdogVars
<1>2. \E accepted \in BOOLEAN : Write(accepted)
  <2> SUFFICES ASSUME ~\E accepted \in BOOLEAN : Write(accepted) PROVE FALSE
    OBVIOUS
  <2> USE DEF ControlWrite
  <2>1. ~\E accepted \in BOOLEAN : Trip(accepted) \/ LoseMeter(accepted)
    BY DEF Trip, LoseMeter
  <2>2. ~Restore /\ ~ResumeMeter
    BY DEF Restore, ResumeMeter
  <2>3. ~\E v \in OverrideValues : SetOverride(v)
    BY DEF SetOverride
  <2>4. ~(StopOverride \/ RefusedOverride \/ ClearManual \/ AdoptCommand \/ Resume \/ Yield)
    BY DEF StopOverride, RefusedOverride, ClearManual, AdoptCommand, Resume, Yield, watchdogVars
  <2>5. QED BY <1>1, <2>1, <2>2, <2>3, <2>4, OutputFrame DEF IInv
<1>3. PICK accepted \in BOOLEAN : Write(accepted)
  BY <1>2
<1>4. pc = "write" /\ phase = "recheck" /\ AfterCalc
  BY <1>3 DEF Write, IInv, CycleInv, PhaseMatches, AfterCalc
<1>5. MayWrite /\ output' = [by |-> "control", value |-> setpoint']
  BY <1>3 DEF Write, ControlWrite
<1>6. setpoint' = IF pending = None THEN TouSafe ELSE Bounded
  BY <1>3 DEF Write
<1>7. QED BY <1>3, <1>4, <1>5, <1>6

\* Regulation commands rest on telemetry reported valid last, and on a grid that
\* had not changed by the recheck (_grid_ready_for_control, _skip_changed_grid).
THEOREM RegulatesVerified == Spec => RegulatesOnVerifiedGrid
<1>1. IInv /\ [Next]_vars => (ControlWrite => ~telemetryInvalid /\ ~seen.changed)
  BY ControlWrites DEF IInv, CycleInv, Verified, Regulating, ChangesAreSeen
<1>2. QED BY <1>1, Inductive, PTL DEF Spec, RegulatesOnVerifiedGrid

\* A forced charge does not outlive the cheap tariff (charge_battery, the
\* pre-charge intent, a held baseline, _guard_tou_charge).
THEOREM ForcedChargeStops == Spec => ForcedChargeEnds
<1>1. IInv /\ [Next]_vars
        => (ControlWrite /\ expensive /\ seen.forced => output'.value <= 0)
  BY ControlWrites, WriteValues DEF IInv, CycleInv, ForcedIsMarked, Overruled
<1>2. QED BY <1>1, Inductive, PTL DEF Spec, ForcedChargeEnds

\* Regulation commands lie within the limits in force (set_power_limits races
\* calculate_setpoint).
THEOREM LimitsInForce == Spec => WithinCurrentLimits
<1>1. IInv /\ [Next]_vars
        => (ControlWrite => output'.value \in (limits.min .. limits.max) \cup {Zero})
  BY ControlWrites, WriteValues DEF IInv
<1>2. QED BY <1>1, Inductive, PTL DEF Spec, WithinCurrentLimits

\* A backup measurement is fed back once (_last_backup_measurement).
THEOREM FedBackOnce == Spec => FeedbackOnce
<1>1. IInv /\ [Next]_vars
        => (ControlWrite /\ pending = None /\ sample.fed
              => output'.value \in {Zero, Clamp(Zero, limits), Clamp(previous, limits)})
  <2> SUFFICES ASSUME IInv, [Next]_vars, ControlWrite, pending = None, sample.fed
               PROVE  output'.value \in {Zero, Clamp(Zero, limits), Clamp(previous, limits)}
    OBVIOUS
  <2>1. output'.value = TouSafe /\ setpoint \in {previous, Zero}
    BY ControlWrites DEF IInv, CycleInv, HoldIsKept, MayWrite
  <2>2. QED
    BY <2>1, ValueFacts DEF TouSafe, EvSafe, Bounded, Positive, Negative
<1>2. QED BY <1>1, Inductive, PTL DEF Spec, FeedbackOnce

\* The cycle, the commands and the telemetry keep to the ownership protocol: each
\* of their steps is one of the arbiter's or leaves owner and output alone.
THEOREM Refinement == Spec => ImplementsArbiter
<1>1. Init => Arbiter!Init
  BY DEF Init, Arbiter!Init
<1>2. IInv /\ [Next]_vars => [Arbiter!Next]_<<owner, output>>
  <2> SUFFICES ASSUME IInv, Next, ~UNCHANGED <<owner, output>>
               PROVE  Arbiter!Next
    BY DEF vars, watchdogVars
  <2> USE DEF IInv, TypeOK, Arbiter!Acknowledged
  <2>1. ASSUME NEW accepted \in BOOLEAN, Write(accepted)
        PROVE  Arbiter!Next
    <3>1. output' = [by |-> "control", value |-> setpoint'] /\ UNCHANGED owner
      BY <2>1 DEF Write
    <3>2. setpoint' \in ControlValues /\ owner = "control"
      BY <2>1, WriteValues DEF Write, MayWrite
    <3>3. QED BY <3>1, <3>2 DEF Arbiter!Next, Arbiter!Regulate
  <2>2. ASSUME NEW accepted \in BOOLEAN, Trip(accepted)
        PROVE  Arbiter!Next
    BY <2>2 DEF Trip, Arbiter!Next, Arbiter!Trip
  <2>3. ASSUME NEW accepted \in BOOLEAN, LoseMeter(accepted)
        PROVE  Arbiter!Next
    BY <2>3 DEF LoseMeter, Automatic, Arbiter!TypeOK, Arbiter!Owners, Arbiter!Next,
                Arbiter!LoseMeter
  <2>4. CASE Restore
    BY <2>4, ArbiterValues DEF Restore, Zeroed, Arbiter!Next, Arbiter!Restore, Arbiter!Holds
  <2>5. CASE ResumeMeter
    BY <2>5 DEF ResumeMeter, Arbiter!Next, Arbiter!ResumeMeter
  <2>6. CASE \E v \in OverrideValues : SetOverride(v)
    BY <2>6 DEF SetOverride, Arbiter!Next, Arbiter!TakeOver
  <2>7. CASE StopOverride
    BY <2>7 DEF StopOverride, Arbiter!Next, Arbiter!Release
  <2>8. CASE RefusedOverride \/ ClearManual \/ AdoptCommand \/ Resume \/ Yield
    BY <2>8 DEF RefusedOverride, ClearManual, AdoptCommand, Resume, Yield, watchdogVars
  <2>9. QED
    BY <2>1, <2>2, <2>3, <2>4, <2>5, <2>6, <2>7, <2>8, OutputFrame
<1>3. QED
  BY <1>1, <1>2, Inductive, PTL DEF Spec, ImplementsArbiter, Arbiter!Spec
==============================================================================
