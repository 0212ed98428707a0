---------------------- MODULE HardwareWatchdog_proofs ----------------------
(***************************************************************************)
(* Theorems about HardwareWatchdog, for every choice of its values and     *)
(* times.  Each invariant follows from the inductive invariant IInv, which *)
(* ties the episode flags to the write the inverter last acknowledged.     *)
(***************************************************************************)
EXTENDS HardwareWatchdog, TLAPS

\* Fallback and Zero are among the values; the sentinel None is not.
LEMMA ValuesFacts ==
  /\ Fallback \in Values /\ Zero \in Values /\ Zero \in Int
  /\ ControlValues \subseteq Values /\ OverrideValues \subseteq Values
  /\ None \notin OverrideValues
BY ValuesAssumption DEF Values, Fallback, Zero

LEMMA TimesFacts ==
  /\ HoldEnabled \in BOOLEAN
  /\ Hold \in Nat /\ Timeout \in Nat /\ CheckInterval \in Nat \ {0}
  /\ RefreshInterval \in Nat \ {0} /\ OverrideInterval \in Nat \ {0}
  /\ FlipCap \in Nat /\ CheckInterval <= FlipCap
  /\ FailThreshold = 3 /\ SuccessThreshold = 2
BY TimesAssumption DEF FlipCap, FailThreshold, SuccessThreshold

LEMMA OlderBounded ==
  ASSUME NEW cap \in Nat, NEW age \in 0 .. cap
  PROVE  Older(age, cap) \in 0 .. cap
BY DEF Older

\* A write leaves what the inverter holds and what it acknowledged well typed.
LEMMA AttemptTypes ==
  ASSUME NEW v \in Values, NEW writer \in Writers, NEW out \in Outcomes,
         hw \in Values, acked \in AckRecord, Attempt(v, writer, out)
  PROVE  hw' \in Values /\ acked' \in AckRecord
BY DEF Attempt, AckRecord

\* What CheckGridLossLocked may change stays well typed.
LossTypes ==
  /\ ovAge \in 0 .. OverrideInterval /\ setpointAge \in 0 .. Timeout + 1
  /\ triggered \in BOOLEAN /\ hardwareForced \in BOOLEAN /\ preForced \in Values
  /\ gridLossForced \in BOOLEAN /\ fallbackApplied \in BOOLEAN
  /\ refreshPending \in BOOLEAN /\ fbAge \in 0 .. RefreshInterval
  /\ hw \in Values /\ acked \in AckRecord

LEMMA MaintainOverrideTypes ==
  ASSUME TypeOK, NEW out \in Outcomes, override # None, MaintainOverride(out)
  PROVE  /\ ovAge' \in 0 .. OverrideInterval /\ setpointAge' \in 0 .. Timeout + 1
         /\ hw' \in Values /\ acked' \in AckRecord
<1>1. override \in Values /\ "override" \in Writers
  BY ValuesFacts DEF TypeOK, Writers
<1>2. CASE ovAge < OverrideInterval
  BY <1>2 DEF TypeOK, MaintainOverride, outputVars
<1>3. CASE ~(ovAge < OverrideInterval)
  <2>1. hw' \in Values /\ acked' \in AckRecord
    BY <1>1, <1>3, AttemptTypes DEF TypeOK, MaintainOverride
  <2>2. QED
    BY <1>3, <2>1, TimesFacts DEF TypeOK, MaintainOverride
<1>4. QED BY <1>2, <1>3

LEMMA ForceFallbackTypes ==
  ASSUME TypeOK, NEW out \in Outcomes, ForceFallback(out)
  PROVE  /\ triggered' \in BOOLEAN /\ hardwareForced' \in BOOLEAN
         /\ preForced' \in Values /\ gridLossForced' \in BOOLEAN
         /\ fallbackApplied' \in BOOLEAN /\ refreshPending' \in BOOLEAN
         /\ fbAge' \in 0 .. RefreshInterval
         /\ hw' \in Values /\ acked' \in AckRecord
<1>1. triggered' \in BOOLEAN /\ gridLossForced' \in BOOLEAN /\ preForced' \in Values
  BY ValuesFacts DEF TypeOK, ForceFallback
<1>2. CASE FallbackDue
  <2>1. hw' \in Values /\ acked' \in AckRecord
    BY <1>2, ValuesFacts, AttemptTypes
    DEF TypeOK, ForceFallback, MaintainFallback, Writers
  <2>2. QED
    BY <1>1, <1>2, <2>1, TimesFacts DEF TypeOK, ForceFallback, MaintainFallback
<1>3. CASE ~FallbackDue
  BY <1>1, <1>3 DEF TypeOK, ForceFallback, MaintainFallback, outputVars
<1>4. QED BY <1>2, <1>3

LEMMA CheckGridLossTypes ==
  ASSUME TypeOK, NEW out \in Outcomes, CheckGridLossLocked(out)
  PROVE  LossTypes'
<1>1. CASE override # None /\ MaintainOverride(out) /\ UNCHANGED <<tripVars, lossVars>>
  BY <1>1, MaintainOverrideTypes DEF TypeOK, LossTypes, tripVars, lossVars
<1>2. CASE InFallback /\ ForceFallback(out) /\ UNCHANGED <<ovAge, setpointAge>>
  BY <1>2, ForceFallbackTypes DEF TypeOK, LossTypes
<1>3. CASE UNCHANGED <<ovAge, setpointAge, tripVars, lossVars, outputVars>>
  BY <1>3 DEF TypeOK, LossTypes, tripVars, lossVars, outputVars
<1>4. QED BY <1>1, <1>2, <1>3 DEF CheckGridLossLocked

------------------------------------------------------------------------------
(* Type correctness, one lemma per thread.                                   *)

LEMMA InitTypeOK == Init => TypeOK
<1> SUFFICES ASSUME Init PROVE TypeOK
  OBVIOUS
<1>1. acked \in AckRecord
  BY ValuesFacts DEF Init, AckRecord, Writers
<1>2. /\ ovAge \in 0 .. OverrideInterval /\ fbAge \in 0 .. RefreshInterval
      /\ setpointAge \in 0 .. Timeout + 1 /\ dbusAge \in 0 .. Timeout + 1
      /\ hbAge \in 0 .. CheckInterval /\ flipAge \in 0 .. FlipCap
      /\ outageAge \in 0 .. Hold
      /\ failCount \in 0 .. FailThreshold /\ successCount \in 0 .. SuccessThreshold
  BY TimesFacts DEF Init
<1>3. QED BY <1>1, <1>2, ValuesFacts DEF Init, TypeOK

LEMMA TickTypeOK == TypeOK /\ Tick => TypeOK'
<1> SUFFICES ASSUME TypeOK, Tick PROVE TypeOK'
  OBVIOUS
<1>1. /\ ovAge' \in 0 .. OverrideInterval /\ fbAge' \in 0 .. RefreshInterval
      /\ setpointAge' \in 0 .. Timeout + 1 /\ dbusAge' \in 0 .. Timeout + 1
      /\ hbAge' \in 0 .. CheckInterval /\ flipAge' \in 0 .. FlipCap
      /\ outageAge' \in 0 .. Hold
  BY TimesFacts, OlderBounded DEF TypeOK, Tick
<1>2. QED
  BY <1>1 DEF TypeOK, Tick, tripVars, countVars, outputVars

LEMMA ControlLoopTypeOK ==
  ASSUME TypeOK, NEW out \in Outcomes, ControlLoop(out)
  PROVE  TypeOK'
<1>1. CASE MarkDbusUpdate(out)
  <2>1. LossTypes'
    BY <1>1, CheckGridLossTypes DEF MarkDbusUpdate
  <2>2. outageOpen' \in BOOLEAN
    BY <1>1 DEF MarkDbusUpdate
  <2>3. /\ dbusAge' \in 0 .. Timeout + 1 /\ flipAge' \in 0 .. FlipCap
        /\ outageAge' \in 0 .. Hold
    BY <1>1, TimesFacts DEF MarkDbusUpdate, TypeOK
  <2>4. QED
    BY <1>1, <2>1, <2>2, <2>3 DEF MarkDbusUpdate, LossTypes, TypeOK, countVars
<1>2. CASE MarkDbusInvalid
  BY <1>2, TimesFacts
  DEF MarkDbusInvalid, TypeOK, overrideVars, tripVars, lossVars, outputVars
<1>3. CASE ReadGeneration
  BY <1>3 DEF ReadGeneration, TypeOK, tripVars, outageVars, lossVars, countVars,
              outputVars
<1>4. CASE \E v \in ControlValues : WriteControl(v, out)
  <2>1. PICK v \in ControlValues : WriteControl(v, out)
    BY <1>4
  <2>2. v \in Values /\ "control" \in Writers
    BY ValuesFacts DEF Writers
  <2>3. hw' \in Values /\ acked' \in AckRecord
    <3>1. CASE dryRun
      BY <2>1, <3>1 DEF WriteControl, TypeOK, outputVars
    <3>2. CASE ~dryRun
      BY <2>1, <2>2, <3>2, AttemptTypes DEF WriteControl, TypeOK
    <3>3. QED BY <3>1, <3>2
  <2>4. /\ previous' \in Values /\ setpointAge' \in 0 .. Timeout + 1
        /\ hasValid' \in BOOLEAN /\ fallbackApplied' \in BOOLEAN
    <3>1. CASE ~dryRun /\ out = "accepted"
      BY <2>1, <2>2, <3>1, TimesFacts DEF WriteControl, MarkSetpointUpdate, TypeOK
    <3>2. CASE dryRun
      BY <2>1, <2>2, <3>2 DEF WriteControl, TypeOK
    <3>3. CASE ~dryRun /\ out # "accepted"
      BY <2>1, <3>3 DEF WriteControl, TypeOK
    <3>4. QED BY <3>1, <3>2, <3>3
  <2>5. QED
    BY <2>1, <2>3, <2>4
    DEF WriteControl, TypeOK, overrideVars, tripVars, outageVars, countVars
<1>5. CASE AdoptOutput
  BY <1>5, ValuesFacts
  DEF AdoptOutput, TypeOK, overrideVars, tripVars, outageVars, lossVars, countVars,
      outputVars
<1>6. QED BY <1>1, <1>2, <1>3, <1>4, <1>5 DEF ControlLoop

LEMMA MqttThreadTypeOK ==
  ASSUME TypeOK, NEW out \in Outcomes, MqttThread(out)
  PROVE  TypeOK'
<1>1. CASE \E v \in OverrideValues : SetOverride(v, out)
  <2>1. PICK v \in OverrideValues : SetOverride(v, out)
    BY <1>1
  <2>2. hw' \in Values /\ acked' \in AckRecord
    BY <2>1, ValuesFacts, AttemptTypes DEF SetOverride, TypeOK, Writers
  <2>3. CASE out = "accepted"
    <3>1. override' \in OverrideValues \cup {None} /\ preForced' \in Values
      BY <2>1, <2>3, ValuesFacts DEF SetOverride, ForgetEpisodes
    <3>2. /\ ovAge' \in 0 .. OverrideInterval /\ fbAge' \in 0 .. RefreshInterval
          /\ setpointAge' \in 0 .. Timeout + 1
          /\ failCount' \in 0 .. FailThreshold
          /\ successCount' \in 0 .. SuccessThreshold
      BY <2>1, <2>3, TimesFacts DEF SetOverride, ForgetEpisodes
    <3>3. QED
      BY <2>1, <2>2, <2>3, <3>1, <3>2
      DEF SetOverride, ForgetEpisodes, TypeOK, outageVars
  <2>4. CASE out # "accepted"
    BY <2>1, <2>2, <2>4
    DEF SetOverride, TypeOK, overrideVars, tripVars, lossVars, outageVars, countVars
  <2>5. QED BY <2>3, <2>4
<1>2. CASE StopOverride
  <2>1. /\ ovAge' \in 0 .. OverrideInterval /\ fbAge' \in 0 .. RefreshInterval
        /\ failCount' \in 0 .. FailThreshold
        /\ successCount' \in 0 .. SuccessThreshold
    BY <1>2, TimesFacts DEF StopOverride, ForgetEpisodes
  <2>2. QED
    BY <1>2, <2>1, ValuesFacts
    DEF StopOverride, ForgetEpisodes, TypeOK, outageVars, outputVars
<1>3. CASE \E enabled \in BOOLEAN : SetDryRun(enabled)
  BY <1>3
  DEF SetDryRun, TypeOK, overrideVars, tripVars, outageVars, lossVars, countVars,
      outputVars
<1>4. QED BY <1>1, <1>2, <1>3 DEF MqttThread

LEMMA MeterLossTypes ==
  ASSUME TypeOK, NEW out \in Outcomes, MeterLossHeartbeat(out)
  PROVE  /\ triggered' \in BOOLEAN /\ hardwareForced' \in BOOLEAN
         /\ preForced' \in Values /\ gridLossForced' \in BOOLEAN
         /\ fallbackApplied' \in BOOLEAN /\ refreshPending' \in BOOLEAN
         /\ fbAge' \in 0 .. RefreshInterval
         /\ outageOpen' \in BOOLEAN /\ outageAge' \in 0 .. Hold
         /\ failCount' \in 0 .. FailThreshold
         /\ successCount' \in 0 .. SuccessThreshold
         /\ hw' \in Values /\ acked' \in AckRecord
<1>1. CASE Qualified(out) /\ successCount + 1 >= SuccessThreshold
  <2>1. hw' \in Values /\ acked' \in AckRecord /\ fbAge' \in 0 .. RefreshInterval
        /\ fallbackApplied' \in BOOLEAN
    <3>1. CASE FallbackDue
      <4>1. Attempt(Fallback, "fallback", out) /\ fbAge' = 0 /\ fallbackApplied'
        BY <1>1, <3>1 DEF MeterLossHeartbeat
      <4>2. QED
        BY <4>1, ValuesFacts, TimesFacts, AttemptTypes DEF TypeOK, Writers
    <3>2. CASE ~FallbackDue
      BY <1>1, <3>2 DEF MeterLossHeartbeat, TypeOK, outputVars
    <3>3. QED BY <3>1, <3>2
  <2>2. failCount' \in 0 .. FailThreshold /\ successCount' \in 0 .. SuccessThreshold
        /\ outageAge' \in 0 .. Hold
    BY <1>1, TimesFacts DEF MeterLossHeartbeat
  <2>3. QED
    BY <1>1, <2>1, <2>2, ValuesFacts DEF MeterLossHeartbeat, TypeOK
<1>2. CASE ~(Qualified(out) /\ successCount + 1 >= SuccessThreshold)
  <2>1. ForceFallback(out) /\ UNCHANGED <<outageOpen, outageAge>>
    BY <1>2 DEF MeterLossHeartbeat
  <2>2. failCount' = 0 /\ successCount' \in 0 .. SuccessThreshold
    BY <1>2, TimesFacts DEF MeterLossHeartbeat, TypeOK
  <2>3. QED
    BY <2>1, <2>2, ForceFallbackTypes, TimesFacts DEF TypeOK
<1>3. QED BY <1>1, <1>2

LEMMA LoopHeartbeatTypes ==
  ASSUME TypeOK, NEW out \in Outcomes, LoopHeartbeat(out)
  PROVE  /\ triggered' \in BOOLEAN /\ hardwareForced' \in BOOLEAN
         /\ preForced' \in Values /\ fallbackApplied' \in BOOLEAN
         /\ failCount' \in 0 .. FailThreshold
         /\ successCount' \in 0 .. SuccessThreshold
         /\ hw' \in Values /\ acked' \in AckRecord
<1>1. /\ failCount' \in 0 .. FailThreshold
      /\ successCount' \in 0 .. SuccessThreshold
  BY TimesFacts DEF LoopHeartbeat, CountCheck, AtMost, TypeOK
<1>2. CASE ApplyFailsafe(out)
  <2>1. CASE hardwareForced
    BY <1>1, <1>2, <2>1 DEF ApplyFailsafe, TypeOK, outputVars
  <2>2. CASE ~hardwareForced
    <3>1. hw' \in Values /\ acked' \in AckRecord
      BY <1>2, <2>2, ValuesFacts, AttemptTypes DEF ApplyFailsafe, TypeOK, Writers
    <3>2. QED BY <1>1, <1>2, <2>2, <3>1 DEF ApplyFailsafe, TypeOK
  <2>3. QED BY <2>1, <2>2
<1>3. CASE RestoreSetpoint(out)
  <2>1. hw' \in Values /\ acked' \in AckRecord
    <3>1. CASE hardwareForced
      BY <1>3, <3>1, AttemptTypes DEF RestoreSetpoint, TypeOK, Writers
    <3>2. CASE ~hardwareForced
      BY <1>3, <3>2 DEF RestoreSetpoint, TypeOK, outputVars
    <3>3. QED BY <3>1, <3>2
  <2>2. QED
    BY <1>1, <1>3, <2>1, ValuesFacts DEF RestoreSetpoint, TypeOK, tripVars
<1>4. CASE UNCHANGED <<tripVars, fallbackApplied, outputVars>>
  BY <1>1, <1>4 DEF TypeOK, tripVars, outputVars
<1>5. QED BY <1>2, <1>3, <1>4 DEF LoopHeartbeat

LEMMA WatchdogThreadTypeOK ==
  ASSUME TypeOK, NEW out \in Outcomes, WatchdogThread(out)
  PROVE  TypeOK'
<1>1. CASE CheckGridLoss(out)
  BY <1>1, CheckGridLossTypes
  DEF CheckGridLoss, LossTypes, TypeOK, outageVars, countVars
<1>2. CASE CheckHeartbeat(out)
  <2> USE <1>2 DEF CheckHeartbeat
  <2>1. CASE override # None
    BY <2>1, MaintainOverrideTypes, TimesFacts
    DEF TypeOK, tripVars, lossVars, countVars
  <2>2. CASE override = None /\ dryRun
    BY <2>2, TimesFacts DEF TypeOK, tripVars, lossVars, countVars, outputVars
  <2>3. CASE override = None /\ ~dryRun /\ MeterLossHeartbeat(out)
    BY <2>3, MeterLossTypes, TimesFacts DEF TypeOK
  <2>4. CASE override = None /\ ~dryRun /\ LoopHeartbeat(out)
    <3>1. UNCHANGED <<gridLossForced, refreshPending, fbAge, outageOpen, outageAge>>
      BY <2>4 DEF LoopHeartbeat
    <3>2. QED BY <2>4, <3>1, LoopHeartbeatTypes, TimesFacts DEF TypeOK
  <2>5. QED BY <2>1, <2>2, <2>3, <2>4
<1>3. QED BY <1>1, <1>2 DEF WatchdogThread

LEMMA NextTypeOK == TypeOK /\ [Next]_wdVars => TypeOK'
<1> SUFFICES ASSUME TypeOK, [Next]_wdVars PROVE TypeOK'
  OBVIOUS
<1>1. CASE UNCHANGED wdVars
  BY <1>1 DEF wdVars, TypeOK
<1>2. CASE Tick
  BY <1>2, TickTypeOK
<1>3. ASSUME NEW out \in Outcomes,
             ControlLoop(out) \/ MqttThread(out) \/ WatchdogThread(out)
      PROVE  TypeOK'
  BY <1>3, ControlLoopTypeOK, MqttThreadTypeOK, WatchdogThreadTypeOK
<1>4. QED BY <1>1, <1>2, <1>3 DEF Next

\* Every counter stays within its threshold, every age within its interval and
\* every setpoint kept for a restore, held or acknowledged is one that some
\* writer may command.
THEOREM TypeCorrect == Spec => []TypeOK
BY InitTypeOK, NextTypeOK, PTL DEF Spec

------------------------------------------------------------------------------
(* The inductive invariant.                                                  *)

\* An override leaves no automatic episode behind it.
OverrideForgets ==
  override # None => ~triggered /\ ~hardwareForced /\ ~gridLossForced

ForcedIsTriggered == hardwareForced => triggered

\* A standing zero also means that no fallback counts as applied: adopting the
\* output cannot move the baseline away from the saved value.
ZeroStands == hardwareForced /\ ~gridLossForced => ~fallbackApplied

\* An acknowledged zero is either still the loop's failsafe or waits for the
\* fallback to replace it.
ZeroIsForced == acked.by = "failsafe" => hardwareForced \/ gridLossForced

\* Good checks are only counted from the last change of validity on.
Evidence ==
  /\ telemetryInvalid => successCount = 0
  /\ successCount >= 1 => flipAge >= hbAge

IInv ==
  /\ TypeOK
  /\ OverrideOwnsOutput /\ OverrideForgets
  /\ ForcedIsTriggered
  /\ EpisodeConsistent /\ FallbackConfirmed
  /\ RestoreIsBaseline /\ ZeroStands /\ ZeroIsForced
  /\ Evidence

\* IInv without types and counters: the part that speaks of ownership.
Ownership ==
  /\ OverrideOwnsOutput /\ OverrideForgets
  /\ ForcedIsTriggered
  /\ EpisodeConsistent /\ FallbackConfirmed
  /\ RestoreIsBaseline /\ ZeroStands /\ ZeroIsForced

LEMMA OwnershipUnchanged ==
  ASSUME Ownership,
         UNCHANGED <<override, acked, triggered, hardwareForced, preForced,
                     gridLossForced, outageOpen, fallbackApplied, previous>>
  PROVE  Ownership'
BY DEF Ownership, OverrideOwnsOutput, OverrideForgets, ForcedIsTriggered,
       EpisodeConsistent, FallbackConfirmed, RestoreIsBaseline, ZeroStands, ZeroIsForced

\* Refreshing an override acknowledges that override or nothing.
LEMMA MaintainOverrideAcks ==
  ASSUME IInv, NEW out \in Outcomes, override # None, MaintainOverride(out)
  PROVE  acked' = acked
BY DEF IInv, MaintainOverride, Attempt, OverrideOwnsOutput, outputVars

\* Starting or continuing the meter-loss fallback: a zero that was accepted
\* before never counts as an accepted fallback.
LEMMA ForceFallbackOwns ==
  ASSUME IInv, NEW out \in Outcomes, InFallback, ForceFallback(out),
         UNCHANGED <<override, outageOpen, previous>>
  PROVE  Ownership'
<1>1. override = None /\ HoldEnabled
  BY TimesFacts DEF InFallback, PolicyActive
<1>2. outageOpen /\ (gridLossForced \/ LossDetected)
  BY DEF IInv, InFallback, EpisodeConsistent, LossDetected
<1>3. preForced' = Zero
  BY <1>2 DEF IInv, EpisodeConsistent, ForceFallback
<1>4. hardwareForced' => acked' = [by |-> "fallback", value |-> Fallback]
  <2>1. CASE FallbackDue /\ out = "accepted"
    BY <2>1 DEF ForceFallback, MaintainFallback, Attempt
  <2>2. CASE FallbackDue /\ out # "accepted"
    BY <2>2, <1>2 DEF IInv, FallbackConfirmed, ForceFallback, MaintainFallback,
                      Attempt, Entering
  <2>3. CASE ~FallbackDue
    BY <2>3, <1>2 DEF IInv, FallbackConfirmed, ForceFallback, MaintainFallback,
                      FallbackDue, Entering, outputVars
  <2>4. QED BY <2>1, <2>2, <2>3
<1>5. QED
  BY <1>1, <1>2, <1>3, <1>4
  DEF ForceFallback, Ownership, OverrideOwnsOutput, OverrideForgets,
      ForcedIsTriggered, EpisodeConsistent, FallbackConfirmed, RestoreIsBaseline,
      ZeroStands, ZeroIsForced

LEMMA CheckGridLossOwns ==
  ASSUME IInv, NEW out \in Outcomes, CheckGridLossLocked(out),
         UNCHANGED <<override, outageOpen, previous>>
  PROVE  Ownership'
<1>1. CASE override # None /\ MaintainOverride(out) /\ UNCHANGED <<tripVars, lossVars>>
  BY <1>1, MaintainOverrideAcks, OwnershipUnchanged
  DEF IInv, Ownership, tripVars, lossVars
<1>2. CASE InFallback /\ ForceFallback(out)
  BY <1>2, ForceFallbackOwns
<1>3. CASE UNCHANGED <<ovAge, setpointAge, tripVars, lossVars, outputVars>>
  BY <1>3, OwnershipUnchanged DEF IInv, Ownership, tripVars, lossVars, outputVars
<1>4. QED BY <1>1, <1>2, <1>3 DEF CheckGridLossLocked

LEMMA ControlLoopOwns ==
  ASSUME IInv, NEW out \in Outcomes, ControlLoop(out)
  PROVE  Ownership'
<1>1. CASE MarkDbusUpdate(out)
  <2>1. CASE InFallback /\ ForceFallback(out)
    <3>1. outageOpen /\ gridLossForced'
      BY <2>1 DEF IInv, InFallback, EpisodeConsistent, LossDetected, ForceFallback
    <3>2. UNCHANGED <<override, outageOpen, previous>>
      BY <1>1, <3>1 DEF IInv, TypeOK, MarkDbusUpdate
    <3>3. QED BY <2>1, <3>2, ForceFallbackOwns
  <2>2. CASE ~(InFallback /\ ForceFallback(out))
    <3>1. acked' = acked /\ UNCHANGED <<tripVars, lossVars>>
      BY <1>1, <2>2, MaintainOverrideAcks
      DEF MarkDbusUpdate, CheckGridLossLocked, outputVars
    <3>2. QED
      BY <1>1, <3>1
      DEF IInv, MarkDbusUpdate, Ownership, OverrideOwnsOutput, OverrideForgets,
          ForcedIsTriggered, EpisodeConsistent, FallbackConfirmed, RestoreIsBaseline,
          ZeroStands, ZeroIsForced, tripVars, lossVars
  <2>3. QED BY <2>1, <2>2
<1>2. CASE MarkDbusInvalid
  BY <1>2
  DEF IInv, MarkDbusInvalid, Ownership, OverrideOwnsOutput, OverrideForgets,
      ForcedIsTriggered, EpisodeConsistent, FallbackConfirmed, RestoreIsBaseline,
      ZeroStands, ZeroIsForced, overrideVars, tripVars, lossVars, outputVars
<1>3. CASE ReadGeneration
  BY <1>3, OwnershipUnchanged
  DEF IInv, Ownership, ReadGeneration, tripVars, outageVars, lossVars, outputVars
<1>4. CASE \E v \in ControlValues : WriteControl(v, out)
  <2>1. override = None /\ ~triggered /\ ~hardwareForced /\ ~gridLossForced
    BY <1>4 DEF IInv, WriteControl, MayWrite, ForcedIsTriggered, EpisodeConsistent
  <2>2. UNCHANGED <<override, triggered, hardwareForced, gridLossForced>>
    BY <1>4 DEF WriteControl, overrideVars, tripVars
  <2>3. acked'.by # "failsafe"
    BY <1>4, <2>1 DEF IInv, ZeroIsForced, WriteControl, Attempt, outputVars
  <2>4. QED
    BY <2>1, <2>2, <2>3
    DEF Ownership, OverrideOwnsOutput, OverrideForgets, ForcedIsTriggered,
        EpisodeConsistent, FallbackConfirmed, RestoreIsBaseline, ZeroStands,
        ZeroIsForced
<1>5. CASE AdoptOutput
  <2>1. UNCHANGED <<overrideVars, tripVars, outageVars, lossVars, outputVars>>
    BY <1>5 DEF AdoptOutput
  <2>2. hardwareForced /\ ~gridLossForced => previous' = previous
    BY <1>5 DEF IInv, AdoptOutput, ForcedIsTriggered, OverrideForgets, ZeroStands
  <2>3. QED
    BY <2>1, <2>2
    DEF IInv, Ownership, OverrideOwnsOutput, OverrideForgets, ForcedIsTriggered,
        EpisodeConsistent, FallbackConfirmed, RestoreIsBaseline, ZeroStands,
        ZeroIsForced,
        overrideVars, tripVars, outageVars, lossVars, outputVars
<1>6. QED BY <1>1, <1>2, <1>3, <1>4, <1>5 DEF ControlLoop

LEMMA MqttThreadOwns ==
  ASSUME IInv, NEW out \in Outcomes, MqttThread(out)
  PROVE  Ownership'
<1>1. CASE \E v \in OverrideValues : SetOverride(v, out)
  <2>1. PICK v \in OverrideValues : SetOverride(v, out)
    BY <1>1
  <2>2. CASE out = "accepted"
    BY <2>1, <2>2, ValuesFacts
    DEF SetOverride, ForgetEpisodes, Attempt, Ownership, OverrideOwnsOutput,
        OverrideForgets, ForcedIsTriggered, EpisodeConsistent, FallbackConfirmed,
        RestoreIsBaseline, ZeroStands, ZeroIsForced
  <2>3. CASE out # "accepted"
    BY <2>1, <2>3, OwnershipUnchanged
    DEF IInv, Ownership, SetOverride, Attempt, overrideVars, tripVars, lossVars,
        outageVars
  <2>4. QED BY <2>2, <2>3
<1>2. CASE StopOverride
  BY <1>2
  DEF IInv, StopOverride, outputVars, ForgetEpisodes, Ownership,
      OverrideOwnsOutput, OverrideForgets,
      ForcedIsTriggered, EpisodeConsistent, FallbackConfirmed, RestoreIsBaseline,
      ZeroStands, ZeroIsForced
<1>3. CASE \E enabled \in BOOLEAN : SetDryRun(enabled)
  BY <1>3, OwnershipUnchanged
  DEF IInv, Ownership, SetDryRun, overrideVars, tripVars, outageVars, lossVars,
      outputVars
<1>4. QED BY <1>1, <1>2, <1>3 DEF MqttThread

\* The heartbeat during a meter-loss episode.
LEMMA MeterLossOwns ==
  ASSUME IInv, NEW out \in Outcomes, MeterLossHeartbeat(out),
         UNCHANGED <<override, previous>>
  PROVE  Ownership'
<1>1. CASE ForceFallback(out) /\ UNCHANGED <<outageOpen, outageAge>>
  BY <1>1, ForceFallbackOwns DEF MeterLossHeartbeat
<1>2. CASE ~gridLossForced' /\ ~triggered' /\ ~hardwareForced'
  <2>1. override' = None
    BY DEF MeterLossHeartbeat, InFallback, PolicyActive
  <2>2. acked'.by # "failsafe"
    <3>1. Qualified(out)
      BY <1>2 DEF MeterLossHeartbeat, ForceFallback
    <3>2. CASE FallbackDue
      BY <1>2, <3>1, <3>2 DEF MeterLossHeartbeat, ForceFallback, Qualified, Attempt
    <3>3. CASE ~FallbackDue
      <4>1. gridLossForced
        BY <3>1, <3>3 DEF MeterLossHeartbeat, InFallback, FallbackDue, Entering
      <4>2. QED
        BY <1>2, <3>1, <3>3, <4>1
        DEF IInv, FallbackConfirmed, MeterLossHeartbeat, ForceFallback, Qualified,
            outputVars
    <3>4. QED BY <3>2, <3>3
  <2>3. QED
    BY <1>2, <2>1, <2>2
    DEF Ownership, OverrideOwnsOutput, OverrideForgets, ForcedIsTriggered,
        EpisodeConsistent, FallbackConfirmed, RestoreIsBaseline, ZeroStands,
        ZeroIsForced
<1>3. QED BY <1>1, <1>2 DEF MeterLossHeartbeat

\* Outside an outage: the zero takes the baseline it read, the restore gives the
\* same value back.
LEMMA LoopHeartbeatOwns ==
  ASSUME IInv, NEW out \in Outcomes, LoopHeartbeat(out), override = None, ~dryRun,
         UNCHANGED <<override, previous>>
  PROVE  Ownership'
<1>1. ~gridLossForced /\ ~gridLossForced' /\ override' = None
  BY TimesFacts DEF IInv, LoopHeartbeat, InFallback, PolicyActive, EpisodeConsistent
<1>2. CASE ApplyFailsafe(out)
  <2>1. CASE hardwareForced
    BY <1>1, <1>2, <2>1
    DEF IInv, ApplyFailsafe, Ownership, OverrideOwnsOutput, OverrideForgets,
        ForcedIsTriggered, EpisodeConsistent, FallbackConfirmed, RestoreIsBaseline,
        ZeroStands, ZeroIsForced, outputVars
  <2>2. CASE ~hardwareForced
    BY <1>1, <1>2, <2>2
    DEF IInv, ApplyFailsafe, Attempt, Ownership, OverrideOwnsOutput, OverrideForgets,
        ForcedIsTriggered, EpisodeConsistent, FallbackConfirmed, RestoreIsBaseline,
        ZeroStands, ZeroIsForced
  <2>3. QED BY <2>1, <2>2
<1>3. CASE RestoreSetpoint(out)
  <2>1. CASE hardwareForced /\ out # "accepted"
    BY <1>1, <1>3, <2>1
    DEF IInv, RestoreSetpoint, Attempt, Ownership, OverrideOwnsOutput,
        OverrideForgets, ForcedIsTriggered, EpisodeConsistent, FallbackConfirmed,
        RestoreIsBaseline, ZeroStands, ZeroIsForced, tripVars
  <2>2. CASE ~(hardwareForced /\ out # "accepted")
    BY <1>1, <1>3, <2>2
    DEF IInv, RestoreSetpoint, Attempt, outputVars, Ownership, OverrideOwnsOutput,
        OverrideForgets,
        ForcedIsTriggered, EpisodeConsistent, FallbackConfirmed, RestoreIsBaseline,
        ZeroStands, ZeroIsForced
  <2>3. QED BY <2>1, <2>2
<1>4. CASE UNCHANGED <<tripVars, fallbackApplied, outputVars>>
  BY <1>1, <1>4
  DEF IInv, Ownership, OverrideOwnsOutput, OverrideForgets, ForcedIsTriggered,
      EpisodeConsistent, FallbackConfirmed, RestoreIsBaseline, ZeroStands,
      ZeroIsForced, tripVars,
      outputVars
<1>5. QED BY <1>2, <1>3, <1>4 DEF LoopHeartbeat

LEMMA WatchdogThreadOwns ==
  ASSUME IInv, NEW out \in Outcomes, WatchdogThread(out)
  PROVE  Ownership'
<1>1. CASE CheckGridLoss(out)
  BY <1>1, CheckGridLossOwns DEF CheckGridLoss, outageVars
<1>2. CASE CheckHeartbeat(out)
  <2>1. UNCHANGED <<override, previous>>
    BY <1>2 DEF CheckHeartbeat
  <2>2. CASE override # None
    BY <1>2, <2>1, <2>2, MaintainOverrideAcks, OwnershipUnchanged
    DEF IInv, Ownership, CheckHeartbeat, tripVars, lossVars
  <2>3. CASE override = None /\ dryRun
    BY <1>2, <2>1, <2>3, OwnershipUnchanged
    DEF IInv, Ownership, CheckHeartbeat, tripVars, lossVars, outputVars
  <2>4. CASE override = None /\ ~dryRun
    BY <1>2, <2>1, <2>4, MeterLossOwns, LoopHeartbeatOwns DEF CheckHeartbeat
  <2>5. QED BY <2>2, <2>3, <2>4
<1>3. QED BY <1>1, <1>2 DEF WatchdogThread

LEMMA NextOwnership == IInv /\ [Next]_wdVars => Ownership'
<1> SUFFICES ASSUME IInv, [Next]_wdVars PROVE Ownership'
  OBVIOUS
<1>1. CASE UNCHANGED wdVars
  BY <1>1, OwnershipUnchanged DEF IInv, Ownership, wdVars
<1>2. CASE Tick
  BY <1>2, OwnershipUnchanged DEF IInv, Ownership, Tick, tripVars, outputVars
<1>3. ASSUME NEW out \in Outcomes,
             ControlLoop(out) \/ MqttThread(out) \/ WatchdogThread(out)
      PROVE  Ownership'
  BY <1>3, ControlLoopOwns, MqttThreadOwns, WatchdogThreadOwns
<1>4. QED BY <1>1, <1>2, <1>3 DEF Next

LEMMA NextEvidence == IInv /\ [Next]_wdVars => Evidence'
<1> SUFFICES ASSUME IInv, [Next]_wdVars PROVE Evidence'
  OBVIOUS
<1>1. CASE UNCHANGED wdVars
  BY <1>1 DEF IInv, Evidence, wdVars
<1>2. CASE Tick
  BY <1>2, TimesFacts DEF IInv, TypeOK, Evidence, Tick, Older, countVars
<1>3. ASSUME NEW out \in Outcomes, ControlLoop(out) PROVE Evidence'
  <2>1. CASE MarkDbusUpdate(out)
    BY <2>1, TimesFacts DEF IInv, TypeOK, Evidence, MarkDbusUpdate, countVars
  <2>2. CASE MarkDbusInvalid
    BY <2>2 DEF Evidence, MarkDbusInvalid
  <2>3. CASE ~MarkDbusUpdate(out) /\ ~MarkDbusInvalid
    <3>1. UNCHANGED <<telemetryInvalid, flipAge, hbAge, successCount>>
      BY <1>3, <2>3
      DEF ControlLoop, ReadGeneration, WriteControl, AdoptOutput, outageVars, countVars
    <3>2. QED BY <3>1 DEF IInv, Evidence
  <2>4. QED BY <2>1, <2>2, <2>3
<1>4. ASSUME NEW out \in Outcomes, MqttThread(out) PROVE Evidence'
  <2>1. UNCHANGED <<telemetryInvalid, flipAge, hbAge>>
    BY <1>4 DEF MqttThread, SetOverride, StopOverride, SetDryRun, outageVars
  <2>2. successCount' = successCount \/ successCount' = 0
    BY <1>4
    DEF MqttThread, SetOverride, StopOverride, SetDryRun, ForgetEpisodes, countVars
  <2>3. QED BY <2>1, <2>2 DEF IInv, Evidence
<1>5. ASSUME NEW out \in Outcomes, WatchdogThread(out) PROVE Evidence'
  <2>1. CASE CheckGridLoss(out)
    BY <2>1 DEF IInv, Evidence, CheckGridLoss, outageVars, countVars
  <2>2. CASE CheckHeartbeat(out)
    <3>1. hbAge' = 0 /\ flipAge' = flipAge /\ flipAge \in Nat
          /\ telemetryInvalid' = telemetryInvalid
      BY <2>2, TimesFacts DEF CheckHeartbeat, IInv, TypeOK
    <3>2. telemetryInvalid => successCount' = 0
      BY <2>2
      DEF CheckHeartbeat, IInv, Evidence, MeterLossHeartbeat, Qualified,
          LoopHeartbeat, CountCheck, countVars
    <3>3. QED BY <3>1, <3>2 DEF Evidence
  <2>3. QED BY <1>5, <2>1, <2>2 DEF WatchdogThread
<1>6. QED BY <1>1, <1>2, <1>3, <1>4, <1>5 DEF Next

LEMMA InitIInv == Init => IInv
BY InitTypeOK
DEF Init, IInv, OverrideOwnsOutput, OverrideForgets, ForcedIsTriggered,
    EpisodeConsistent, FallbackConfirmed, RestoreIsBaseline, ZeroStands,
    ZeroIsForced, Evidence

LEMMA NextIInv == IInv /\ [Next]_wdVars => IInv'
BY NextTypeOK, NextOwnership, NextEvidence DEF IInv, Ownership

\* The strengthening behind every theorem below: who acknowledged what agrees
\* with the episode flags, and recovery counts agree with the telemetry.
THEOREM Inductive == Spec => []IInv
BY InitIInv, NextIInv, PTL DEF Spec

\* While an override is in force it is the last command acknowledged.
THEOREM OverrideOwns == Spec => []OverrideOwnsOutput
<1>1. IInv => OverrideOwnsOutput
  BY DEF IInv
<1>2. QED BY <1>1, Inductive, PTL

\* A meter-loss episode reported as applied rests on an acknowledged -10 W.
THEOREM FallbackIsConfirmed == Spec => []FallbackConfirmed
<1>1. IInv => FallbackConfirmed
  BY DEF IInv
<1>2. QED BY <1>1, Inductive, PTL

\* What a restore gives back is the controller's present baseline.
THEOREM RestoreKeepsBaseline == Spec => []RestoreIsBaseline
<1>1. IInv => RestoreIsBaseline
  BY DEF IInv
<1>2. QED BY <1>1, Inductive, PTL

\* A meter-loss episode has an outage to end it and nothing to replay.
THEOREM EpisodesConsistent == Spec => []EpisodeConsistent
<1>1. IInv => EpisodeConsistent
  BY DEF IInv
<1>2. QED BY <1>1, Inductive, PTL

------------------------------------------------------------------------------
(* Action properties.                                                        *)

\* The steps that end a triggered episode without a new override.
LEMMA RecoverySteps ==
  ASSUME IInv, [Next]_wdVars, triggered, ~triggered', override' = None
  PROVE  /\ hbAge >= CheckInterval /\ successCount >= 1
         /\ ~telemetryInvalid
<1>1. override = None
  BY DEF IInv, OverrideForgets
<1>2. PICK out \in Outcomes : CheckHeartbeat(out)
  <2>1. ~UNCHANGED wdVars /\ ~Tick
    BY DEF wdVars, Tick, tripVars
  <2>2. ASSUME NEW out \in Outcomes PROVE ~ControlLoop(out)
    BY DEF ControlLoop, MarkDbusUpdate, MarkDbusInvalid, ReadGeneration, WriteControl,
           AdoptOutput, CheckGridLossLocked, ForceFallback, tripVars
  <2>3. ASSUME NEW out \in Outcomes PROVE ~MqttThread(out)
    BY <1>1, ValuesFacts DEF MqttThread, SetOverride, StopOverride, SetDryRun, tripVars
  <2>4. ASSUME NEW out \in Outcomes PROVE ~CheckGridLoss(out)
    BY DEF CheckGridLoss, CheckGridLossLocked, ForceFallback, tripVars
  <2>5. QED BY <2>1, <2>2, <2>3, <2>4 DEF Next, WatchdogThread
<1>3. CASE MeterLossHeartbeat(out)
  BY <1>2, <1>3, TimesFacts
  DEF CheckHeartbeat, IInv, TypeOK, MeterLossHeartbeat, ForceFallback, Qualified
<1>4. CASE LoopHeartbeat(out)
  <2>1. successCount' >= SuccessThreshold
    BY <1>4 DEF LoopHeartbeat, ApplyFailsafe, tripVars
  <2>2. QED
    BY <1>2, <1>4, <2>1, TimesFacts
    DEF CheckHeartbeat, IInv, TypeOK, LoopHeartbeat, CountCheck, AtMost
<1>5. QED BY <1>1, <1>2, <1>3, <1>4 DEF CheckHeartbeat, tripVars

\* The watchdog re-arms by itself only on evidence at least a check interval old.
THEOREM RecoveryEvidence == Spec => RecoveryHasEvidence
<1>1. ASSUME IInv, [Next]_wdVars
      PROVE  [triggered /\ ~triggered' /\ override' = None
                => ~telemetryInvalid /\ flipAge >= CheckInterval]_wdVars
  <2>1. ASSUME triggered, ~triggered', override' = None
        PROVE  ~telemetryInvalid /\ flipAge >= CheckInterval
    BY <1>1, <2>1, RecoverySteps, TimesFacts DEF IInv, TypeOK, Evidence
  <2>2. QED BY <2>1
<1>2. QED BY <1>1, Inductive, PTL DEF Spec, RecoveryHasEvidence

\* Ending a meter-loss episode without an override leaves the accepted -10 W.
THEOREM NoReplay == Spec => NoReplayAfterMeterLoss
<1>1. ASSUME IInv, [Next]_wdVars, gridLossForced, ~gridLossForced', override' = None
      PROVE  acked' = [by |-> "fallback", value |-> Fallback]
  <2>1. override = None
    BY <1>1 DEF IInv, OverrideForgets
  <2>2. PICK out \in Outcomes : CheckHeartbeat(out)
    <3>1. ~UNCHANGED wdVars /\ ~Tick
      BY <1>1 DEF wdVars, Tick
    <3>2. ASSUME NEW out \in Outcomes PROVE ~ControlLoop(out)
      BY <1>1
      DEF ControlLoop, MarkDbusUpdate, MarkDbusInvalid, ReadGeneration, WriteControl,
          AdoptOutput, CheckGridLossLocked, ForceFallback, lossVars
    <3>3. ASSUME NEW out \in Outcomes PROVE ~MqttThread(out)
      BY <1>1, <2>1, ValuesFacts
      DEF MqttThread, SetOverride, StopOverride, SetDryRun, lossVars
    <3>4. ASSUME NEW out \in Outcomes PROVE ~CheckGridLoss(out)
      BY <1>1 DEF CheckGridLoss, CheckGridLossLocked, ForceFallback, lossVars
    <3>5. QED BY <1>1, <3>1, <3>2, <3>3, <3>4 DEF Next, WatchdogThread
  <2>3. MeterLossHeartbeat(out) /\ Qualified(out)
    BY <1>1, <2>1, <2>2
    DEF CheckHeartbeat, LoopHeartbeat, MeterLossHeartbeat, ForceFallback, lossVars
  <2>4. CASE FallbackDue
    BY <1>1, <2>3, <2>4
    DEF MeterLossHeartbeat, ForceFallback, Qualified, Attempt
  <2>5. CASE ~FallbackDue
    BY <1>1, <2>3, <2>5
    DEF IInv, FallbackConfirmed, MeterLossHeartbeat, ForceFallback, Qualified,
        outputVars
  <2>6. QED BY <2>4, <2>5
<1>2. ASSUME IInv, [Next]_wdVars
      PROVE  [gridLossForced /\ ~gridLossForced' /\ override' = None
                => acked' = [by |-> "fallback", value |-> Fallback]]_wdVars
  BY <1>1, <1>2
<1>3. QED BY <1>2, Inductive, PTL DEF Spec, NoReplayAfterMeterLoss

\* In DRY whatever reaches the inverter is an operator's command.
THEOREM DryIsQuiet == Spec => DrySuppressesAutomatic
<1>1. ASSUME IInv, [Next]_wdVars, dryRun
      PROVE  hw' = hw \/ hw' \in OverrideValues
  <2>1. override # None => override \in OverrideValues
    BY <1>1 DEF IInv, TypeOK
  <2>2. ASSUME NEW out \in Outcomes, override # None, MaintainOverride(out)
        PROVE  hw' = hw \/ hw' \in OverrideValues
    BY <2>1, <2>2 DEF MaintainOverride, Attempt, outputVars
  <2>3. ASSUME NEW out \in Outcomes, CheckGridLossLocked(out)
        PROVE  hw' = hw \/ hw' \in OverrideValues
    BY <1>1, <2>2, <2>3 DEF CheckGridLossLocked, InFallback, PolicyActive, outputVars
  <2>4. CASE UNCHANGED wdVars \/ Tick
    BY <2>4 DEF wdVars, Tick, outputVars
  <2>5. ASSUME NEW out \in Outcomes, ControlLoop(out)
        PROVE  hw' = hw \/ hw' \in OverrideValues
    BY <1>1, <2>3, <2>5
    DEF ControlLoop, MarkDbusUpdate, MarkDbusInvalid, ReadGeneration, WriteControl,
        AdoptOutput, outputVars
  <2>6. ASSUME NEW out \in Outcomes, MqttThread(out)
        PROVE  hw' = hw \/ hw' \in OverrideValues
    BY <2>6 DEF MqttThread, SetOverride, StopOverride, SetDryRun, Attempt, outputVars
  <2>7. ASSUME NEW out \in Outcomes, WatchdogThread(out)
        PROVE  hw' = hw \/ hw' \in OverrideValues
    BY <1>1, <2>2, <2>3, <2>7
    DEF WatchdogThread, CheckGridLoss, CheckHeartbeat, outputVars
  <2>8. QED BY <1>1, <2>4, <2>5, <2>6, <2>7 DEF Next
<1>2. ASSUME IInv, [Next]_wdVars
      PROVE  [dryRun /\ hw' # hw => hw' \in OverrideValues]_wdVars
  BY <1>1, <1>2
<1>3. QED BY <1>2, Inductive, PTL DEF Spec, DrySuppressesAutomatic

------------------------------------------------------------------------------
(* Refinement of SetpointArbiter.                                            *)

arbiterVars == <<Owner, acked>>

LEMMA OwnerCases ==
  ASSUME IInv
  PROVE  /\ Owner = "override" <=> override # None
         /\ Owner = "fallback" <=> gridLossForced
         /\ Owner = "failsafe" <=> triggered /\ ~gridLossForced
         /\ Owner = "control" <=> override = None /\ ~triggered
BY DEF IInv, Owner, OverrideForgets, EpisodeConsistent, TypeOK

\* Entering or maintaining the fallback is the abstract LoseMeter.
LEMMA ForceFallbackRefines ==
  ASSUME IInv, IInv', NEW out \in Outcomes, InFallback, ForceFallback(out),
         override' = override
  PROVE  Arbiter!LoseMeter
<1>1. Owner # "override" /\ Owner' = "fallback"
  BY OwnerCases DEF InFallback, PolicyActive, Owner, ForceFallback
<1>2. Owner \in {"control", "failsafe", "fallback"}
  BY <1>1 DEF Owner
<1>3. acked' = [by |-> "fallback", value |-> Fallback] \/ acked' = acked
  BY DEF ForceFallback, MaintainFallback, Attempt, outputVars
<1>4. QED BY <1>1, <1>2, <1>3 DEF Arbiter!LoseMeter, Arbiter!Acknowledged

LEMMA CheckGridLossRefines ==
  ASSUME IInv, IInv', NEW out \in Outcomes, CheckGridLossLocked(out),
         override' = override
  PROVE  Arbiter!LoseMeter \/ UNCHANGED arbiterVars
<1>1. CASE InFallback /\ ForceFallback(out)
  BY <1>1, ForceFallbackRefines
<1>2. CASE ~(InFallback /\ ForceFallback(out))
  BY <1>2, MaintainOverrideAcks
  DEF CheckGridLossLocked, arbiterVars, Owner, tripVars, lossVars, outputVars
<1>3. QED BY <1>1, <1>2

\* Of the control loop's steps only an accepted write, and the loss it may find
\* when it reports a reading, are visible.
LEMMA ControlLoopRefines ==
  ASSUME IInv, IInv', NEW out \in Outcomes, ControlLoop(out)
  PROVE  [Arbiter!Next]_arbiterVars
<1>1. CASE MarkDbusUpdate(out)
  <2>1. Arbiter!LoseMeter \/ UNCHANGED arbiterVars
    BY <1>1, CheckGridLossRefines DEF MarkDbusUpdate
  <2>2. QED BY <2>1 DEF Arbiter!Next
<1>2. CASE MarkDbusInvalid \/ ReadGeneration \/ AdoptOutput
  BY <1>2
  DEF MarkDbusInvalid, ReadGeneration, AdoptOutput, arbiterVars, Owner,
      overrideVars, tripVars, lossVars, outputVars
<1>3. ASSUME NEW v \in ControlValues, WriteControl(v, out)
      PROVE  [Arbiter!Next]_arbiterVars
  <2>1. Owner = "control" /\ Owner' = Owner
    BY <1>3, OwnerCases
    DEF WriteControl, MayWrite, Owner, overrideVars, tripVars
  <2>2. acked' = [by |-> "control", value |-> v] \/ acked' = acked
    BY <1>3 DEF WriteControl, Attempt, outputVars
  <2>3. CASE acked' = [by |-> "control", value |-> v]
    <3>1. Arbiter!Regulate(v)
      BY <2>1, <2>3 DEF Arbiter!Regulate, Arbiter!Acknowledged
    <3>2. QED BY <3>1 DEF Arbiter!Next
  <2>4. CASE acked' = acked
    BY <2>1, <2>4 DEF arbiterVars
  <2>5. QED BY <2>2, <2>3, <2>4
<1>4. QED BY <1>1, <1>2, <1>3 DEF ControlLoop

\* An accepted Start takes over, an effective Stop releases.
LEMMA MqttThreadRefines ==
  ASSUME IInv, IInv', NEW out \in Outcomes, MqttThread(out)
  PROVE  [Arbiter!Next]_arbiterVars
<1>1. ASSUME NEW v \in OverrideValues, SetOverride(v, out)
      PROVE  [Arbiter!Next]_arbiterVars
  <2>1. CASE out = "accepted"
    <3>1. Owner' = "override" /\ acked' = [by |-> "override", value |-> v]
      BY <1>1, <2>1, ValuesFacts DEF SetOverride, Attempt, Owner
    <3>2. Arbiter!TakeOver(v)
      BY <3>1 DEF Arbiter!TakeOver, Arbiter!Acknowledged
    <3>3. QED BY <3>2 DEF Arbiter!Next
  <2>2. CASE out # "accepted"
    BY <1>1, <2>2
    DEF SetOverride, Attempt, arbiterVars, Owner, overrideVars, tripVars, lossVars
  <2>3. QED BY <2>1, <2>2
<1>2. CASE StopOverride
  <2>1. Owner = "override" /\ Owner' = "control" /\ acked' = acked
    BY <1>2 DEF StopOverride, ForgetEpisodes, Owner, outputVars
  <2>2. Arbiter!Release
    BY <2>1 DEF Arbiter!Release
  <2>3. QED BY <2>2 DEF Arbiter!Next
<1>3. ASSUME NEW enabled \in BOOLEAN, SetDryRun(enabled)
      PROVE  UNCHANGED arbiterVars
  BY <1>3
  DEF SetDryRun, arbiterVars, Owner, overrideVars, tripVars, lossVars, outputVars
<1>4. QED BY <1>1, <1>2, <1>3 DEF MqttThread

\* A heartbeat in a meter-loss episode resumes or keeps the fallback.
LEMMA MeterLossRefines ==
  ASSUME IInv, IInv', NEW out \in Outcomes, MeterLossHeartbeat(out),
         override' = override
  PROVE  Arbiter!ResumeMeter \/ Arbiter!LoseMeter
<1>1. InFallback
  BY DEF MeterLossHeartbeat
<1>2. CASE ForceFallback(out)
  BY <1>1, <1>2, ForceFallbackRefines
<1>3. CASE ~ForceFallback(out)
  <2>1. Qualified(out) /\ ~gridLossForced' /\ ~triggered'
    BY <1>3 DEF MeterLossHeartbeat
  <2>2. gridLossForced /\ override = None
    BY <1>1, <2>1 DEF InFallback, PolicyActive, LossDetected, Qualified
  <2>3. Owner = "fallback" /\ Owner' = "control"
    BY <2>1, <2>2 DEF Owner
  <2>4. acked' = [by |-> "fallback", value |-> Fallback]
    <3>1. CASE FallbackDue
      BY <1>3, <2>1, <3>1 DEF MeterLossHeartbeat, Qualified, Attempt
    <3>2. CASE ~FallbackDue
      BY <1>3, <2>1, <2>2, <3>2
      DEF IInv, FallbackConfirmed, MeterLossHeartbeat, Qualified, outputVars
    <3>3. QED BY <3>1, <3>2
  <2>5. QED BY <2>3, <2>4 DEF Arbiter!ResumeMeter, Arbiter!Acknowledged
<1>4. QED BY <1>2, <1>3

\* A heartbeat of the stalled-loop policy trips, restores or changes nothing.
LEMMA LoopHeartbeatRefines ==
  ASSUME IInv, IInv', NEW out \in Outcomes, LoopHeartbeat(out),
         override = None, ~dryRun, override' = override
  PROVE  [Arbiter!Next]_arbiterVars
<1>1. ~gridLossForced /\ ~gridLossForced'
  BY DEF IInv, EpisodeConsistent, LoopHeartbeat, InFallback, PolicyActive
<1>2. Owner \in {"control", "failsafe"}
  BY <1>1 DEF Owner
<1>3. CASE ApplyFailsafe(out)
  <2>1. Owner' = "failsafe"
    BY <1>1, <1>3 DEF ApplyFailsafe, Owner
  <2>2. acked' = [by |-> "failsafe", value |-> Zero] \/ acked' = acked
    BY <1>3 DEF ApplyFailsafe, Attempt, outputVars
  <2>3. Arbiter!Trip
    BY <1>2, <2>1, <2>2 DEF Arbiter!Trip, Arbiter!Acknowledged
  <2>4. QED BY <2>3 DEF Arbiter!Next
<1>4. CASE triggered /\ RestoreSetpoint(out)
  <2>1. Owner = "failsafe"
    BY <1>1, <1>4 DEF Owner
  <2>2. CASE hardwareForced /\ out # "accepted"
    BY <1>1, <1>4, <2>2
    DEF RestoreSetpoint, Attempt, arbiterVars, Owner, tripVars
  <2>3. CASE ~(hardwareForced /\ out # "accepted")
    <3>1. Owner' = "control"
      BY <1>1, <1>4, <2>3 DEF RestoreSetpoint, Owner
    <3>2. Arbiter!Holds("failsafe", Zero) <=> hardwareForced
      BY <1>1, <1>4 DEF IInv, RestoreIsBaseline, ZeroIsForced, Arbiter!Holds
    <3>3. IF hardwareForced THEN acked' = [by |-> "restore", value |-> preForced]
                            ELSE acked' = acked
      BY <1>4, <2>3 DEF RestoreSetpoint, Attempt, outputVars
    <3>4. Arbiter!Restore(preForced)
      BY <2>1, <3>1, <3>2, <3>3 DEF Arbiter!Restore, Arbiter!Acknowledged
    <3>5. preForced \in Arbiter!Values
      BY DEF IInv, TypeOK, Values, Arbiter!Values
    <3>6. QED BY <3>4, <3>5 DEF Arbiter!Next
  <2>4. QED BY <2>2, <2>3
<1>5. CASE UNCHANGED <<tripVars, outputVars>>
  BY <1>1, <1>5 DEF arbiterVars, Owner, tripVars, outputVars
<1>6. QED BY <1>3, <1>4, <1>5 DEF LoopHeartbeat

LEMMA WatchdogThreadRefines ==
  ASSUME IInv, IInv', NEW out \in Outcomes, WatchdogThread(out)
  PROVE  [Arbiter!Next]_arbiterVars
<1>1. CASE CheckGridLoss(out)
  <2>1. Arbiter!LoseMeter \/ UNCHANGED arbiterVars
    BY <1>1, CheckGridLossRefines DEF CheckGridLoss
  <2>2. QED BY <2>1 DEF Arbiter!Next
<1>2. CASE CheckHeartbeat(out)
  <2>1. override' = override
    BY <1>2 DEF CheckHeartbeat
  <2>2. CASE override # None
    BY <1>2, <2>2, MaintainOverrideAcks
    DEF CheckHeartbeat, arbiterVars, Owner, tripVars, lossVars
  <2>3. CASE override = None /\ dryRun
    BY <1>2, <2>3
    DEF CheckHeartbeat, arbiterVars, Owner, tripVars, lossVars, outputVars
  <2>4. CASE override = None /\ ~dryRun /\ MeterLossHeartbeat(out)
    BY <2>1, <2>4, MeterLossRefines DEF Arbiter!Next
  <2>5. CASE override = None /\ ~dryRun /\ LoopHeartbeat(out)
    BY <2>1, <2>5, LoopHeartbeatRefines
  <2>6. QED BY <1>2, <2>2, <2>3, <2>4, <2>5 DEF CheckHeartbeat
<1>3. QED BY <1>1, <1>2 DEF WatchdogThread

\* Whatever the timers, counters and threads do, the watchdog is an arbiter.
THEOREM Refinement == Spec => ImplementsArbiter
<1>1. Init => Arbiter!Init
  BY DEF Init, Arbiter!Init, Owner
<1>2. ASSUME IInv, IInv', [Next]_wdVars
      PROVE  [Arbiter!Next]_arbiterVars
  <2>1. CASE UNCHANGED wdVars
    BY <2>1 DEF wdVars, arbiterVars, Owner
  <2>2. CASE Tick
    BY <2>2 DEF Tick, arbiterVars, Owner, tripVars, outputVars
  <2>3. QED
    BY <1>2, <2>1, <2>2, ControlLoopRefines, MqttThreadRefines, WatchdogThreadRefines
    DEF Next
<1>3. QED
  BY <1>1, <1>2, Inductive, PTL
  DEF Spec, ImplementsArbiter, Arbiter!Spec, arbiterVars

=============================================================================
