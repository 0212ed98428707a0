------------------------------- MODULE Services -------------------------------
(* The parts beside the D-Bus client that keep state of their own, side by    *)
(* side: the regulation, the submeter trim, the dump loads, the energy of the *)
(* day, the operator's choices of limits and tariff, the journal of pre-charge*)
(* requests, the status of the override, the end of the process, the delivery *)
(* of logs, and the publication of releases.                                  *)
(*                                                                            *)
(* They share no state, so that their steps commute: each is explored on its  *)
(* own, and "part" says which one moves; the others stay where they start.    *)
EXTENDS Integers

CONSTANTS None, Batch, Retained, Threads, Requests, Capacity, QueueSize, LoadCount, OpenThreshold,
          TrimMaxAge, SettleTime, Delay, Window, MinReports, MaxTotal, Meters, Day, EnergyMaxAge,
          Runs, Bases, Tariffs, TariffEdits, Absolute, Loads, Modes, Ranges,
          Lines, Files, Crashes, Faults, Edits, Drops, Generations, Horizon, Events,
          Uptime, Energy, Upsets, Failures, Commits, Deletions, Dispatched, Signals,
          Reboots, Installs, Disturbances   \* bounds

VARIABLES
  part,
  file, archives, current, torn, pass, cursor, delivered, expired, crashes,
  age, thread, journal, journalFile, error, intent, queued, faults,
  status, pending, connected, queue, publisher, network, handed, drops,
  flag, loop, running, generation, loadIntent, waiting, worker, poll, closed,
  now, sample, world, trim, cycle, accepted, events,
  mono, wall, zone, meter, count, reading, ledger, saving, ledgerFile, entered, upsets,
  head, base, releaseLedger, refs, releases, run, shipped, deleted, failed,
  main, jobs, asked, late, mqttThread, bridge, publishThread, io, done, granted, bus, timer, signals,
  setup, plan, tariffStatus, sent, edit, manual, restarts, installs,
  limitFile, limits, change, kept, replaced, starts, tools,
  background, load, mode, range, inverter, setpoint, filtered, prev, creep, due, changes

-----------------------------------------------------------------------------
(* The parts *)

Log == INSTANCE LogForwarder
Precharge == INSTANCE PrechargeInbox WITH disk <- journalFile
Mqtt == INSTANCE OverrideStatus
Dump == INSTANCE DumpLoads WITH intent <- loadIntent
Trim == INSTANCE SubmeterTrim WITH MaxAge <- TrimMaxAge
Meter == INSTANCE GridEnergy WITH disk <- ledgerFile, MaxAge <- EnergyMaxAge
Release == INSTANCE ReleasePublication WITH ledger <- releaseLedger

\* The hardware watchdog stands for the workers before the poll thread, the last.
End == INSTANCE Shutdown
         WITH Workers <- <<"watchdog", "poll">>, job <- jobs, expired <- late, network <- mqttThread,
              publisher <- publishThread

Tariff == INSTANCE TariffService
            WITH status <- tariffStatus, job <- edit, Plans <- Tariffs, Edits <- TariffEdits, Restarts <- Reboots
Limits == INSTANCE PowerLimits WITH Restarts <- Reboots

Regulator == INSTANCE Regulation WITH Changes <- Disturbances

\* The bounds are numbers, there is a tariff, a load and an ordinary limit, and None
\* is none of the records it stands beside.
ASSUME InboxAssumption == Faults \in Nat /\ None \notin {"suppressed", "uncertain", "accepted"}
ASSUME TariffAssumption ==
  /\ Tariffs # {} /\ Reboots \in Nat /\ Installs \in Nat
  /\ None \notin [request : TariffEdits, step : Tariff!Steps]
ASSUME LimitsAssumption ==
  /\ Absolute \in Nat /\ Reboots \in Nat /\ Installs \in Nat
  /\ None \notin [limits : Limits!Limits, persist : BOOLEAN, saved : BOOLEAN]
ASSUME LoadsAssumption == LoadCount \in Nat \ {0} /\ Generations \in Nat /\ None \notin Dump!Batches
ASSUME LogAssumption == Batch \in Nat \ {0} /\ Retained \in Nat /\ None \notin Nat
ASSUME ReleaseAssumption == Runs \subseteq Nat /\ Commits \in Nat \ {0} /\ None \notin Release!Plans
ASSUME MeterAssumption == Meters # {} /\ Day \in Nat \ {0}
ASSUME TrimAssumption ==
  /\ Delay \in Nat \ {0} /\ MaxTotal \in Nat /\ Horizon \in Nat /\ None \notin Int
  /\ None \notin [delta : {0, -1}, setpoint : Int, previous : Int, time : {None} \cup Int]

\* Powers are numbers, that of an EV may be unknown, and limits are in order. There is
\* something to regulate.
ASSUME RegulationAssumption ==
  /\ Loads # {} /\ Loads \subseteq Int /\ Modes # {} /\ Ranges # {}
  /\ \A m \in Modes : {m.mppt, m.pv, m.garage} \subseteq Int /\ m.ev \in Int \cup {None}
  /\ \A r \in Ranges : r.min \in Int /\ r.max \in Int /\ r.min <= r.max

logVars     == <<file, archives, current, torn, pass, cursor, delivered, expired, crashes>>
inboxVars   == <<age, thread, journal, journalFile, error, intent, queued, faults>>
mqttVars    == <<status, pending, connected, queue, publisher, network, handed, drops>>
loadVars    == <<flag, loop, running, generation, loadIntent, waiting, worker, poll, closed>>
trimVars    == <<now, sample, world, trim, cycle, accepted, events>>
meterVars   == <<mono, wall, zone, meter, count, reading, ledger, saving, ledgerFile, entered, upsets>>
releaseVars == <<head, base, releaseLedger, refs, releases, run, shipped, deleted, failed>>
endVars     == <<main, jobs, asked, late, mqttThread, bridge, publishThread, io, done, granted, bus, timer, signals>>
tariffVars  == <<setup, plan, tariffStatus, sent, edit, manual, restarts, installs>>
limitVars   == <<limitFile, limits, change, kept, replaced, starts, tools>>
regVars     == <<background, load, mode, range, inverter, setpoint, filtered, prev, creep, due, changes>>
vars == <<part, logVars, inboxVars, mqttVars, loadVars, trimVars, meterVars, releaseVars, endVars,
          tariffVars, limitVars, regVars>>

Init ==
  /\ part \in {"log", "inbox", "mqtt", "loads", "trim", "meter", "release", "end", "tariff", "limits", "regulation"}
  /\ Log!Init /\ Precharge!Init /\ Mqtt!Init /\ Dump!Init /\ Trim!Init /\ Meter!Init
  /\ Release!Init /\ End!Init /\ Tariff!Init /\ Limits!Init /\ Regulator!Init
  \* a part that stays does so in one state
  /\ part # "release" => \A c \in 1 .. Commits : base[c] = 1
  /\ part # "tariff" => setup = <<>>
  /\ part # "regulation" =>
       /\ background /\ load = (CHOOSE l \in Loads : TRUE)
       /\ mode = (CHOOSE m \in Modes : TRUE) /\ range = (CHOOSE r \in Ranges : TRUE)

\* The part that moves, and those that stay
Only(p) ==
  /\ part = p /\ UNCHANGED part
  /\ IF p = "log" THEN TRUE ELSE UNCHANGED logVars
  /\ IF p = "inbox" THEN TRUE ELSE UNCHANGED inboxVars
  /\ IF p = "mqtt" THEN TRUE ELSE UNCHANGED mqttVars
  /\ IF p = "loads" THEN TRUE ELSE UNCHANGED loadVars
  /\ IF p = "trim" THEN TRUE ELSE UNCHANGED trimVars
  /\ IF p = "meter" THEN TRUE ELSE UNCHANGED meterVars
  /\ IF p = "release" THEN TRUE ELSE UNCHANGED releaseVars
  /\ IF p = "end" THEN TRUE ELSE UNCHANGED endVars
  /\ IF p = "tariff" THEN TRUE ELSE UNCHANGED tariffVars
  /\ IF p = "limits" THEN TRUE ELSE UNCHANGED limitVars
  /\ IF p = "regulation" THEN TRUE ELSE UNCHANGED regVars

Next ==
  \/ Only("log") /\ Log!Next
  \/ Only("inbox") /\ Precharge!Next
  \/ Only("mqtt") /\ Mqtt!Next
  \/ Only("loads") /\ Dump!Next
  \/ Only("trim") /\ Trim!Next
  \/ Only("meter") /\ Meter!Next
  \/ Only("release") /\ Release!Next
  \/ Only("end") /\ End!Next
  \/ Only("tariff") /\ Tariff!Next
  \/ Only("limits") /\ Limits!Next
  \/ Only("regulation") /\ Regulator!Next

\* Both threads of the MQTT client go on, and its queue has room again and again
\* for the main loop's retry. At the end of the process time passes and the main
\* thread runs. The control loop runs and the inverter follows.
Fairness ==
  /\ WF_mqttVars(part = "mqtt" /\ Mqtt!Publisher) /\ WF_mqttVars(part = "mqtt" /\ Mqtt!Network)
  /\ SF_mqttVars(part = "mqtt" /\ Mqtt!Retry /\ Mqtt!Room /\ connected)
  /\ WF_endVars(part = "end" /\ End!MainGoesOn)
  /\ WF_endVars(part = "end" /\ End!Expire) /\ WF_endVars(part = "end" /\ End!ForceExit)
  /\ WF_due(part = "regulation" /\ Regulator!Turn)

Spec == Init /\ [][Next]_vars
FairSpec == Spec /\ Fairness

-----------------------------------------------------------------------------
(* Properties *)

\* Every complete line of a retained file reaches Loki (log_forwarder.py).
NoLineSkipped == Log!NoLineSkipped

\* One pre-charge per request, whatever is retried and restarted (precharge.py).
QueuedAtMostOnce == Precharge!QueuedAtMostOnce

\* The broker is given the override's status in force (mqtt_bridge.py).
CurrentStatusIsSent == part = "mqtt" => Mqtt!CurrentStatusIsSent

\* A retired dump-load batch makes no further call (homeassistant.py), and the
\* D-Bus connection is closed when no thread is left that could call (main.py).
StoppedMeansStopped == Dump!RetiredBatchStops /\ End!CloseAfterWriters

\* The trim corrects on settled evidence, within its budget (submeter_trim.py).
CorrectionsRestOnEvidence == Trim!CorrectionsRestOnEvidence

\* A complete day is counted from midnight (grid_energy.py).
CompleteDayIsExact == Meter!CompleteDayIsExact

\* Limits and tariff chosen for good are those of the next start (power_limits.py,
\* tariff_service.py).
ChoicesSurvive == Limits!LimitsSurvive /\ Tariff!PlanSurvives

\* What is out of date replaces nothing: an edit of a tariff that is no longer in
\* force (tariff_service.py), or a build behind a public one (release_state.py).
StaleReplacesNothing == Tariff!EditsMeetWhatWasShown /\ Release!ReleasesOnlyAdvance

\* A process that is to end is gone in the end (main.py).
ProcessEnds == End!ProcessEnds

\* Commands keep to the limits and the slew limit (logic.py).
CommandsAreBounded == Regulator!CommandsAreBounded

\* Commands are bounded, and in every mode the grid settles (logic.py).
Regulates == CommandsAreBounded /\ (part = "regulation" => Regulator!Settles)

=============================================================================
