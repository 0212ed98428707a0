----------------------------- MODULE VenusClient -----------------------------
(* The concurrent parts of the Venus D-Bus client, side by side: the choice   *)
(* and smoothing of the grid measurement, the setpoint write, the telemetry   *)
(* connection, the battery measurement, the ESS mode, the limits of the cells *)
(* and the readers of other devices.                                          *)
(*                                                                            *)
(* They have locks and threads of their own and share no state, so that their *)
(* steps commute: a behaviour of the whole is an interleaving of theirs. Each *)
(* is explored on its own, and "part" says which one moves; the others stay   *)
(* where they start.                                                          *)
EXTENDS Integers, FiniteSets

CONSTANTS None, MaxAge, ReadLimit, Recovery, Callers, SetCalls, Names, Services, FailThreshold,
          Refusals, Seeds, Requests, Remembered, Chains, Readings, MaxCharge, MaxDischarge, MinCharge,
          ChargeRate, DischargeRate, CellInterval, ReaderAge, ReaderInterval, DiscoveryTtl,
          GridChanges, WriteBreaks, Breaks, Moves, ShuntChanges, Failures,
          Choices, CellChanges, ClockSteps, RoleChanges, Errors   \* bounds

\* The bounds and ages are numbers; None is no caller and no reply; a service has a
\* name.
ASSUME BoundsAssumption ==
  /\ MaxAge \in Nat /\ ReadLimit \in Nat /\ SetCalls \in Nat /\ WriteBreaks \in Nat
  /\ Breaks \in Nat /\ Moves \in Nat /\ Refusals \in Nat
  /\ None \notin Callers /\ None \notin {"zero", "error"} /\ Names # {}

\* So are those of the readers of other devices.
ASSUME ReaderAssumption ==
  ReaderAge \in Nat /\ ReaderInterval \in Nat /\ DiscoveryTtl \in Nat /\ RoleChanges \in Nat /\ Errors \in Nat

\* There is a name a SmartShunt can have.
ASSUME ShuntAssumption == Services # {}

\* None is no thread.
ASSUME EssAssumption == None \notin {"mqtt", "loop", "poll"}

\* There are finitely many chains; currents, rates and the interval are numbers, and None
\* is no measurement and no flag. Of a chain any measurement may be unknown, and the
\* highest voltage is known when the lowest is.
ASSUME ChargeAssumption ==
  /\ IsFiniteSet(Chains) /\ None \notin Int /\ None \notin BOOLEAN
  /\ MaxCharge \in Nat /\ MaxDischarge \in Nat /\ MinCharge \in 0 .. MaxCharge
  /\ ChargeRate \in Nat /\ DischargeRate \in Nat /\ CellInterval \in Nat
  /\ \A r \in Readings :
       /\ {r.high, r.low, r.soc} \subseteq Int \cup {None} /\ {r.hot, r.cold} \subseteq (-50 .. 100) \cup {None}
       /\ {r.charge, r.discharge} \subseteq BOOLEAN \cup {None}
       /\ (r.high = None <=> r.low = None) /\ (r.hot = None <=> r.cold = None)

VARIABLES
  part,
  primary, meter, gone, reading, backup, choice, filter, sampling, loop, left,
  setLock, caller, issued, conn, queued, inbox, inverter, acknowledged,
  bus, thread, stateLock, replaying, subscriptions, armed, installed, tracked, senders,
  ownerVersion, resolver, incoming, owner, missed, budget,
  device, signals, cache, reader, scan, requested, health, handled, chances,
  ess, seen, receipt, op, essLock, selectLock, essReading, essCache, ended, essLoop, published,
  cells, cellCache, polling, polled, taken, fetched, currents, elapsed, steady, back, cellChanges, clockSteps,
  service, charging, worker, found, searched, pause, snapshot, stopping, roleChanges, errors

-----------------------------------------------------------------------------
(* The parts *)

Grid == INSTANCE GridSelection WITH Changes <- GridChanges
Write == INSTANCE DbusWrite WITH Writes <- SetCalls, Breaks <- WriteBreaks
Bus == INSTANCE Subscriptions
Shunt == INSTANCE SmartShunt WITH Changes <- ShuntChanges
Ess == INSTANCE EssSelection WITH device <- ess, reading <- essReading, cache <- essCache, loop <- essLoop

Charge == INSTANCE ChargeLimits
            WITH bus <- cells, cache <- cellCache, limits <- currents, changes <- cellChanges,
                 steps <- clockSteps, Interval <- CellInterval, Changes <- CellChanges, Steps <- ClockSteps
Reader == INSTANCE BoundedReader
            WITH changes <- roleChanges, MaxAge <- ReaderAge, Interval <- ReaderInterval, Changes <- RoleChanges

gridVars   == <<primary, meter, gone, reading, backup, choice, filter, sampling, loop, left>>
writeVars  == <<setLock, caller, issued, conn, queued, inbox, inverter, acknowledged>>
busVars    == <<bus, thread, stateLock, replaying, subscriptions, armed, installed, tracked, senders,
                ownerVersion, resolver, incoming, owner, missed, budget>>
shuntVars  == <<device, signals, cache, reader, scan, requested, health, handled, chances>>
essVars    == <<ess, seen, receipt, op, essLock, selectLock, essReading, essCache, ended, essLoop, published>>
chargeVars == <<cells, cellCache, polling, polled, taken, fetched, currents, elapsed, steady, back,
                cellChanges, clockSteps>>
readerVars == <<service, charging, worker, found, searched, pause, snapshot, stopping, roleChanges, errors>>
vars == <<part, gridVars, writeVars, busVars, shuntVars, essVars, chargeVars, readerVars>>

Init ==
  /\ part \in {"grid", "write", "bus", "shunt", "ess", "charge", "reader"}
  /\ Grid!Init /\ Write!Init /\ Bus!Init /\ Shunt!Init /\ Ess!Init /\ Charge!Init /\ Reader!Init
  \* a part that stays does so in one state
  /\ part # "charge" => polling /\ \A c, d \in Chains : cells[c] = cells[d] /\ cells[c].soc = 50
  /\ part # "reader" => service = "gone" /\ charging

\* The part that moves, and those that stay
Only(p) ==
  /\ part = p /\ UNCHANGED part
  /\ IF p = "grid" THEN TRUE ELSE UNCHANGED gridVars
  /\ IF p = "write" THEN TRUE ELSE UNCHANGED writeVars
  /\ IF p = "bus" THEN TRUE ELSE UNCHANGED busVars
  /\ IF p = "shunt" THEN TRUE ELSE UNCHANGED shuntVars
  /\ IF p = "ess" THEN TRUE ELSE UNCHANGED essVars
  /\ IF p = "charge" THEN TRUE ELSE UNCHANGED chargeVars
  /\ IF p = "reader" THEN TRUE ELSE UNCHANGED readerVars

Next ==
  \/ Only("grid") /\ Grid!Next
  \/ Only("write") /\ Write!Next
  \/ Only("bus") /\ Bus!Next
  \/ Only("shunt") /\ Shunt!Next
  \/ Only("ess") /\ Ess!Next
  \/ Only("charge") /\ Charge!Next
  \/ Only("reader") /\ Reader!Next

\* The D-Bus loop handles what arrives, backoffs end, and the poll thread both
\* checks for a rescan and polls in every pass; calls of a reader end.
Fairness ==
  /\ WF_shuntVars(part = "shunt" /\ Shunt!Handle) /\ WF_shuntVars(part = "shunt" /\ Shunt!BackoffEnds)
  /\ SF_shuntVars(part = "shunt" /\ Shunt!Poll) /\ SF_shuntVars(part = "shunt" /\ Shunt!Discover)
  /\ WF_readerVars(part = "reader" /\ Reader!Pass) /\ WF_readerVars(part = "reader" /\ Reader!Tick)

Spec == Init /\ [][Next]_vars
FairSpec == Spec /\ Fairness

-----------------------------------------------------------------------------
(* Properties *)

\* The grid power the control loop regulates on: a backup measurement is young
\* and from a service still there (grid_backup.py), and a setpoint rests on
\* samples of one source (grid_filter.py, controller.py).
GridIsTrusted == Grid!BackupTrusted /\ Grid!OneSourcePerDecision

\* No older attempt replaces an acknowledged write (_dbus_set, dbus_native.py).
NeverOlderThanAcknowledged == Write!NeverOlderThanAcknowledged

\* Senders are bound to the service that has their name (dbus_native.py).
BindingsAreCurrent == Bus!BindingsAreCurrent

\* A live connection is never dropped for a dead one (dbus_native.py).
LiveConnectionKept == Bus!LiveConnectionKept

\* A late read neither replaces a newer battery measurement (victron.py), nor
\* passes for a fresh one (background_reader.py).
MeasurementsAreCurrent == Shunt!NewestObservationWins /\ Reader!ServedIsRecent

\* A SmartShunt or a charger on the bus is found in the end (victron.py,
\* evcharger.py).
DevicesAreFound == (part = "shunt" => Shunt!ShuntIsFound) /\ (part = "reader" => Reader!RoleIsFound)

\* A choice of the ESS mode leads there directly (victron.py), and its receipt
\* comes with an observation from after it (ess_modes.py).
SelectionIsHonest == Ess!SelectionIsDirect /\ []Ess!ReceiptMatchesObservation

\* A cell at its cutoff stops the current, a chain that forbids it does unless no
\* chain is measured, and the limits stay in range (dvcc.py, victron.py).
CellsAreProtected == Charge!CutoffArrives /\ Charge!CurrentsInRange

=============================================================================
