------------------------------ MODULE GridEnergy ------------------------------
(* grid_energy.py: today's energy as the difference of the selected meter's   *)
(* cumulative counter from its value at midnight, with victron.py's reads of  *)
(* the meter and the display worker that saves the ledger.                    *)
(*                                                                            *)
(* A time unit is MIDNIGHT_BRACKET; CLOCK_TOLERANCE is shorter.  Import and   *)
(* export counters are one counter, which grows by at most one at a time.     *)
(* The ledger is saved at any time it is dirty, which PERSIST_INTERVAL thins. *)
EXTENDS Integers

CONSTANTS
  None,
  Meters,      \* identities: service, device instance and serial
  Day,         \* units in a day
  MaxAge,      \* MAX_AGE
  Uptime,      \* bound: the monotonic time explored
  Energy,      \* bound: what a meter counts
  Upsets       \* bound: clock jumps, meter and zone changes, restarts

VARIABLES
  mono,        \* time.monotonic()
  wall,        \* time.time()
  zone,        \* _grid_energy_timezone: how far ahead it is
  meter,       \* the selected meter
  count,       \* external: the counters
  reading,     \* _refresh_grid_meter: the reply awaited by the poll thread
  ledger,      \* _state, _observed_mono, _read_error, _reset_pending, _reset_observation
  saving,      \* persist: the copy being saved, _dirty and _revision
  disk,        \* STATE_FILE
  entered,     \* history: what the counters said when a date began
  upsets       \* what remains of Upsets

evars == <<mono, wall, zone, meter, count, reading, ledger, saving, disk, entered, upsets>>

Zones == {0, 1}
\* _calendar
Date(z, at) == (at + z) \div Day

TypeOK ==
  /\ mono \in 0 .. Uptime /\ wall \in Int /\ zone \in Zones
  /\ meter \in Meters /\ count \in [Meters -> 0 .. Energy]
  /\ reading = None \/ reading.count <= count[reading.meter]
  /\ ledger.state = None \/ ledger.state.baseline <= ledger.state.count
  /\ ledger.observed \in {None} \cup (0 .. Uptime)
  /\ {ledger.error, ledger.pending, ledger.reset, saving.dirty} \subseteq BOOLEAN
  /\ upsets \in 0 .. Upsets

\* __init__, with what _load read
Loaded(state) == [state |-> state, observed |-> None, error |-> TRUE, pending |-> FALSE, reset |-> FALSE]
Unsaved == [copy |-> None, current |-> FALSE, dirty |-> FALSE]

Init ==
  /\ mono = 0 /\ wall = Day - 1 /\ zone = 0 /\ meter = (CHOOSE m \in Meters : TRUE) /\ count = [m \in Meters |-> 0]
  /\ reading = None /\ ledger = Loaded(None) /\ saving = Unsaved /\ disk = None
  /\ entered = {} /\ upsets = Upsets

-----------------------------------------------------------------------------
(* GridEnergyLedger *)

\* invalidate, with reset
Invalidated(reset) == [ledger EXCEPT !.error = TRUE, !.pending = @ \/ reset]

\* Mutant: a day goes on with another meter and a counter that went back.
FaultyReseeds(m, value) ==
  LET old == ledger.state IN
  /\ old # None
  /\ \/ ledger.pending \/ zone # old.zone \/ wall < old.at
     \/ ledger.observed # None /\ wall - old.at # mono - ledger.observed

\* _reseed_reason
Reseeds(m, value) ==
  LET old == ledger.state IN
  /\ old # None
  /\ \/ ledger.pending \/ m # old.meter \/ zone # old.zone \/ value < old.count \/ wall < old.at
     \/ ledger.observed # None /\ wall - old.at # mono - ledger.observed

\* Mutant: any fresh bracket proves midnight.
FaultyProved(value) ==
  LET old == ledger.state IN
  /\ old # None /\ ~ledger.error /\ ledger.observed # None
  /\ Date(zone, wall) = old.date + 1 /\ mono - ledger.observed <= 1 /\ wall - old.at <= 1

\* _midnight_proved
Proved(value) ==
  LET old == ledger.state IN
  /\ old # None /\ ~ledger.error /\ ledger.observed # None
  /\ Date(zone, wall) = old.date + 1 /\ mono - ledger.observed <= 1 /\ wall - old.at <= 1
  /\ value = old.count

\* _observe_locked
Observed(m, value) ==
  LET old == ledger.state
      starts == old = None \/ Reseeds(m, value) \/ old.date # Date(zone, wall) IN
  IF starts THEN [meter |-> m, zone |-> zone, date |-> Date(zone, wall), baseline |-> value, count |-> value,
                  at |-> wall, complete |-> ~Reseeds(m, value) /\ Proved(value)]
  ELSE [old EXCEPT !.count = value, !.at = wall]

Observe(m, value) ==
  /\ ledger' = [state |-> Observed(m, value), observed |-> mono, error |-> FALSE, pending |-> FALSE,
                reset |-> Reseeds(m, value)]
  /\ saving' = [saving EXCEPT !.dirty = TRUE, !.current = FALSE]

\* _availability
Available ==
  LET old == ledger.state IN
  /\ old # None /\ ~ledger.pending /\ ~ledger.reset
  /\ ledger.observed # None /\ wall - old.at = mono - ledger.observed
  /\ ~ledger.error /\ mono - ledger.observed <= MaxAge /\ Date(old.zone, wall) = old.date
\* snapshot: "status" is "complete"
ShownComplete == Available /\ ledger.state.complete

-----------------------------------------------------------------------------
(* The meter's reads, of the poll thread *)

\* _refresh_grid_meter: the meter answers with what it counts now.
ReadStarts ==
  /\ reading = None /\ reading' = [meter |-> meter, count |-> count[meter], late |-> FALSE]
  /\ UNCHANGED <<mono, wall, zone, meter, count, ledger, saving, disk, entered, upsets>>

\* The reply is accepted when the generation it was read under is current, and
\* timestamped when it is complete.
ReadEnds ==
  /\ reading # None /\ reading' = None
  /\ \/ reading.meter = meter /\ Observe(reading.meter, reading.count)
     \/ ledger' = Invalidated(FALSE) /\ UNCHANGED saving
  /\ UNCHANGED <<mono, wall, zone, meter, count, disk, entered, upsets>>

-----------------------------------------------------------------------------
(* persist, of the display worker *)

Persist ==
  /\ saving.copy = None /\ saving.dirty
  /\ saving' = [saving EXCEPT !.copy = ledger.state, !.current = TRUE]
  /\ UNCHANGED <<mono, wall, zone, meter, count, reading, ledger, disk, entered, upsets>>

\* _save replaces the file, or fails before or after.
Saved ==
  /\ saving.copy # None
  /\ \/ disk' = saving.copy /\ saving' = [saving EXCEPT !.copy = None, !.dirty = @ /\ ~saving.current]
     \/ disk' \in {disk, saving.copy} /\ saving' = [saving EXCEPT !.copy = None]
  /\ UNCHANGED <<mono, wall, zone, meter, count, reading, ledger, entered, upsets>>

-----------------------------------------------------------------------------
(* Time, energy and upsets *)

\* What the counters, and a read on its way, say when a date begins
Begins(at, next) ==
  {[meter |-> m, zone |-> z, date |-> Date(z, next), count |-> count[m]] :
     m \in Meters, z \in {y \in Zones : Date(y, next) > Date(y, at)}}
  \cup (IF reading = None THEN {}
        ELSE {[meter |-> reading.meter, zone |-> z, date |-> Date(z, next), count |-> reading.count] :
                z \in {y \in Zones : Date(y, next) > Date(y, at)}})

\* A read takes less than a unit.
Tick ==
  /\ mono < Uptime /\ mono' = mono + 1 /\ wall' = wall + 1
  /\ reading # None => ~reading.late
  /\ reading' = IF reading = None THEN None ELSE [reading EXCEPT !.late = TRUE]
  /\ entered' = entered \cup Begins(wall, wall + 1)
  /\ UNCHANGED <<zone, meter, count, ledger, saving, disk, upsets>>

Counts ==
  /\ count[meter] < Energy /\ count' = [count EXCEPT ![meter] = @ + 1]
  /\ UNCHANGED <<mono, wall, zone, meter, reading, ledger, saving, disk, entered, upsets>>

Upset == upsets > 0 /\ upsets' = upsets - 1

ClockJumps ==
  /\ Upset
  /\ \E step \in {-1, 1} :
       wall' = wall + step /\ wall' >= 0 /\ entered' = entered \cup Begins(wall, wall + step)
  /\ UNCHANGED <<mono, zone, meter, count, reading, ledger, saving, disk>>

\* Another meter is selected: _replace_grid_snapshot, _on_name_owner_changed
MeterChanges ==
  /\ Upset /\ meter' \in Meters \ {meter}
  /\ ledger' = Invalidated(FALSE) /\ reading' = None
  /\ UNCHANGED <<mono, wall, zone, count, saving, disk, entered>>

\* _set_grid_energy_timezone
ZoneChanges ==
  /\ Upset /\ zone' \in Zones \ {zone} /\ ledger' = Invalidated(TRUE)
  /\ UNCHANGED <<mono, wall, meter, count, reading, saving, disk, entered>>

\* The process is restarted; a save it had begun may have replaced the file.
Restarts ==
  /\ Upset /\ ledger' = Loaded(disk) /\ reading' = None /\ saving' = Unsaved
  /\ UNCHANGED <<mono, wall, zone, meter, count, disk, entered>>

Next ==
  \/ ReadStarts \/ ReadEnds \/ Persist \/ Saved
  \/ Tick \/ Counts \/ ClockJumps \/ MeterChanges \/ ZoneChanges \/ Restarts

Spec == Init /\ [][Next]_evars

-----------------------------------------------------------------------------
(* Properties *)

\* "Only an unchanged, fresh counter bracket proves the new day's baseline":
\* the energy of a day shown as complete is counted from what that meter said
\* when that date began in that time zone, at most a read earlier, whatever
\* clock jumps, failed reads, meter or zone changes and restarts from the saved
\* state came before.
CompleteDayIsExact ==
  ShownComplete =>
    [meter |-> ledger.state.meter, zone |-> ledger.state.zone, date |-> Date(zone, wall),
     count |-> ledger.state.baseline] \in entered

=============================================================================
