---------------------------- MODULE GridSelection ----------------------------
(* Which grid measurement control uses, and how it is smoothed.               *)
(*                                                                            *)
(* grid_backup.py keeps the last reading of a submeter that Home Assistant    *)
(* feeds and chooses it while the pinned grid meter is unavailable.  select() *)
(* runs on every cache read: the control loop and the thread of grid_filter.py *)
(* both move the selection.  The poll thread of victron.py reads the submeter, *)
(* the D-Bus loop forgets it when its service changes hands, and the loop     *)
(* accepts a decision only if the selection it started from still stands.     *)
(*                                                                            *)
(* Time is counted in ticks.  Home Assistant's timestamps are not ahead of    *)
(* the local clock.                                                           *)
EXTENDS Integers, FiniteSets

CONSTANTS
  None,         \* no value: Python's None
  MaxAge,       \* max_age: how old a backup measurement may be
  ReadLimit,    \* the 3.0 seconds a read may lie behind
  Recovery,     \* recovery_seconds: the primary must be back that long
  Changes       \* bound: changes of either meter, and failed reads

VARIABLES
  primary,      \* GridTelemetry's snapshot is valid
  meter,        \* the age of the measurement the submeter's service holds
  gone,         \* its NameOwnerChanged signal has not been handled yet
  reading,      \* _poll_grid_backup in flight: None or [generation, fields]
  backup,       \* GridBackup: generation, _fields, _read_time, _deadline
  choice,       \* GridBackup: _using_backup, _primary_since, _selection_generation
  filter,       \* GridFilter: _generation and the selections mixed in _value
  sampling,     \* GridFilter.run: None or [generation, raw]
  loop,         \* the control cycle: its step, snapshot and measurement histories
  left          \* what remains of Changes

vars == <<primary, meter, gone, reading, backup, choice, filter, sampling, loop, left>>

-----------------------------------------------------------------------------
(* A measurement: usable (connected, role, power and instance in order), its  *)
(* true age, and whether the service that answered has since left the bus.    *)
Older(t, limit) == IF t = None \/ t > limit THEN t ELSE t + 1
Ages == 0 .. MaxAge + 1
Measurements == [ok : BOOLEAN, age : Ages, departed : BOOLEAN]
NoFields == [ok |-> FALSE, age |-> MaxAge + 1, departed |-> FALSE]
Aged(f) == [f EXCEPT !.age = Older(@, MaxAge)]

TypeOK ==
  /\ primary \in BOOLEAN /\ gone \in BOOLEAN /\ left \in 0 .. Changes
  /\ meter \in Ages
  /\ reading \in {None} \cup [generation : Nat, fields : {None} \cup Measurements]
  /\ backup.fields \in Measurements
  /\ backup.deadline \in 0 .. MaxAge /\ backup.read \in 0 .. ReadLimit + 1
  /\ choice.using \in BOOLEAN /\ choice.since \in {None} \cup 0 .. Recovery + 1
  /\ filter.mixed \subseteq 0 .. choice.selection
  /\ loop.at \in {"idle", "gate", "calculate", "recheck", "write"}

Init ==
  /\ primary = TRUE /\ gone = FALSE /\ left = Changes
  /\ meter = 0
  /\ reading = None
  /\ backup = [generation |-> 0, fields |-> NoFields, read |-> ReadLimit + 1, deadline |-> 0]
  /\ choice = [using |-> FALSE, since |-> None, selection |-> 0]
  /\ filter = [generation |-> 0, mixed |-> {}]
  /\ sampling = None
  /\ loop = [at |-> "idle", valid |-> FALSE, selection |-> 0, control |-> 0, lost |-> FALSE, used |-> {}]

-----------------------------------------------------------------------------
(* GridBackup *)

\* invalidate
Invalidate(b) == [b EXCEPT !.generation = @ + 1, !.fields = NoFields, !.deadline = 0]

\* Mutant: the age of the measurement is taken off twice.
FaultyDeadline(fields) == MaxAge - 2 * fields.age

\* _deadline: what is left of the measurement's own lifetime
Deadline(fields) == IF fields.age <= MaxAge THEN MaxAge - fields.age ELSE 0

\* Mutant: a reading in flight survives its service.
FaultyReplace(b, fields, generation) ==
  [b EXCEPT !.fields = fields, !.read = 0, !.deadline = Deadline(fields)]

\* replace: a reading that another service's arrival overtook is dropped
Replace(b, fields, generation) ==
  IF generation # b.generation THEN b
  ELSE [b EXCEPT !.fields = fields, !.read = 0, !.deadline = Deadline(fields)]

Ready == backup.fields.ok /\ backup.deadline > 0 /\ backup.read <= ReadLimit

Since == IF ~primary THEN None ELSE IF choice.since = None THEN 0 ELSE choice.since

UseBackup == Ready /\ (IF primary THEN choice.using /\ Since < Recovery ELSE TRUE)

\* select and _record_transition: every switch is a new selection generation
Select == choice' = [using |-> UseBackup, since |-> Since,
                     selection |-> choice.selection + (IF UseBackup # choice.using THEN 1 ELSE 0)]
Usable == primary \/ UseBackup

-----------------------------------------------------------------------------
(* The poll thread and the D-Bus loop *)

PollBegins ==
  /\ reading = None
  /\ reading' = [generation |-> backup.generation, fields |-> None]
  /\ UNCHANGED <<primary, meter, gone, backup, choice, filter, sampling, loop, left>>

\* A failed read and one without usable fields are the same to replace().
PollAnswers ==
  /\ reading # None /\ reading.fields = None
  /\ \/ reading' = [reading EXCEPT !.fields = [ok |-> TRUE, age |-> meter, departed |-> FALSE]]
        /\ UNCHANGED left
     \/ left > 0 /\ left' = left - 1 /\ reading' = [reading EXCEPT !.fields = NoFields]
  /\ UNCHANGED <<primary, meter, gone, backup, choice, filter, sampling, loop>>

PollEnds ==
  /\ reading # None /\ reading.fields # None
  /\ backup' = Replace(backup, reading.fields, reading.generation)
  /\ reading' = None
  /\ UNCHANGED <<primary, meter, gone, choice, filter, sampling, loop, left>>

\* _on_name_owner_changed
OwnerChanges ==
  /\ gone
  /\ gone' = FALSE /\ backup' = Invalidate(backup)
  /\ UNCHANGED <<primary, meter, reading, choice, filter, sampling, loop, left>>

-----------------------------------------------------------------------------
(* GridFilter.run *)

\* get_ac_in_power: an unavailable measurement is not zero, and not mixed in.
\* What happens between the generation and the read can only discard the sample,
\* so that they are one step.
SampleReads ==
  /\ sampling = None
  /\ Select
  /\ sampling' = IF Usable THEN [generation |-> filter.generation, raw |-> choice'.selection] ELSE None
  /\ UNCHANGED <<primary, meter, gone, reading, backup, filter, loop, left>>

Mix(f, s) == IF s.generation # f.generation THEN f ELSE [f EXCEPT !.mixed = @ \cup {s.raw}]

SampleEnds ==
  /\ sampling # None
  /\ filter' = Mix(filter, sampling) /\ sampling' = None
  /\ UNCHANGED <<primary, meter, gone, reading, backup, choice, loop, left>>

-----------------------------------------------------------------------------
(* The control cycle *)

\* Mutant: a sample being read survives the reset.
FaultyReset(f) == [f EXCEPT !.mixed = {}]

\* reset, called by _reset_grid_measurements
Reset(f) == [generation |-> f.generation + 1, mixed |-> {}]

CycleReads ==
  /\ loop.at = "idle"
  /\ Select
  /\ loop' = [loop EXCEPT !.at = "gate", !.valid = Usable, !.selection = choice'.selection]
  /\ UNCHANGED <<primary, meter, gone, reading, backup, filter, sampling, left>>

\* _grid_ready_for_control: histories end with an outage and with a new source
Gate(valid, selection, next) ==
  \/ /\ ~valid
     /\ filter' = IF loop.lost THEN filter ELSE Reset(filter)
     /\ loop' = [loop EXCEPT !.at = "idle", !.lost = TRUE, !.used = {}]
  \/ /\ valid /\ selection # loop.control
     /\ filter' = Reset(filter)
     /\ loop' = [loop EXCEPT !.at = "idle", !.control = selection, !.used = {}]
  \/ /\ valid /\ selection = loop.control
     /\ loop' = [loop EXCEPT !.at = next, !.lost = FALSE]
     /\ UNCHANGED filter

CycleGate ==
  /\ loop.at = "gate"
  /\ Gate(loop.valid, loop.selection, "calculate")
  /\ UNCHANGED <<primary, meter, gone, reading, backup, choice, sampling, left>>

\* calculate_setpoint reads the snapshot and the filter's value
CycleCalculates ==
  /\ loop.at = "calculate"
  /\ loop' = [loop EXCEPT !.at = "recheck", !.used = filter.mixed \cup {loop.selection}]
  /\ UNCHANGED <<primary, meter, gone, reading, backup, choice, filter, sampling, left>>

\* _skip_changed_grid
CycleRechecks ==
  /\ loop.at = "recheck"
  /\ Select
  /\ IF choice'.selection # loop.selection
       THEN loop' = [loop EXCEPT !.at = "idle", !.used = {}] /\ UNCHANGED filter
       ELSE Gate(Usable, choice'.selection, "write")
  /\ UNCHANGED <<primary, meter, gone, reading, backup, sampling, left>>

CycleWrites ==
  /\ loop.at = "write"
  /\ loop' = [loop EXCEPT !.at = "idle", !.used = {}]
  /\ UNCHANGED <<primary, meter, gone, reading, backup, choice, filter, sampling, left>>

-----------------------------------------------------------------------------
(* The meters, their services and time *)

Change == left > 0 /\ left' = left - 1

PrimaryChanges ==
  /\ Change /\ primary' = ~primary
  /\ UNCHANGED <<meter, gone, reading, backup, choice, filter, sampling, loop>>

MeterMeasures ==
  /\ Change /\ meter' = 0
  /\ UNCHANGED <<primary, gone, reading, backup, choice, filter, sampling, loop>>

\* A restarted service keeps the timestamp it was last fed.
MeterRestarts ==
  /\ Change /\ gone' = TRUE
  /\ backup' = [backup EXCEPT !.fields.departed = @ \/ backup.fields.ok]
  /\ reading' = IF reading = None \/ reading.fields = None THEN reading
                ELSE [reading EXCEPT !.fields.departed = TRUE]
  /\ UNCHANGED <<primary, meter, choice, filter, sampling, loop>>

Tick ==
  /\ meter' = Older(meter, MaxAge)
  /\ reading' = IF reading = None \/ reading.fields = None THEN reading
                ELSE [reading EXCEPT !.fields = Aged(@)]
  /\ backup' = [backup EXCEPT !.fields = Aged(@), !.read = Older(@, ReadLimit),
                              !.deadline = IF @ = 0 THEN 0 ELSE @ - 1]
  /\ choice' = [choice EXCEPT !.since = Older(@, Recovery)]
  /\ UNCHANGED <<primary, gone, filter, sampling, loop, left>>

Next ==
  \/ PollBegins \/ PollAnswers \/ PollEnds \/ OwnerChanges
  \/ SampleReads \/ SampleEnds
  \/ CycleReads \/ CycleGate \/ CycleCalculates \/ CycleRechecks \/ CycleWrites
  \/ PrimaryChanges \/ MeterMeasures \/ MeterRestarts \/ Tick

Spec == Init /\ [][Next]_vars

-----------------------------------------------------------------------------
(* Properties *)

\* "Re-reading an old value cannot renew its measurement lifetime": whatever
\* delays the poll thread, and whenever the service restarts, a backup value
\* that select() would accept was measured less than MaxAge ago, by a service
\* whose departure has not been signalled (grid_backup.py, replace/invalidate).
BackupTrusted ==
  Ready => backup.fields.age < MaxAge /\ (backup.fields.departed => gone)

\* A setpoint is written only if the snapshot and every sample in the smoothed
\* value it was calculated from belong to the selection in force when the grid
\* was rechecked, although two threads move the selection and the filter's
\* thread mixes between any two steps of the cycle.
OneSourcePerDecision == loop.at = "write" => Cardinality(loop.used) = 1

=============================================================================
