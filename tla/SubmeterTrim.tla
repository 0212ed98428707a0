---------------------------- MODULE SubmeterTrim ----------------------------
(* submeter_trim.py: the slow correction of a held command, and the cycle of  *)
(* controller.py that proposes it, checks it again under the watchdog's lock, *)
(* writes it and commits it.                                                  *)
(*                                                                            *)
(* Reports are delayed: the time of a measurement says what it may be used    *)
(* for, and stands for the report.  A correction is one step down; whether    *)
(* the average leaves the dead zone, the spreads stay in their ranges and a   *)
(* repeated report kept its power are free choices of each proposal.          *)
(*                                                                            *)
(* One "now" stands for two clocks: that of the reports (time.time, _sample   *)
(* and _command_wall) and that of the cycle (time.monotonic, _command_time),  *)
(* so that the wall clock is never set; and no report is of the future, for   *)
(* which the code allows MAX_FUTURE.                                          *)
EXTENDS Integers, FiniteSets

CONSTANTS
  None,
  MaxAge,       \* MAX_AGE
  SettleTime,       \* SETTLE_SECONDS
  Delay,        \* MEASUREMENT_DELAY
  Window,       \* WINDOW_SECONDS
  MinReports,   \* MIN_REPORTS, with MIN_SPAN = 1
  MaxTotal,     \* MAX_TOTAL
  Horizon,      \* bound: the time explored
  Events        \* bound: other writes, watchdog episodes, mode and source changes

VARIABLES
  now,          \* time.time() and time.monotonic()
  sample,       \* _grid_backup_status: the newest report, None when unavailable
  world,        \* what the cycle depends on: previous, mode, episode and source
  trim,         \* the SubmeterTrim
  cycle,        \* run_cycle between the proposal and the write
  accepted,     \* history: what the inverter accepted, and on which evidence
  events        \* what remains of Events

tvars == <<now, sample, world, trim, cycle, accepted, events>>

Times == 0 .. Horizon
Idle == [at |-> "idle"]

TypeOK ==
  /\ now \in Times /\ events \in 0 .. Events
  /\ sample \in {None} \cup Times
  /\ world.previous \in Int /\ world.source \in 0 .. Events
  /\ trim.total \in -MaxTotal .. MaxTotal /\ trim.reports \subseteq Times /\ trim.warmup \in BOOLEAN
  /\ cycle.at \in {"idle", "write"}
  /\ accepted.moved \in Times /\ accepted.sound \in BOOLEAN

Init ==
  /\ now = 0 /\ events = Events /\ sample = None
  /\ world = [previous |-> 0, mode |-> 0, episode |-> 0, source |-> 0]
  /\ trim = [context |-> None, setpoint |-> None, command |-> None, last |-> None, reports |-> {},
             total |-> 0, warmup |-> TRUE, issued |-> None, pending |-> None,
             mode |-> 0, episode |-> 0]
  /\ cycle = Idle
  /\ accepted = [moved |-> 0, spent |-> -1, drift |-> 0, sound |-> TRUE]

-----------------------------------------------------------------------------
(* SubmeterTrim *)

Cleared(t) == [t EXCEPT !.reports = {}, !.pending = None]

\* reset: "without renewing the budget"
Reset(t) == [Cleared(t) EXCEPT !.warmup = TRUE, !.issued = None]

Decision(delta, base, report) ==
  [delta |-> delta, setpoint |-> base + delta, previous |-> world.previous, time |-> report]
Issue(t, d) == [t EXCEPT !.issued = d, !.pending = IF d.delta # 0 THEN d ELSE @]
Hold(t) == Issue(t, Decision(0, world.previous, None))

\* _restart_baseline, or the end of a warmup
Baseline(t) ==
  IF world.source # t.context \/ world.previous # t.setpoint
    THEN [Cleared(t) EXCEPT !.context = world.source, !.setpoint = world.previous, !.command = now,
                            !.total = 0, !.last = None, !.warmup = FALSE]
  ELSE IF t.warmup THEN [t EXCEPT !.command = now, !.warmup = FALSE]
  ELSE t

\* Mutant: a report may predate the command it is to correct.
FaultyPredates(t) == FALSE

\* A report measured before the last command, or too soon after it
Predates(t) == sample < t.command + Delay

Recent(reports) == {r \in reports : sample - r <= Window}
Enough(reports) == Cardinality(reports) >= MinReports /\ \E r \in reports : r # sample

\* _propose_window and _bounded_trim_decision; "steady" and
\* "drifted" are the free choices.
Windowed(t, steady, drifted) ==
  LET new == t.last = None \/ sample > t.last
      u == IF new THEN [t EXCEPT !.pending = None, !.last = sample] ELSE t
      v == [u EXCEPT !.reports = Recent(IF new THEN @ \cup {sample} ELSE @)]
      delta == IF drifted THEN -1 ELSE 0 IN
  IF ~steady THEN Hold(Cleared(t))
  ELSE IF t.last # None /\ sample < t.last THEN Hold(Cleared(t))
  ELSE IF Predates(t) THEN Hold([u EXCEPT !.pending = None])
  ELSE IF now - v.command < SettleTime THEN Hold(v)
  ELSE IF v.pending # None THEN [v EXCEPT !.issued = v.pending]
  ELSE IF ~new \/ ~Enough(v.reports) \/ v.total + delta < -MaxTotal THEN Hold(v)
  ELSE Issue(v, Decision(delta, world.previous, sample))

Usable == sample # None /\ now - sample <= MaxAge

\* propose
Propose(t, eligible, base, steady, drifted) ==
  IF ~eligible THEN Issue(Reset(t), Decision(0, base, None))
  ELSE IF base # world.previous THEN Issue(Cleared(t), Decision(0, base, None))
  ELSE IF ~Usable THEN Hold(Reset(t))
  ELSE Windowed(Baseline(t), steady, drifted)

\* commit
Committed(t, d) ==
  LET trimmed == d.delta # 0
      changed == d.setpoint # d.previous
      u == [t EXCEPT !.issued = None, !.pending = None] IN
  IF d # t.issued THEN t
  ELSE IF changed
    THEN [Cleared(u) EXCEPT !.command = now, !.setpoint = d.setpoint, !.warmup = FALSE,
                            !.total = IF trimmed THEN @ + d.delta ELSE 0]
  ELSE u

-----------------------------------------------------------------------------
(* run_cycle *)

\* Histories end with a watchdog episode and with a mode.
Current(t) ==
  IF t.episode = world.episode /\ t.mode = world.mode THEN t
  ELSE [Reset(t) EXCEPT !.episode = world.episode, !.mode = world.mode]

\* _apply_submeter_trim: the fast control holds or moves
CycleProposes ==
  /\ cycle.at = "idle"
  /\ \E eligible, steady, drifted \in BOOLEAN, base \in {world.previous, 10} :
       LET t == Propose(Current(trim), eligible, base, steady, drifted) IN
       /\ trim' = t
       /\ cycle' = [at |-> "write", decision |-> t.issued, reports |-> t.reports, world |-> world, sample |-> sample]
  /\ UNCHANGED <<now, sample, world, accepted, events>>

\* _trim_write_ready proposes once more: the same decision must come back.
Ready(t, steady) ==
  cycle.decision.delta # 0 =>
    /\ cycle.world.source = world.source /\ cycle.world.mode = world.mode /\ cycle.sample = sample
    /\ Propose(trim, TRUE, world.previous, steady, FALSE).issued = cycle.decision

Rechecked(steady) == IF cycle.decision.delta = 0 THEN trim ELSE Propose(trim, TRUE, world.previous, steady, FALSE)

\* History of an accepted write
Accept(d) ==
  [moved |-> IF d.setpoint # d.previous THEN now ELSE accepted.moved,
   spent |-> IF d.delta # 0 THEN d.time ELSE accepted.spent,
   drift |-> IF d.setpoint = d.previous THEN accepted.drift
             ELSE IF d.delta # 0 THEN accepted.drift + d.delta ELSE 0,
   sound |-> /\ accepted.sound
             /\ d.delta # 0 => /\ d.time > accepted.spent
                               /\ \A r \in cycle.reports : r >= accepted.moved + Delay]

\* _write_cycle_setpoint, under the watchdog's lock: a changed sample and a
\* rejected write reset the history, an accepted one is committed.
CycleWrites ==
  /\ cycle.at = "write" /\ cycle' = Idle
  /\ \E steady \in BOOLEAN :
       LET d == cycle.decision IN
       \/ /\ ~Ready(trim, steady) \/ cycle.world.episode # world.episode
          /\ trim' = Reset(Rechecked(steady)) /\ UNCHANGED <<world, accepted>>
       \/ /\ Ready(trim, steady) /\ cycle.world.episode = world.episode
          /\ \/ trim' = Reset(Rechecked(steady)) /\ UNCHANGED <<world, accepted>>
             \/ /\ trim' = Committed(Rechecked(steady), d)
                /\ world' = [world EXCEPT !.previous = d.setpoint]
                /\ accepted' = Accept(d)
  /\ UNCHANGED <<now, sample, events>>

-----------------------------------------------------------------------------
(* The meter, the watchdog, the operator and time *)

Event == events > 0 /\ events' = events - 1

\* A report arrives up to MaxAge after it was measured, or none at all.
Report ==
  /\ \/ sample' = None
     \/ sample' \in {now - 1, now} \cap Times
  /\ sample' # sample
  /\ UNCHANGED <<now, world, trim, cycle, accepted, events>>

\* The watchdog writes zero, a fallback or the baseline: a new generation
Episode ==
  /\ Event /\ world' = [world EXCEPT !.episode = @ + 1]
  /\ accepted' = [accepted EXCEPT !.moved = now]
  /\ UNCHANGED <<now, sample, trim, cycle>>

\* A manual command is accepted outside the trim, and changes the mode.
Manual ==
  /\ Event /\ cycle.at = "idle"
  /\ world' = [world EXCEPT !.previous = @ + 1, !.mode = @ + 1]
  /\ trim' = Reset(trim)
  /\ accepted' = [accepted EXCEPT !.moved = now, !.drift = 0]
  /\ UNCHANGED <<now, sample, cycle>>

ModeChanges ==
  /\ Event /\ world' = [world EXCEPT !.mode = @ + 1]
  /\ UNCHANGED <<now, sample, trim, cycle, accepted>>

\* Another primary source, or a restarted submeter service
SourceChanges ==
  /\ Event /\ world' = [world EXCEPT !.source = @ + 1]
  /\ accepted' = [accepted EXCEPT !.drift = 0]
  /\ UNCHANGED <<now, sample, trim, cycle>>

Tick ==
  /\ now < Horizon /\ now' = now + 1
  /\ UNCHANGED <<sample, world, trim, cycle, accepted, events>>

Next ==
  \/ CycleProposes \/ CycleWrites
  \/ Report \/ Episode \/ Manual \/ ModeChanges \/ SourceChanges \/ Tick

Spec == Init /\ [][Next]_tvars

-----------------------------------------------------------------------------
(* Properties *)

\* "A small correction per fresh, settled window, without a running ramp": every
\* accepted correction rests on reports measured after the command they correct
\* had settled, whoever wrote it, on a report no earlier correction used; and
\* failed writes, outages, modes and watchdog episodes never renew the budget.
CorrectionsRestOnEvidence ==
  accepted.sound /\ accepted.drift \in -MaxTotal .. MaxTotal

=============================================================================
