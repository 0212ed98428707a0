----------------------------- MODULE Regulation -----------------------------
(* logic.py in a loop with the plant it controls: SetpointCalculator and its  *)
(* strategies, the inverter that follows the setpoint sooner or later, and    *)
(* the grid, which carries what the loads take and the inverter does not give.*)
(*                                                                            *)
(* Powers are in watts, the coefficients those of config.py, the results cut  *)
(* to integers where the code cuts them. The filtered grid power, a float in  *)
(* the code, is an integer that reaches its target; the creep is kept in      *)
(* half watts. The blend with a house meter, off as shipped, is left out.     *)
EXTENDS Integers, FiniteSetsExt

CONSTANTS
  None,
  Loads,     \* what house and chargers may take from the grid and the inverter
  Modes,     \* the operator's modes, with the solar, EV and garage power of the site
  Ranges,    \* the limits that may be set
  Changes    \* bound: changes of load, mode and limits, and late answers of the inverter

VARIABLES
  background,  \* the filter is the thread's (GridFilter), not the calculator's
  load, mode, range,
  inverter,    \* what the inverter does
  setpoint,    \* previous_setpoint
  filtered,    \* the filtered grid power, None before the first
  prev,        \* prev_effective_gt
  creep,       \* creep_accumulator, in half watts
  due,         \* a cycle comes next
  changes

regVars == <<background, load, mode, range, inverter, setpoint, filtered, prev, creep, due, changes>>

DeadbandLow == -50
DeadbandHigh == 30
DeltaLimit == 2000
CreepMax == 200
Near == 60

TypeOK ==
  /\ background \in BOOLEAN /\ load \in Loads /\ mode \in Modes /\ range \in Ranges
  /\ inverter \in Int /\ setpoint \in Int /\ creep \in -CreepMax .. CreepMax
  /\ filtered = None \/ filtered \in Int
  /\ prev = None \/ prev \in Int
  /\ due \in BOOLEAN /\ changes \in 0 .. Changes

Grid == load + inverter

Init ==
  /\ background \in BOOLEAN /\ load \in Loads /\ mode \in Modes /\ range \in Ranges
  /\ inverter = 0 /\ setpoint = 0 /\ prev = None /\ creep = 0 /\ due = TRUE
  /\ filtered = (IF background THEN Grid ELSE None) /\ changes = 0

-----------------------------------------------------------------------------
(* Arithmetic *)

\* int(n / d)
Cut(n, d) == IF n < 0 THEN -((-n) \div d) ELSE n \div d

Within(w, r) == Min({r.max, Max({r.min, w})})

Magnitude(w) == Max({w, -w})

\* 0.3 of the way, and all of it when next to there
Smoothed(old, new) == IF Magnitude(new - old) <= 3 THEN new ELSE old + Cut(3 * (new - old), 10)

-----------------------------------------------------------------------------
(* The strategies *)

InBand(f) == f > DeadbandLow /\ f < DeadbandHigh

\* The creep pushes what is left in the deadband towards zero, twice as fast out
\* of an export, and starts again outside.
Crept(f) ==
  IF ~InBand(f) \/ f = 0 THEN 0
  ELSE Within(IF f > 0 THEN creep + 1 ELSE creep - 2, [min |-> -CreepMax, max |-> CreepMax])

\* Damping 0.7 for an import, 1.0 for an export
Damped(f, w) == IF f < 0 THEN 10 * w ELSE 7 * w

\* normal_strategy
Normal(f) ==
  IF InBand(f) THEN setpoint - Cut(Damped(f, Crept(f)), 20)
  ELSE Cut(10 * inverter - Damped(f, f), 10)

\* "A raw derivative must not turn a filtered deadband hold into alternating
\* commands."
Holds(f, raw) == InBand(f) /\ Cut(9 * (raw - setpoint), 10) = 0

Bursts(gt, old) == old # None /\ Magnitude(gt - old) > 150

\* _apply_burst_correction and _apply_d_term
Corrected(gt, old, f) ==
  LET raw   == Normal(f)
      burst == IF Bursts(gt, old) THEN raw + Cut(-8 * (gt - old), 10) ELSE raw
      brake == prev # None /\ Magnitude(gt) < 100 /\ Magnitude(gt - prev) > 50 /\ ~Holds(f, raw)
  IN  IF brake THEN burst - Cut(3 * (gt - prev), 10) ELSE burst

Solar == Cut(94 * mode.mppt, 100)

OnlyCharging(w) == IF mode.onlyCharging THEN Max({w, -Max({0, Solar - 60})}) ELSE w

\* By the garage's meter, or the EV's own
EvCharging == mode.garage > 1000 \/ (mode.ev # None /\ mode.ev > 1000)

LimitToEv(w) == IF mode.limitToEv /\ EvCharging THEN -Max({0, Solar - 500}) ELSE w

NoFeed(w) == IF mode.noFeed THEN mode.pv ELSE w

HouseSupport(w) == IF mode.houseSupport THEN mode.pv - 300 ELSE w

\* Mutant: the tariff window does not stop a charge.
FaultyCharge(w) == IF mode.charge THEN 2200 ELSE w

Charge(w) == IF mode.charge /\ ~mode.blocked THEN 2200 ELSE w

\* In order of priority, the lowest first
Moded(w) == Charge(HouseSupport(NoFeed(LimitToEv(OnlyCharging(w)))))

\* The EV's share of the load, left to the grid
Excluded == IF mode.exclude /\ mode.ev # None /\ mode.ev > 100 THEN mode.ev ELSE 0

\* guard_unknown_ev_power
Restricted == mode.exclude /\ mode.ev = None /\ (mode.onlyCharging \/ mode.noFeed)

Guarded(w) == IF Restricted THEN Max({0, w}) ELSE w

\* The software fuse
Slewed(w) == Within(w, [min |-> setpoint - DeltaLimit, max |-> setpoint + DeltaLimit])

\* Mutant: the slew limit comes last.
FaultyLimited(w) == Slewed(Within(w, range))

\* "Absolute limits win over the slew rate."
Limited(w) == Within(Slewed(Within(w, range)), range)

\* calculate: nine tenths of the way, all of it after a burst
Result(gt, old, f) ==
  LET diff == Moded(Corrected(gt, old, f)) - setpoint
  IN  Guarded(Limited(setpoint + (IF Bursts(gt, old) THEN diff ELSE Cut(9 * diff, 10))))

-----------------------------------------------------------------------------
(* The loop *)

Cycle ==
  LET gt  == Grid - Excluded
      old == IF background THEN filtered - Excluded ELSE filtered
      f   == IF background THEN old ELSE IF old = None THEN gt ELSE Smoothed(old, gt)
  IN  /\ due /\ due' = FALSE
      /\ setpoint' = Result(gt, old, f)
      /\ creep' = Crept(f) /\ prev' = gt
      /\ filtered' = IF background THEN filtered ELSE f
      /\ UNCHANGED <<background, load, mode, range, inverter, changes>>

\* The filter thread samples between two cycles.
Sampled == IF background THEN Smoothed(filtered, load + inverter') ELSE filtered

\* The inverter has followed, or has not yet, when the next cycle reads.
Follow ==
  /\ ~due /\ due' = TRUE /\ inverter' = setpoint /\ filtered' = Sampled
  /\ UNCHANGED <<background, load, mode, range, setpoint, prev, creep, changes>>

Lag ==
  /\ ~due /\ changes < Changes /\ changes' = changes + 1 /\ due' = TRUE /\ UNCHANGED inverter /\ filtered' = Sampled
  /\ UNCHANGED <<background, load, mode, range, setpoint, prev, creep>>

\* The house, or the operator
Change ==
  /\ changes < Changes /\ changes' = changes + 1 /\ due
  /\ \/ load' \in Loads \ {load} /\ UNCHANGED <<mode, range>>
     \/ mode' \in Modes \ {mode} /\ UNCHANGED <<load, range>>
     \/ range' \in Ranges \ {range} /\ UNCHANGED <<load, mode>>
  /\ UNCHANGED <<background, inverter, setpoint, filtered, prev, creep, due>>

Next == Cycle \/ Follow \/ Lag \/ Change

Spec == Init /\ [][Next]_regVars

\* The loop runs and the inverter follows: cycles and what the inverter does take
\* turns for ever.
Turn == due' = ~due

FairSpec == Spec /\ WF_due(Turn)

-----------------------------------------------------------------------------
(* Properties *)

\* Whatever the loads, a mode or a narrowed range just did: a command is within
\* the limits in force, or zero where an unknown EV forbids a discharge, and it
\* moves no further than the slew limit unless the limits demand it.
CommandsAreBounded ==
  [][setpoint' # setpoint =>
       /\ setpoint' = Within(setpoint', range) \/ (Restricted /\ setpoint' = 0)
       /\ Restricted => setpoint' >= 0
       /\ Magnitude(setpoint' - setpoint) <= DeltaLimit \/ setpoint' \in {range.min, range.max, 0}]_regVars

\* Where the loop is to end: the grid in the deadband, or the inverter as near to
\* that as the limits let it; in a mode, within a watt of what the mode wants.
Wanted ==
  IF mode.charge /\ ~mode.blocked THEN 2200
  ELSE IF mode.houseSupport THEN mode.pv - 300
  ELSE IF mode.noFeed THEN mode.pv
  ELSE IF mode.limitToEv /\ EvCharging THEN -Max({0, Solar - 500})
  ELSE None

Settled ==
  LET grid  == Grid - Excluded
      floor == IF Restricted THEN Max({0, range.min}) ELSE range.min
      least == IF mode.onlyCharging THEN Max({floor, Within(-Max({0, Solar - 60}), range)}) ELSE floor
  IN  IF Wanted # None THEN Magnitude(inverter - Guarded(Within(Wanted, range))) <= 1
      ELSE \/ Magnitude(grid) <= Near
           \/ grid > 0 /\ Magnitude(inverter - least) <= 1
           \/ grid < 0 /\ inverter >= range.max - 1

\* "Target grid zero": after the last disturbance the loop settles and stays
\* settled; filter, burst, brake, creep and convergence do not drive each other
\* into an oscillation, however late the inverter was.
Settles == <>[]Settled
=============================================================================
