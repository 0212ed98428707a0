---------------------------- MODULE ChargeLimits ----------------------------
(* dvcc.py and the cell data it works on: the charge and discharge currents   *)
(* the battery's cells allow.                                                 *)
(*                                                                            *)
(* The poll thread of VictronDBus reads every chain of cells at intervals; a  *)
(* chain that does not answer keeps what it answered last. The control loop   *)
(* takes the chains together at intervals of its own: from that cache, if it  *)
(* holds a measurement; else it has no data, or reads the bus when no thread  *)
(* polls. It computes the limits every cycle: the smallest of what each       *)
(* measurement allows, with a rate limit that a cutoff skips. All of it goes  *)
(* by the wall clock, which may be set forward or back.                       *)
EXTENDS Integers, FiniteSets, FiniteSetsExt

CONSTANTS
  None,
  Chains,     \* BATTERY_CELL_SERVICES
  Readings,   \* what a chain may answer; temperatures in the range of the live read
  MaxCharge, MaxDischarge, MinCharge,   \* in 0.1 A
  ChargeRate, DischargeRate,            \* per unit of time
  Interval,   \* CELL_DATA_POLL_INTERVAL, and the control loop's, in units
  Changes,    \* bound: changes of what the chains answer
  Steps       \* bound: steps of the wall clock

VARIABLES
  bus,        \* what each chain answers now, None when it cannot be read
  cache,      \* _cached_battery_cell_data of VictronDBus
  polling,    \* the poll thread is alive
  polled,     \* wall time since it last read all chains
  taken,      \* the controller's copy, or None
  fetched,    \* wall time since it took it
  limits,     \* the last limits: currents and the data they rest on
  elapsed,    \* wall time since they were computed
  steady,     \* history: time since the answers last changed or failed
  back,       \* history: the clock was set back
  changes, steps

chargeVars == <<bus, cache, polling, polled, taken, fetched, limits, elapsed, steady, back, changes, steps>>

\* A change is read within an interval, taken within another, each with a cycle.
Lag == 2 * Interval + 2

TypeOK ==
  /\ bus \in [Chains -> Readings \cup {None}] /\ cache \in [Chains -> Readings \cup {None}]
  /\ polling \in BOOLEAN /\ polled \in Int /\ fetched \in Int /\ elapsed \in Int
  /\ taken = None \/ taken.charge \in BOOLEAN
  /\ limits = None \/ (limits.ccl \in Int /\ limits.dcl \in Int)
  /\ steady \in 0 .. Lag /\ back \in BOOLEAN /\ changes \in 0 .. Changes /\ steps \in 0 .. Steps

\* Nothing is read yet: all due.
Init ==
  /\ bus \in [Chains -> Readings] /\ cache = [c \in Chains |-> None] /\ polling \in BOOLEAN
  /\ polled = Interval /\ taken = None /\ fetched = Interval + 1 /\ limits = None /\ elapsed = 0
  /\ steady = 0 /\ back = FALSE /\ changes = 0 /\ steps = 0

-----------------------------------------------------------------------------
(* The chains together: _aggregate_cached_chains, _build_cell_result *)

\* Of the chains' entries, the known values of one field
Known(entries, field) == {e[field] : e \in entries} \ {None}

Highest(S) == IF S = {} THEN None ELSE Max(S)
Lowest(S) == IF S = {} THEN None ELSE Min(S)

\* Mutant: one chain that allows it is enough.
FaultyAllowed(flags) == flags = {} \/ TRUE \in flags

\* Every chain that says so must allow it.
Allowed(flags) == FALSE \notin flags

Entries(chains) == {chains[c] : c \in Chains} \ {None}

\* The chains' charge levels, added up
Levels(chains, S) == MapThenSumSet(LAMBDA c : chains[c].soc, S)

\* _build_cell_result of all chains: the average of the charge levels is taken
\* chain by chain, and no chain known forbids nothing.
Together(chains) ==
  LET E == Entries(chains)
      S == {c \in Chains : chains[c] # None /\ chains[c].soc # None}
  IN  [high   |-> Highest(Known(E, "high")), low  |-> Lowest(Known(E, "low")),
       hot    |-> Highest(Known(E, "hot")),  cold |-> Lowest(Known(E, "cold")),
       soc    |-> IF S = {} THEN None ELSE Levels(chains, S) \div Cardinality(S),
       charge |-> Allowed(Known(E, "charge")), discharge |-> Allowed(Known(E, "discharge"))]

\* A cell voltage, a temperature or a charge level is known; permissions alone
\* count as no data.
Measured(chains) == \E e \in Entries(chains), field \in {"high", "hot", "soc"} : e[field] # None

Unread == [c \in Chains |-> None]

-----------------------------------------------------------------------------
(* The policy, with the thresholds of config.py, volts in 0.01 V *)

\* The line from (a, u) to (b, w)
Slope(x, a, b, u, w) == u + ((w - u) * (x - a)) \div (b - a)

CclFromCell(v) ==
  CASE v = None \/ v < 345 -> MaxCharge
    [] v \in 345 .. 349 -> Slope(v, 345, 350, MaxCharge, MaxCharge \div 5)
    [] v \in 350 .. 354 -> Slope(v, 350, 355, MaxCharge \div 5, MinCharge)
    [] v \in 355 .. 359 -> Slope(v, 355, 360, MinCharge, 0)
    [] OTHER            -> 0

CclFromImbalance(delta) ==
  CASE delta = None \/ delta <= 5 -> MaxCharge
    [] delta \in 6 .. 9   -> Slope(delta, 5, 10, MaxCharge, (3 * MaxCharge) \div 10)
    [] delta \in 10 .. 19 -> Slope(delta, 10, 20, (3 * MaxCharge) \div 10, MinCharge)
    [] OTHER              -> MinCharge

\* The hottest cell counts, unless it is unknown.
CclFromTemperature(cold, hot) ==
  LET t == IF hot = None THEN cold ELSE hot IN
  CASE t = None -> MaxCharge
    [] t # None /\ (t <= 0 \/ t >= 50) -> 0
    [] t \in 1 .. 4   -> Max({Slope(t, 0, 5, 0, MaxCharge \div 2), MinCharge})
    [] t \in 5 .. 9   -> Max({Slope(t, 5, 10, MaxCharge \div 10, MaxCharge \div 2), MinCharge})
    [] t \in 41 .. 49 -> Max({Slope(t, 40, 50, MaxCharge, 0), MaxCharge \div 5})
    [] OTHER          -> MaxCharge

CclFromSoc(soc) ==
  IF soc = None \/ soc < 95 THEN MaxCharge ELSE Slope(Min({soc, 100}), 95, 100, MaxCharge, MaxCharge \div 2)

DclFromCell(v) ==
  CASE v = None \/ v >= 300 -> MaxDischarge
    [] v \in 291 .. 299 -> Slope(v, 290, 300, MaxDischarge \div 2, MaxDischarge)
    [] v \in 271 .. 290 -> Slope(v, 270, 290, 0, MaxDischarge \div 2)
    [] OTHER            -> 0

DclFromTemperature(cold, hot) ==
  LET t == IF cold = None THEN hot ELSE cold IN
  CASE t = None \/ t >= -10 -> MaxDischarge
    [] t \in -19 .. -11 -> Slope(t, -20, -10, 0, (3 * MaxDischarge) \div 10)
    [] OTHER            -> 0

DclFromSoc(soc) ==
  IF soc = None \/ soc > 15 THEN MaxDischarge ELSE Slope(Max({soc, 5}), 5, 15, 0, MaxDischarge \div 2)

\* The most restrictive source, and what the battery management forbids
Ccl(d) ==
  LET delta == IF d.high = None THEN None ELSE d.high - d.low
  IN  IF d.charge
        THEN Min({CclFromCell(d.high), CclFromImbalance(delta), CclFromTemperature(d.cold, d.hot), CclFromSoc(d.soc)})
        ELSE 0

Dcl(d) ==
  IF d.discharge THEN Min({DclFromCell(d.low), DclFromTemperature(d.cold, d.hot), DclFromSoc(d.soc)}) ELSE 0

\* _rate_limit_value; "hard safety cutoff: apply immediately"
Limited(value, last, change) ==
  CASE value <= 0 \/ value = last   -> value
    [] value > 0 /\ value > last    -> Min({value, last + change})
    [] value > 0 /\ value < last    -> Max({value, last - 2 * change})

-----------------------------------------------------------------------------
(* The steps *)

\* One pass over the chains; one that does not answer keeps its entry.
Pass == [c \in Chains |-> IF bus[c] = None THEN cache[c] ELSE bus[c]]

\* _poll_battery_cell_data_tree on the poll thread
Poll ==
  /\ polling /\ polled >= Interval
  /\ cache' = Pass /\ polled' = 0
  /\ UNCHANGED <<bus, polling, taken, fetched, limits, elapsed, steady, back, changes, steps>>

\* What get_battery_cell_data takes the chains from. A cache without a measurement
\* is none: while a thread polls there is no data then, from which the limits are
\* computed as if nothing were known and nothing forbidden. Otherwise the chains
\* are read from the bus, past the cache and the check; what fails is unknown.
Source(chains) == IF Measured(chains) THEN chains ELSE IF polling THEN Unread ELSE bus

\* _update_dvcc_limits, when the controller's copy is too old: get_battery_cell_data
\* refreshes the cache on the control thread only when the poll thread is dead.
Fetch ==
  LET own == ~polling /\ polled >= Interval IN
  /\ fetched > Interval
  /\ cache' = IF own THEN Pass ELSE cache
  /\ polled' = IF own THEN 0 ELSE polled
  /\ taken' = Together(Source(cache')) /\ fetched' = 0
  /\ UNCHANGED <<bus, polling, limits, elapsed, steady, back, changes, steps>>

\* DvccCalculator.calculate, once per cycle; the first result is not limited.
Calculate ==
  /\ fetched <= Interval /\ taken # None /\ (limits # None /\ elapsed = 0 => limits.data # taken)
  /\ limits' =
       [ccl  |-> IF limits = None THEN Ccl(taken) ELSE Limited(Ccl(taken), limits.ccl, ChargeRate * elapsed),
        dcl  |-> IF limits = None THEN Dcl(taken) ELSE Limited(Dcl(taken), limits.dcl, DischargeRate * elapsed),
        data |-> taken]
  /\ elapsed' = 0
  /\ UNCHANGED <<bus, cache, polling, polled, taken, fetched, steady, back, changes, steps>>

-----------------------------------------------------------------------------
(* The environment *)

Change(c, r) ==
  /\ changes < Changes /\ changes' = changes + 1 /\ bus' = [bus EXCEPT ![c] = r] /\ steady' = 0
  /\ bus[c] # r
  /\ UNCHANGED <<cache, polling, polled, taken, fetched, limits, elapsed, back, steps>>

\* The poll thread and the control loop keep up: what is due is done first.
Tick ==
  /\ (polling => polled < Interval) /\ fetched <= Interval /\ limits # None /\ elapsed <= 0 /\ limits.data = taken
  /\ polled' = Min({polled + 1, Interval}) /\ fetched' = fetched + 1 /\ elapsed' = elapsed + 1
  /\ steady' = IF None \in {bus[c] : c \in Chains} THEN 0 ELSE Min({steady + 1, Lag})
  /\ UNCHANGED <<bus, cache, polling, taken, limits, back, changes, steps>>

\* The clock is set, by more than a cycle; before the first cycle all is due.
Step(d) ==
  /\ limits # None /\ steps < Steps /\ steps' = steps + 1 /\ back' = (back \/ d < 0)
  /\ polled' = polled + d /\ fetched' = fetched + d /\ elapsed' = elapsed + d
  /\ UNCHANGED <<bus, cache, polling, taken, limits, steady, changes>>

Next ==
  \/ Poll \/ Fetch \/ Calculate \/ Tick
  \/ \E c \in Chains, r \in Readings \cup {None} : Change(c, r)
  \/ \E d \in {-2, 2} : Step(d)

Spec == Init /\ [][Next]_chargeVars

-----------------------------------------------------------------------------
(* Properties *)

\* While the clock is not set back: for as long as two intervals every chain has
\* answered the same, and the limits are of this cycle.
UpToDate ==
  ~back /\ steady = Lag /\ limits # None /\ elapsed = 0 /\ limits.data = taken /\ fetched <= Interval

\* "The goal is to protect cells BEFORE BMS triggers emergency cutoff": a cell that is
\* beyond a cutoff for that long has the current stopped, at once and not by steps,
\* whatever the other chains say; so does a chain that forbids the current, if any
\* chain is measured or the control loop reads the bus itself. While the poll thread
\* lives and none is, _build_from_cache forgets the prohibition.
CutoffArrives ==
  UpToDate =>
    \A c \in Chains :
      /\ bus[c].high # None /\ bus[c].high >= 360 => limits.ccl = 0
      /\ bus[c].low # None /\ bus[c].low <= 270 => limits.dcl = 0
      /\ bus[c].charge = FALSE /\ (Measured(bus) \/ ~polling) => limits.ccl = 0
      /\ bus[c].discharge = FALSE /\ (Measured(bus) \/ ~polling) => limits.dcl = 0

\* The limits stay between zero and the battery's, however the data jump and
\* whatever the rate limit adds up to, while the clock is not set back.
CurrentsInRange ==
  ~back /\ limits # None => limits.ccl \in 0 .. MaxCharge /\ limits.dcl \in 0 .. MaxDischarge

=============================================================================
