# Formal models of inverter-control

`inverter-control` runs on a Victron GX device. Every fraction of a second it
reads the grid meter, computes an AC-input setpoint and writes it to the
inverter over D-Bus. The program is about what may be written, by whom and on
which evidence: a control loop, an operator's override, a stalled-loop zero and
a meter-loss fallback compete for one setpoint, on three threads, over a bus
whose calls time out without saying whether they took effect.

This directory holds TLA+ models of that program, TLC configurations that check
them on small instances and TLAPS proofs that hold for every instance.
Source paths below are relative to the repository.

## 1. Inventory

| Component | State it keeps | Operations | What is hard, what makes it correct |
|---|---|---|---|
| Hardware watchdog `inverter_control/watchdog.py` | override and its refresh, trip, forced hardware, saved setpoint, outage deadline, fallback episode, heartbeat ages and counters, control generation | `set_setpoint_override`, `write_control_setpoint`, `mark_dbus_update/invalid`, `check_grid_loss`, `_check_heartbeat`, `_apply_failsafe`, `_recover_from_failsafe` | four writers, three threads, two overlapping kinds of episode sharing flags. One owner at a time; episodes confirmed by acknowledged writes; recovery only on evidence; nothing stale replayed |
| Control cycle `inverter_control/controller.py` | baseline (`previous_setpoint`), forced-charge marker, last backup measurement, limits, flags, pending manual and pre-charge commands | `run_cycle` with its gate, calculation, recheck and write; the command handlers | state read early in the cycle and used late. The baseline is what the inverter acknowledged; a write respects the limits, tariff and sample in force when it is made |
| Strategies `logic.py` | filtered power, last setpoint, creep, counters | `SetpointCalculator.calculate` | order of strategies, clamp, slew and clamp; filter, burst, brake and creep acting on each other through an inverter that follows late. Commands stay bounded and the grid settles |
| Submeter trim `submeter_trim.py` | observation window, report identity | `propose`, `commit`, `reset` | one correction per report, measured after the last change; two clocks |
| Grid telemetry `grid_telemetry.py` | fields with ages, pinned source, instance and phases, read token | `replace`, `replace_meter`, `update_meter`, `owner_changed`, `unavailable`, `snapshot` | replies that span an invalidation; pinned topology |
| Backup meter `grid_backup.py`, filter `grid_filter.py` | fields, deadline, selection, recovery hold; filter value | `replace`, `invalidate`, `select`; `reset`, `run` | reads in flight across an invalidation, a flapping primary, samples of two meters in one value |
| Auxiliary readers `background_reader.py`, `evcharger.py` | snapshot with the start time of its pass; the service found | `read`, `request_stop`; `_discover_services` | late results taken for fresh; a charger never found, or a car taken for it |
| Venus D-Bus client `victron.py` | services, backoff, caches, `_set_lock` | `_dbus_get`, `_dbus_set`, discovery, poll loop, signal handlers | native attempt then CLI fallback; unconfirmed writes; reads overtaken by signals; single-flight discovery |
| Native D-Bus `dbus_native.py` | connection, cooldown, subscriptions, owners | `get_value`, `set_value`, `subscribe_signal`, reconnect | deadline before dispatch, dropping only the failed connection, senders bound to the wrong name |
| ESS modes `ess_modes.py` | seen request ids, receipt, cached observation | `apply`, `observe`, `select_ess_mode` | two writes of which one fails; an older observation beside a newer receipt |
| DVCC `dvcc.py` and the cell data of `victron.py` | last limits, cell caches | `calculate`, `_poll_battery_cell_data_tree` | a cutoff behind two caches, a silent chain and a rate limit; a clock that is set |
| Pre-charge journal `precharge.py` | records on disk and in memory | `handle` | crash or failed `fsync` between reservation, acceptance and confirmation |
| Tariff `tariff_service.py`, `tariff.py`; limits `power_limits.py` | plan or limits in force, their file | `apply`; `set_power_limits`, the command-line tools | late, repeated and rival edits; crash between save and use |
| MQTT bridge `mqtt_bridge.py`, command handlers `main.py` | connection, publish queue of 100, latest override status | `_on_connect`, `_on_message`, `publish_*`, `disconnect` | a reconnect replaying an older status; full queue |
| Home Assistant `homeassistant.py` | latest dump-load intent, generation, circuit breaker | `request_dump_loads`, `cancel_dump_loads`, `_poll_loop` | cancellation between the calls of a batch |
| Shutdown `main.py` | stop events, budget, force-exit timer | `_shutdown_main_loop`, `_shutdown_io`, `signal_handler` | blocked workers, signals in the middle, threads started again; close only after the last writer, and end whatever hangs |
| Energy ledger `grid_energy.py` | baseline, count and date of the day, its file | `observe`, `invalidate`, `persist` | a baseline that is not midnight's |
| Log forwarder `log_forwarder.py` | cursor and its file | `process_logs` | rotation and crash between push and save |
| Release tooling `scripts/release_*.py` | ledger branch, tags, drafts, releases | reserve, claim, publish, promote | unanswered requests and reruns; a build behind a public one |
| Heartbeat, service watchdog, alerts, servers, configuration, installation, other scripts | | | not modelled, see section 5 |

How they interact: the main thread runs `run_cycle`. The MQTT thread (and the
webhook threads) call the command handlers. The watchdog thread wakes at each
of its deadlines and on an override. Telemetry arrives on reader threads and on
the D-Bus event loop; `run_cycle` sees it as a snapshot. All physical setpoint
writes, and the commit of the baseline that goes with them, happen under
`HardwareWatchdog._lock`; nothing else in a cycle does.

The hazards these parts are exposed to are listed, each at its line, in
`PROJECT.json`, with the properties that cover it.

## 2. Modules

    SetpointArbiter                 what ownership of the setpoint promises
      ^ refines            ^ refines
    HardwareWatchdog     InverterController <- MCInverterController

    GridTelemetry <- MCGridTelemetry

    VenusClient   composes  GridSelection  DbusWrite  Subscriptions  SmartShunt
      <- MCVenusClient      EssSelection  ChargeLimits  BoundedReader
    Services      composes  Regulation  SubmeterTrim  DumpLoads  GridEnergy
      <- MCServices         PowerLimits  TariffService  PrechargeInbox
                            OverrideStatus  Shutdown  LogForwarder  ReleasePublication

    HardwareWatchdog_proofs  InverterController_proofs  GridTelemetry_proofs
    DbusWrite_proofs  Subscriptions_proofs  GridSelection_proofs
      extend the module they are named after
    VenusClient_proofs
      extends VenusClient with instances of the last three, and has the proofs about
      its SmartShunt, BoundedReader, EssSelection and ChargeLimits
    Services_proofs
      extends Services, and has the proofs about its LogForwarder, PrechargeInbox,
      TariffService, PowerLimits, DumpLoads, Shutdown, GridEnergy, SubmeterTrim,
      ReleasePublication and Regulation

**SetpointArbiter** has two variables: the owner of the output (`control`,
`override`, `failsafe`, `fallback`) and the last write the inverter
acknowledged, with its writer. Only the owner's commands are acknowledged; the
owner changes only through an accepted override, its stop, a trip, the loss of
the meter, and a recovery, each with what must be acknowledged by then. It
keeps no timers and knows nothing of the program.

**HardwareWatchdog** models `watchdog.py` in full: one action per method,
because each method holds the lock from its first read to its last write. The
three threads interleave between them. A physical write has three outcomes,
after `_dbus_set`: `accepted`; `rejected`, nothing changed; `unconfirmed`, the
call timed out, the method sees a failure, the inverter took it. `hw` is what
the inverter holds, `acked` what it last confirmed; they differ after an
unconfirmed write.

Time is `Tick`. A timestamp is modelled by its age, which stops growing at the
largest value the code compares it with, so the state space is finite without a
bound on time; "never attempted" is the full age, since both mean "due".
Heartbeat counters stop at their thresholds for the same reason. The generation
counter is one Boolean: whether the one the loop holds is still current. A
`status`, a log line or a diagnostic is not modelled: nothing reads them back.
`flipAge` is history, for `RecoveryHasEvidence` only.

**InverterController** models `run_cycle` as a program counter over the main
thread's steps (`ReadGeneration`, `GetSystemData`, `ReadOverride`, the
telemetry gate, `Calculate`, the recheck, `Write`, `Settle`,
`ClearServedManual`), with every early return and the exception path
(`CycleError`). Between two steps anything may happen: MQTT commands (which
run one after the other, so an override in progress blocks the next),
the pre-charge webhook, the watchdog thread, new readings and source switches,
limits and tariff window. Only what one lock section covers is one step: the
last clamps together with the write and the commit, one report, one adoption.

The watchdog appears in it through the ownership protocol (`Trip`, `Restore`,
`LoseMeter`, `ResumeMeter`), with no timers: whenever the protocol lets it act,
it may. That this over-approximates the real watchdog rests on
`HardwareWatchdog => SetpointArbiter`, which is proved, and on the added guards
being those of the source. The regulation strategies are any member of a set of
results, clamped as `SetpointCalculator.calculate` clamps last, plus the
baseline itself (strategies may hold). The grid snapshot is reduced to what the
cycle compares: is it valid, which meter is it from, did selection or backup
measurement change since the cycle read it, was that measurement committed
already. The primary meter carries no measurement time in the code, so a new
primary reading is invisible to the recheck, in the model as in the program.
`seen` is history, for the properties only.

**GridTelemetry** models `GridTelemetry` together with the code of `victron.py`
that feeds it: the signal handlers, the owner-change handler, the three places
that read (poll thread, seed after a reconnect, control thread on a stale cache)
and the poll thread's reconciliation and retry. A read is five steps: token and
question, the bus's answer, the application of the answer, the same again for
the selected meter, and the end of the read. The bus's answer and its
application are separate, so a change, a restart or another read can fall
between them; the token decides whether the answer still counts. The generation
counter is one Boolean per reader: is its token the current one.

The bus is the environment. `truth` and `health` are what it would answer,
`signals` what it announced; the paths of one change are delivered in any order,
the changes one after another, as D-Bus keeps the order of one sender. A change,
a restart, a lost announcement, a failed read and an extra reader each cost one
of `Disturbances`. Power is present or absent: its value does not enter
validity. `overtaken`, `restarted` and `contract` are history, for the
properties only.

The modules below **VenusClient** and **Services** have a part of the program
each, with the threads, the environment and the faults of that part. They share
no state, so their steps commute, and nothing one does can matter to another:
the wrappers explore each on its own (`part` says which one moves, the others
stay in one initial state), as a `Next` of one disjunct per part. What is said of
a part in a wrapper is what its module says.

- **GridSelection**: `GridBackup` and `GridFilter` with the threads around them:
  the poll thread's read of the backup meter (its generation taken before, the
  answer after), owner changes on the D-Bus loop, the selection with its recovery
  hold, the filter's thread and the cycle's four reads. A filter value is the set
  of selections it was mixed from.
- **DbusWrite**: the two callers of `_dbus_set`, the lock around both attempts, the
  queue of the D-Bus loop with the deadline at dispatch, the connection that
  breaks and its cooldown, the command-line tool, and the service that handles
  messages of one connection in order. It is the detail behind the three outcomes
  `HardwareWatchdog` gives a write. A message counts as on the wire when the
  loop dispatches it.
- **Subscriptions**: the shared connection: threads that find it, connect or wait,
  the replay of the match rules, the drop of a failed connection, the bus daemon,
  owner changes and the resolution of senders.
- **SmartShunt**: a battery read against signals, disconnects, reconnects, the
  service backoff and the rediscovery with its request flag.
- **EssSelection**: the choice with up to two writes, the toggle, the cached
  observation and the receipt published with it, while others set the device.
- **ChargeLimits**: `DvccCalculator` in full with the cell caches, in tenths of an
  ampere, millivolts over 10 and whole degrees. `Source` is what
  `get_battery_cell_data` takes the chains from: the cache if it holds a voltage, a
  temperature or a charge level (`Measured`), else nothing while the poll thread
  lives, else the bus, past the cache and that check.
- **BoundedReader**: `BackgroundReader` with the pass of the EV charger's reader.
- **Regulation**: `SetpointCalculator.calculate` in a loop with an inverter that
  follows, at once or later, and the house; watts and the coefficients of
  `config.py`. A mode is the operator's flags with the powers that go with them:
  the sun's, the EV's and the garage's.
- **SubmeterTrim**: windows, sample identities and the cycle that proposes, checks
  again and commits. Watts are free choices: steady or not, off target or not. One
  clock stands for the wall clock and the monotonic one (section 5).
- **DumpLoads**: the intent, its generation, the worker between two calls, the
  circuit breaker, the stop.
- **GridEnergy**: the day's baseline, with time in units of `MIDNIGHT_BRACKET`,
  import and export as one counter, and a wall clock apart from the monotonic.
- **PowerLimits**, **TariffService**: a file, what is in force, and crashes between.
- **PrechargeInbox**: `handle` as it reserves, enqueues and confirms, on two threads.
- **OverrideStatus**: the publish queue, the publish and the network thread.
- **Shutdown**: the main thread, the helper of `_shutdown_io`, the MQTT threads,
  workers in calls that may never end, signals at any step and the timer.
- **LogForwarder**: a pass over the retained files while multilog writes, rotates
  and removes. The files to read are a set, read in the order of their creation,
  which is the order of the archives' names. Inode numbers are not used again.
- **ReleasePublication**: runs of the release workflow, one in at a time, which may
  fail after any request, the last one included, and run again; pushes and schedules,
  which follow the head of the branch, and dispatches, which need not; the ledger,
  tags, drafts and releases.

A definition whose name begins with `Faulty` is the following definition with a
plausible bug. No specification uses it; `PROJECT.json` names, for every checked
property, one such bug that the property must notice.

## 3. What is checked

### watchdog_safety (`HardwareWatchdog.cfg`, 334 440 states)

Intervals: hold 2, check 1, refresh 2, retry 1, override refresh 2, timeout 1.
Two intervals of different lengths race each other in every pair that the code
compares (hold against check, retry against refresh), each counter passes its
threshold, and every age reaches its cap. One control value, one override value,
the zero and the fallback are pairwise different, so who wrote what is always
visible.

- `OverrideOwnsOutput`: while an override is in force nothing but that override
  was acknowledged last.
- `FallbackConfirmed`: an episode that claims confirmation has an accepted -10 W;
  an earlier zero does not pass for it.
- `RestoreIsBaseline`: while the zero stands, the value kept for the restore is
  the controller's baseline.
- `EpisodeConsistent`: a meter-loss episode has an open outage, a trip, and
  nothing to replay.
- `RecoveryHasEvidence`: re-arming needs a whole check interval of valid
  telemetry, through brief losses, DRY periods and overrides.
- `NoReplayAfterMeterLoss`: a meter-loss episode ends with -10 W acknowledged.
- `DrySuppressesAutomatic`: in DRY only an override changes the hardware.
- `ImplementsArbiter`: refinement of `SetpointArbiter`.

### watchdog_liveness (`WatchdogLiveness.cfg`, 228 324 states)

All intervals 1, two override values (the refused edit and the one in force).
`StalledLoopIsReplaced`, `OutageIsCovered`, `OverrideIsMaintained`,
`RecoveryCompletes`.

Fairness and why the code justifies it: weak fairness of `Tick` (time passes),
weak fairness of the watchdog thread's two calls (`_run` is an endless loop that
waits with a timeout, on a thread of its own, and swallows what a write raises),
and strong fairness of their accepted outcomes. The last is an assumption on the
environment, not on the code: a command repeated for ever is accepted again and
again. Without it no liveness property of an actuator holds. Nothing is assumed
of the control loop or the operator; each property states the lasting condition
it needs (for example that DRY stays off) as its premise.

### controller_baseline (`ControllerBaseline.cfg`, 961 840 states)

One calculated value, a forced-charge value, a manual value, an override outside
the limits, two ranges, DRY, primary meter.

- `BaselineIsOutput`: when the loop owns the output and begins a calculation, its
  baseline is the last acknowledged command, whoever sent it; commits in DRY are
  excepted.
- `WithinCurrentLimits`: what the loop gets accepted is inside the range in force
  at the write, or the zero a guard demands.
- `ImplementsArbiter`: the cycle with its stale calculations refines the same
  ownership protocol.

### controller_samples (`ControllerSamples.cfg`, 3 649 920 states)

Both meters, the charge flag, pre-charge, the EV floor, the tariff window; a result
that discharges and one that charges. One of the two ranges lies above zero:
`validate_power_limits` orders the pair and bounds it, and asks no more, so an
operator may choose a range that forces a charge. It is the range in which the
guards that cut to zero and the last clamp disagree.

- `RegulatesOnVerifiedGrid`: an accepted command rests on telemetry last reported
  valid and on a source and backup measurement unchanged up to the recheck.
- `FeedbackOnce`: while one backup measurement stands, further automatic writes
  only hold the baseline or go to zero, brought into the limits in force.
- `ForcedChargeEnds`: nothing accepted inside the expensive window charges on
  account of a forced charge, directly or as a held continuation. A command that a
  guard or the limits cut to zero or less is the end of that charge: what a later
  cycle holds of it charges nothing.

What changes after the recheck, while the loop waits for the lock, is not
detected by the code; the properties say "up to the recheck" for that reason.

### grid_telemetry (`GridTelemetry.cfg`, 251 092 states)

The meter `mA` is the configured source, the inverter's own measurement is what
the system service may show in its place; one or two phases; the meter declares
two phases or none; the poll thread and a seed read; every pair of disturbances,
at every point of both reads. Two disturbances are what a stale reply needs (one
to start the second reader or fail a read, one to change the bus in between);
`MaxAge` and the reconcile interval are 1, so that expiry and repair meet.

- `NoRevival`: a reply that an invalidation, an owner change or another reader's
  result overtook changes nothing when it is applied.
- `FreshAfterRestart`: after the system service or the established meter
  restarted, a valid measurement rests on a new read of both.
- `ContractKept`: a valid measurement is always of the source, the instance and
  at least the phases of the first valid ones.
- `Converges`: if the bus offers an acceptable measurement from some point on,
  the measurement becomes valid for good, whatever was lost before.

Fairness: the bus loop and the readers go on (`Working`: threads whose calls have
timeouts, and between two `Tick`s they have finitely much to do) and time passes.
Nothing is assumed of the bus; `Converges` has its good behaviour as premise.

### venus_client (`MCVenusClient` with `VenusClient.cfg`, 1 269 503 states)

Seven parts that share no state, each on its own. Where a bound counts faults or
changes, it is large enough for one stale thing and one more that makes it
matter: two breaks of the connection (one to reconnect after, one during the
replay of the match rules), three setpoint writes by two callers, two changes of
a meter, a battery service or a charger, two moves of a name's owner, one change
of the cells and one step of the clock.

- `GridIsTrusted`: a backup measurement that control is given comes from a service
  that is still there, from a read begun after the last invalidation, and is
  younger than its limit; and the samples one setpoint rests on, filtered and
  not, are of one meter.
- `NeverOlderThanAcknowledged`: once a write was acknowledged no older attempt,
  native or on the command line, is what the inverter holds. A write that was
  reported as failed may still take effect, but not after a later acknowledged one.
- `BindingsAreCurrent`: signals are attributed to the name whose owner sent them,
  once what the bus announced has been handled.
- `LiveConnectionKept`: a failed call drops the connection it was made on, never the
  one another thread has made since.
- `MeasurementsAreCurrent`: a late reply never replaces a newer observation of the
  battery; what a background reader serves was read less than its age limit ago,
  and nothing is served once the reader is stopped.
- `DevicesAreFound` (liveness): a SmartShunt on the bus is found and read again; the
  charger is found, and a car that took its instance is found out.
- `SelectionIsHonest`: a choice of the ESS mode passes through no third mode,
  whichever of its writes fails, and is published with an observation from after it.
- `CellsAreProtected`: a chain that has a cell beyond a voltage cutoff has the current
  stopped at once, and so has one that forbids it, if some chain gives a voltage, a
  temperature or a charge level or the control loop reads the bus itself (else it is
  forgotten: see the notes below); limits stay between zero and the battery's.
  The readings are of every kind: ordinary, beyond a cutoff, hot, and permissions alone.

Fairness: weak for the D-Bus loop's handling of what arrived, for the end of a
backoff (time passes), for the passes of a reader (calls have timeouts) and for
time; strong for the poll thread's polls and rescans, which it makes in turn in
an endless loop.

### services (`MCServices` with `Services.cfg`, 895 881 states)

Eleven parts, each on its own, with crashes, failed saves and pushes, two edits,
signals and drops. The release workflow has three runs: the first may be dispatched for
any candidate (`Dispatched`), each may be automatic or promote one; with one
failure, one deletion and two commits: enough to separate a run from each of the three
things it relies on: what it did, what is still there, and the branch. The failure may
be that of the last request, done and not answered, after which the run is made again
beside the others. The regulation starts from rest under a load it
has to make up for, and one disturbance comes at any cycle: another load, mode or
range, or an inverter that is a cycle late. The modes (`SiteModes`) set every flag a
strategy looks at, an EV that is seen by its own power, by the garage's or not at all.

- `NoLineSkipped`: every complete line of a retained log file reaches Loki or is
  still to be read, whatever the rotation, a failed push or a restart.
- `QueuedAtMostOnce`: one pre-charge per request id, whatever fails or restarts
  between reservation, intent and confirmation, on both channels.
- `StoppedMeansStopped`: a retired dump-load batch makes no further call; the D-Bus
  connection is closed only when no thread is left that could use it.
- `CorrectionsRestOnEvidence`: the trim corrects on reports measured after the last
  change of the setpoint had settled, on each once, within its budget.
- `CompleteDayIsExact`: a day shown as complete is counted from midnight, to within
  the read in flight at midnight and the unit of time.
- `ChoicesSurvive`: limits to be kept and a tariff in force are those of the next
  start, unless the command-line tool replaced their file.
- `CurrentStatusIsSent` (liveness): the broker is given the status of the override in
  force, across reconnects and a full queue.
- `StaleReplacesNothing`: an edit never replaces a tariff its editor was not shown; a
  release that becomes public is complete and newer than all before it, or the
  newest candidate promoted, and a tag is never used twice.
- `ProcessEnds` (liveness): once asked to stop, or failed, the process is gone in the
  end, whatever hangs.
- `Regulates`: commands keep to the limits in force and to the slew limit, which only
  the limits overrule, and discharge nothing where a restricted mode does not know the
  EV's power (`CommandsAreBounded`); and the grid, or the inverter where a limit or a
  mode decides, settles (liveness).

Fairness: weak for the two threads of the MQTT client; strong for the main loop's
retry when the queue of 100 has room and the client is connected, since the
publish thread drains it; weak for the main thread at the end of the process, for
the passing of its budget and of the timer; weak for the cycle and the inverter
taking turns. No worker is assumed to end.

The band of `Regulates` is 60 W and not the deadband of 50 W: in the older mode,
where the calculator filters by itself, the creep acts through the filter like a
second integrator and the grid goes on swinging about zero by some 50 W.

Parts with bounded inputs come to rest, so these configurations (venus_client,
services) do not check for deadlock; all other passing runs do.

The mutants of a property with two halves break one of them; the other half has
its own `Faulty` definition in its module.

### Violations

Five runs check what the documentation says and find the code do otherwise;
`PROJECT.json` quotes the lines.

- restore_limits, `RestoreWithinLimits`: a watchdog restore is not clamped. After
  an override outside the range is stopped, a stall and its recovery command the
  override's value once more.
- restore_virtual, `RestoreWasAcknowledged`: DRY commits a baseline without a
  write; a restore soon after DRY sends it.
- manual_race, `ManualNotLost`: a manual command arriving between the loop's
  comparison and its assignment is dropped.
- grid_expiry, `TimeAloneKeepsValid`: a reconciliation whose reply was overtaken is
  discarded and, since the measurement is valid then, not retried. With no
  further disturbance, the next reconciliation is due one whole interval later
  and the older values pass their age limit before it: a healthy, silent meter
  is reported overdue for a moment.
- subscription_race, `HealthyMeansInstalled`: a match rule answered on a connection
  that is replaced before the subscriber records it counts as armed on the new
  one, which does not have it.

Noticed while modelling `GridTelemetry`, outside what these instances check:

- `owner_changed` ignores the restart of a meter that is neither selected nor
  pinned. With a learned source (no `GRID_EXPECTED_SERVICE`) the health that meter
  had before can count when it is selected again; `FreshAfterRestart` is stated
  for a configured source for this reason.
- Before anything is pinned, a snapshot taken between the two signals of one
  change of identity may pin the name of one source with the instance of the
  other, after which the measurement stays refused as "instance changed".
- Powers that are numbers do not advance the generation, so an older reply in
  flight may overwrite a newer wattage until the next signal.

Noticed elsewhere, likewise not checked by a run:

- Chains that answer `AllowCharge` = 0 and no voltage, temperature or charge level count
  as no data while the poll thread lives (`_build_from_cache`), and the limits are
  computed from `{}`, in which charging is allowed: the current may be the maximum
  although every chain that answers forbids it, where `dvcc.py` 367 and 391 read as if
  the permission always applied. The live read has no such check. The model does the
  same, and `CutoffArrives` claims no more than the code gives.
- `calculate_ccl_from_temperature` goes by the hottest cell when one is known: a cell
  at or below 0 degrees is charged while another is warmer, although
  `DVCC_TEMP_STOP_CHARGE` reads "Stop charging below". Between 0 and 5 degrees the
  allowed current rises to half and falls to a tenth just above 5.
- `_rate_limit` multiplies by the elapsed wall-clock time: set back, the clock makes
  it negative and a limit may pass the battery's maximum; `CellsAreProtected` holds
  while it is not set back.
- The match rule for owner changes, when its replay is refused, is not sent again
  before the next reconnect.
- A service restarted in another role under the same name may be read as the charger
  for up to `DISCOVERY_TTL`.
- A producer that passed its connection check before the shutdown may start the publish
  thread again after the disconnect; it is a daemon and holds nothing.
- Saves write and `fsync` the new file and rename it, but not its directory: a power
  cut, unlike a crash of the process, may bring the older file back.

## 4. What is proved

`HardwareWatchdog_proofs` proves, for all setpoints, all intervals and with or
without a meter-loss hold: type correctness, the four safety invariants, the
three action properties and the refinement of `SetpointArbiter`. The
assumptions are `ValuesAssumption` (setpoints are integers, `None` is not one)
and `TimesAssumption` (intervals are positive, the retry interval does not
exceed the refresh interval: 1 s and 2 s in the source). TLC evaluates both.

The invariants are not inductive one by one. `IInv` is their conjunction with
what ties them together:

- `OverrideForgets`: under an override no episode is open, so what an override
  hides cannot surface when it stops;
- `ForcedIsTriggered`: forced hardware belongs to a trip, so a control write,
  which needs none, cannot fall between the zero and its restore;
- `ZeroStands`: while the zero stands no fallback counts as applied, so the
  adoption in `_update_grid_loss_state` leaves the baseline alone; this is what
  keeps `RestoreIsBaseline` through `AdoptOutput`;
- `ZeroIsForced`: an acknowledged zero is either still forced or belongs to an
  outage that waits for its fallback, so the abstract owner never loses track of
  it;
- `Evidence`: no check counts while telemetry is invalid, and once one counts the
  last change of validity is at least as old as the last heartbeat check. The
  next counted check is a check interval after that one, which gives
  `RecoveryHasEvidence`.

`Inductive` shows `IInv` preserved, one step per action and under it one per
conjunct the action can disturb; the action properties follow from `IInv` before
the step. `Refinement` maps the owner to `override`, `fallback`, `failsafe` or
`control` in this order and the output to `acked`, and shows each action to be
an abstract step or a stutter.

### The control process

`InverterController_proofs` proves type correctness, `BaselineIsOutput`, the four
action properties of the two runs and the refinement of `SetpointArbiter`, from
`ControllerAssumption`: setpoints are integers, `None` is not one, a range has its
ends in order. `IInv` says what the locals of `run_cycle` know of a world that moves
between any two steps:

- `OutputMatches`: what was acknowledged last tells whose turn it is. This is what
  the refinement needs: a fallback that counts as applied is the last command, and
  a zero of the stalled-loop policy is followed by no command of the loop.
- `BaselineTracks`: the baseline is the last command of the loop, of a restore or of
  an override that was adopted; under the zero it is what a restore would send.
- `CycleInv`, one conjunct per thing a cycle carries from one step to another: the
  verified telemetry, an adopted fallback, changes of the grid that the recheck will
  see (`ChangesAreSeen`, `NewIsReported`), a measurement that is marked as used
  (`FedIsUsed`, `HoldIsKept`), an override that made the result obsolete, and the mark
  of a forced charge (`ForcedIsMarked`).

The proof attempts showed three flaws of the model, corrected since. The set of
commands was not closed under clamping to one range after another, which the two
instances happened not to show. The history of forced charges called a command
forced although a guard had cut it to zero. And `FeedbackOnce` named only the clamped
baseline and zero, which in a range above zero is too few: the zero of a guard is
clamped once more.

### The grid telemetry

`GridTelemetry_proofs` proves type correctness, `ContractKept`, `NoRevival` and, where
a service is expected, `FreshAfterRestart`, for any meters, layouts, readers and
bounds that satisfy `GridAssumption`. `IInv` adds to the types that a reader which
asks a meter has one selected while its token is current (`StillSelected`), that a
reader something overtook has lost its token (`OvertakenIsStale`), and that the
contract is what is pinned (`Pinned`). `NoRevival` is then one comparison of the token
per application of an answer. `FreshAfterRestart` needs `RInv` as well: while the owner
error stands no meter is ready and no current reader waits for one (`Forgotten`), and
what was restarted and not read has left the error or the meter behind
(`RestartedIsUnread`).

### The parts of the client

- `DbusWrite_proofs`, `WritesStayOrdered`: whoever is between the lock and its release
  has the newest write (`LockHeld`), so a message that is sent late is either the
  newest or expired; what waits for the inverter's service is in the order it was
  issued and not older than what was acknowledged (`InboxOrdered`); and a zero can be
  waiting only for the newest write, with nothing older behind it (`ReplyTrue`).
- `Subscriptions_proofs`, `FailuresDropOnlyTheirOwn`: a connection that stands has a
  number no failed thread remembers (`ConnectionsAreNumbered`, `FailuresAreOld`).
  `BoundToTheirOwner`: unless the connection was lost meanwhile, every name that is
  bound, on its way as an answer, or told by a message still in the queue is the
  service's, or its loss is announced behind it (`SendersAreCurrent`, `AnswerIsCurrent`,
  `MailIsInOrder`); an answer that is no longer in order is of an old version, because
  the announcement that came first has raised it (`Obsolete`).
- `GridSelection_proofs`, `BackupIsTrusted`: what is left of a deadline is left of the
  measurement's own lifetime, and a service that left is either not signalled yet or
  of an older generation. `DecisionHasOneSource`: selections only grow and a reset
  leaves none from before the accepted one, in the filter or in the sample being
  read, so a cycle whose selection is still the newest has used that one only.
- `ShuntNewestWins`, of `SmartShunt`: where the shunt is ahead of a value, in the cache,
  in an answer or in a signal, a later signal of the queue says so, and it comes
  before every reconnection, which leaves the value as it is (`After`). A current
  token keeps an answer covered in this sense until it is applied.
- `ReaderServesRecentPower`, of `BoundedReader`: a pass, and the snapshot it left, is at
  least as old as the power it has read.
- `ChoicesAreHonest`, of `EssSelection`: one thread at a time uses the settings, and one
  the receipt (`EssOneUsesTheSettings`, `EssOneUsesTheReceipt`); between the two writes of
  a choice the mode reads as the old one or the chosen one (`EssWritesStand`); and an
  observation handed on together with a receipt was read after that receipt's writes
  (`EssObservationsFollow`). The receipt is matched by when the observation was read, not
  by what it says: another client may have changed a setting since the writes.
- `CellsStayProtected`, of `ChargeLimits`: a cache that differs from what the chains answer
  has not been due for longer than they have answered so (`ChargeCacheLag`), nor has the
  controller's copy (`ChargeTakenLag`); without the poll thread the controller reads the
  chains itself whenever it takes them (`ChargeOwnRead`). After two intervals the cache is
  what the chains answer and the copy was taken from it, from the bus, or from nothing if
  no chain is measured (`SourceIs`); a cell beyond a voltage cutoff is a measurement. What
  one chain forbids the currents of all forbid (`TogetherIs`, `CclIs`, `DclIs`), which the
  rate limit lets through at once (`ChargeCut`). That the
  currents stay in range needs that every line of the policy stays between its ends
  (`SlopeIs`), rounded division included, and that the sum of the charge levels is a
  number (`SumIsInt`): a smallest set of chains for which it is none cannot exist.

`VenusClient_proofs` carries these over to the composition that TLC checks: every
behaviour of `VenusClient` is, in the variables of a part, one of that part
(`WriteRuns`, `BusRuns`, `GridRuns`, `ShuntRuns`, `ReaderRuns`, `EssRuns`, `ChargeRuns`),
whatever the others do. Hence `NeverOlderThanAcknowledged`, `LiveConnectionKept`, `BindingsAreCurrent`,
`GridIsTrusted`, `MeasurementsAreCurrent`, `SelectionIsHonest` and `CellsAreProtected` hold
for every value of the run's constants that satisfies its assumptions, which TLC
evaluates: bounds, ages, currents and rates are numbers, the least charge current does
not exceed the greatest, the chains are finitely many, `None` is no caller, no reply, no
thread, no measurement and no flag, of a chain any measurement may be unknown, though
not the lowest voltage alone or the highest, and there is a name a service can have.
Nothing is assumed of how large a bound is or how many callers,
readers, services and names there are.

### The parts of the services

`Services_proofs` does the same for ten parts of `Services`, each with an inductive
invariant in the names of `Services` (prefixed with the part), under the assumptions
beside the instances: bounds and runs are numbers, a batch has a line, a branch a
commit, a day a unit, a trim a delay, powers are numbers, limits are in order, and `None`
is none of the values it stands beside. Neither the loads, modes and limits of the
regulation nor the readings of the cells are fixed: `MCServices` and `MCVenusClient`
choose some for TLC.

- Log, `NothingSkipped`: the files follow one another and the archives are the newest
  of them (`LogFilesAreInOrder`, `LogArchivesAreInOrder`); what lies before the oldest
  one has expired; and everything before the cursor, before the start of the pass and
  before its next cursor is at Loki or has expired (`LogReached`). The heart is the scan
  of the directory: if the listing is the same before and after, then every file
  between the oldest and the newest found is among those to read (`LogReadsOn`), since
  one that was missed would have had to be renamed meanwhile.
- Journal, `QueuedOnce`: one thread is between reservation and confirmation
  (`InboxOneInside`), its reservation stands in memory and on disk, and what was queued
  and may still be delivered has a record that no failed save and no crash takes away.
- Tariff and limits, `EditsAreInformed` and `ChosenForGood`: what was decided on stays
  true until the thread acts on it (`TariffStepStands`, `LimitChangeStands`); the save
  comes before the use.
- Loads, `StoppedStaysStopped`: generations only grow, so a batch once retired stays so,
  and a late call is its last (`LoadLateIsLast`).
- End, the other half of `StoppedStaysStopped`: a worker that was joined has ended
  unless the shutdown noted otherwise (`StopJoinedHaveEnded`), and the report of the
  helper and the permission to close are true when they are given.
- Energy, `CountedFromMidnight`: whatever is complete in memory, in a save or on disk
  is justified by the counter at its midnight; and since an undisturbed observation
  the zone and the meter are the same, and as long as the counter says what was
  observed, the next midnight found it there (`MeterSinceObservation`). The proof uses
  the unchanged counter and not the brackets of `_midnight_proved`: of meters that never
  count back, as the model's, the counter alone proves the midnight.
- Releases, `NothingStaleReplaces` (with the tariff's half): no two plans share a number
  or a tag, because numbers are counted and a sequence is after every reserved one
  (`ReleasePlansDiffer`; that there is a last one is `ReleaseSequencesEnd`, so the proof
  needs no bound on the runs); every tag of a candidate is of a plan, and what is public
  has a number that was claimed (`ReleaseTagsAreOurs`). What a claim has checked of all
  that was public stays true until its own release is (`ReleaseCleared`), since the
  concurrency group keeps every other run out. A candidate's tag that was deleted is
  told from a free one by the number of its plan, a stable one by the tag itself, which
  is why stable tags must not be deleted.
- Trim, `CorrectedOnEvidence`: reports in the window are from after the command had
  settled, the last one used is from before it, the budget counts at least what the
  setpoint has drifted on one baseline, and between a proposal and its write nobody
  but a reset touches the trim. It needs a delay of at least one unit: with none, a
  report of the moment of the command would count as evidence for the next.
- Regulation, `CommandsStayBounded`: every strategy, correction and mode yields a number
  (`CorrectedIs`, `ModedIs`), and whatever number that is, the last clamp keeps it within
  the limits and moves it off what the slew limit allowed only onto one of them
  (`LimitedBounds`); the guard after it can only raise a command to zero (`CommandIs`).

### What stays model-checked

- Liveness (`StalledLoopIsReplaced`, `OutageIsCovered`, `OverrideIsMaintained`,
  `RecoveryCompletes`, `Converges`, `DevicesAreFound`, `CurrentStatusIsSent`, `ProcessEnds`,
  the second half of `Regulates`): out of reach of the prover used.
- `FreshAfterRestart` where no service is expected: not claimed, see section 3.

Type correctness of the watchdog is proved and no longer part of a run. The bounds of
the runs (`Disturbances`, `Crashes`, `Breaks` and their like) are variables' budgets in
the specifications too, but the theorems hold for each value of them.

## 5. Not modelled, and why

Within the modelled components:

- Watchdog and cycle: status and diagnostics (nothing reads them back);
  `_get_setpoint` raising (it reads an attribute); the display part of a cycle. In
  `InverterController` a strategy yields any value of a set; its arithmetic is in
  `Regulation`, the trim in `SubmeterTrim`, of which the cycle keeps the withdrawal.
- `GridTelemetry`: wattage and the display fallback (`_last_good`), which validity does
  not read; the parsing of a reply, of which only "has a value or not" remains; the
  second input `/Ac/In/1`, which the module has (`Inputs`) and the instance does not.
- `Regulation`: the blend with a house meter (off as shipped); the filtered power is an
  integer that reaches its target where the code's float approaches it.
- `SubmeterTrim`: one time stands for the wall clock, by which reports are dated and a
  settling command is told from them (`_command_wall`), and for the monotonic clock, by
  which the command settles (`_command_time`). So nothing is said of a wall clock that is
  set, nor of reports from the future, of which the code accepts up to `MAX_FUTURE`.
- `EssSelection`: the watchdog's lock and the trim's generation, which a choice touches
  and the mode does not depend on; DRY counts as a refused choice.
- `LogForwarder`: multilog's own files apart from the log, and its "previous" marker.
- `OverrideStatus`: what the MQTT library delivers again after a reconnect; nothing is
  claimed of it. Its shutdown is in `Shutdown`.
- `Shutdown`: logging in the main thread and the interpreter's finalisation, taken not to
  block before the timer, which is armed before the first line is logged.
- `GridEnergy`: `PERSIST_INTERVAL`, which only thins the saves.
- `ReleasePublication`: the files themselves. An unanswered request is one that was done
  before the run fails, up to the one that makes the release public; only the draft may
  come late. Releases and tags of candidates may
  be deleted by maintainers, those of stable versions not.
- `BoundedReader`: the vehicle's charge and the reader's own cache, which a background
  pass does not use; `water.py` is read the same way.
- External: the D-Bus daemon, the Victron services, multilog, the MQTT broker, GitHub.
  They are modelled as far as the code relies on them.

Whole components: the heartbeat thread (touches a file) and the shell script of the
service watchdog that looks at it; alert storage, which truncates its file in place;
the webhook, console and metrics servers and the parsing of configuration (input
and output); installation and update (file operations of shell scripts); the version
plan, the merging of archives and the D-Bus diagnostics (offline, sequential).

## 6. Plan

1. *done*: `SetpointArbiter`, `HardwareWatchdog` with proofs, `InverterController`,
   `GridTelemetry`.
2. *done*: the parts of `VenusClient` and `Services`.
3. *done*: the proofs of section 4.
4. To model: the service watchdog with its restart window and backoff; the alert
   storage; `version_plan.py` as operators against a reference.
5. `DbusWrite` as a refinement of the three outcomes `HardwareWatchdog` takes.
