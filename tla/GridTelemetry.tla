--------------------------- MODULE GridTelemetry ---------------------------
(***************************************************************************)
(* inverter_control/grid_telemetry.py and its callers in victron.py: is    *)
(* the grid measurement fit to regulate on?                                *)
(*                                                                         *)
(* Three threads write the cache.  The bus loop applies change signals and *)
(* owner changes one at a time.  Readers (the poll thread, the seed after  *)
(* a reconnect, the control thread when its cache is stale) take a token,  *)
(* ask the system service for all its fields, then the selected meter for  *)
(* its health; the bus answers at one moment and the reply is applied at a *)
(* later one.  A reply whose token is no longer current is discarded.      *)
(*                                                                         *)
(* `_generation` only matters compared with a token a reader holds, so     *)
(* current[r] says that r's token still equals it.  `Source` and           *)
(* `ServiceName` of an input are one path "name": None when the kind is    *)
(* not grid or shore, or the name is not a Victron service.  A power is    *)
(* present or absent; its watts play no part in validity.  NameOwner-      *)
(* Changed with either owner empty is one "owner" message.                 *)
(*                                                                         *)
(* The bus is the environment: truth is what it would answer, signals the  *)
(* changes it announced and nobody handled yet.  Every disturbance (a      *)
(* change, a restart, a lost signal, a failed read, an extra reader) takes *)
(* one from `disturbances`, which bounds the model.  One Tick is the retry *)
(* interval of a failed read.  Definitions named Faulty are not the code:  *)
(* each shows that a property notices the bug it has.                      *)
(***************************************************************************)
EXTENDS Integers, Sequences, FiniteSets

CONSTANTS
  None,             \* Python's None, and a field without a value
  System,           \* com.victronenergy.system
  Meters,           \* external meters, com.victronenergy.grid.*
  Natives,          \* other sources, such as the inverter itself
  Inputs,           \* indices of /Ac/In that exist, 0 and perhaps 1
  Identities,       \* the <<service, device instance>> pairs an input may show,
                    \* and None when it may show no grid source
  Layouts,          \* sets of phases the grid may be measured on
  Declarations,     \* NrOfPhases a meter may declare, None when it has none
  Readers,          \* "poll", and extra ones: "seed", "main"
  ExpectedService,  \* GRID_EXPECTED_SERVICE, None when it is learned
  ExpectedPhases,   \* GRID_EXPECTED_PHASES, 0 when they are learned
  MaxAge,           \* _max_age
  Reconcile,        \* SIGNAL_RECONCILE_INTERVAL
  Disturbances      \* bound: how often the environment interferes

Phases   == 1 .. 2
Sources  == Meters \cup Natives
Expired  == MaxAge + 1    \* every age above MaxAge, and a value never seen

ASSUME GridAssumption ==
  /\ Inputs \subseteq 0 .. 1 /\ Inputs # {}
  /\ Identities \subseteq (Sources \X Nat) \cup {None}
  /\ None \notin Sources \cup Nat /\ System \notin Sources
  /\ Layouts \subseteq SUBSET Phases
  /\ "poll" \in Readers
  /\ ExpectedService \in Sources \cup {None}
  /\ ExpectedPhases \in 0 .. 2
  /\ MaxAge \in Nat /\ Reconcile \in 1 .. MaxAge /\ Disturbances \in Nat

VARIABLES
  truth,        \* what the system service would answer now
  health,       \* what the meters would answer now
  signals,      \* announced changes, a sequence of unordered batches
  disturbances, \* interferences left
  fields,       \* _fields
  age,          \* age of _updated for each path
  meter,        \* _meter_fields, _meter_updated, _meter_ready, _declared_...
  ownerError,   \* _owner_error is set
  reqPhases,    \* _required_phases
  source,       \* _source
  sourceInst,   \* _source_instance
  stage,        \* where each reader is
  current,      \* its token equals _generation
  reply,        \* what it was answered, or the meter it asked
  retry,        \* _next_grid_retry: "none", "armed" or "due"
  sinceRec,     \* time since _last_signal_reconcile
  rescan,       \* _discovery_requested
  overtaken,    \* history: something newer came since the reader asked
  restarted,    \* history: restarted, and not read since
  contract      \* history: what the first valid snapshots established

bus     == <<truth, health, signals, disturbances>>
cache   == <<fields, age, meter, ownerError>>
pins    == <<reqPhases, source, sourceInst, contract>>
readers == <<stage, current, reply, overtaken>>
polling == <<retry, sinceRec, rescan>>
vars    == <<bus, cache, pins, readers, polling, restarted>>

Numbers   == {identity[2] : identity \in Identities \ {None}}
Count(layout) == IF layout = {} THEN None
                 ELSE CHOOSE n \in layout : \A m \in layout : m <= n

SystemFields == [count : Phases \cup {None}, power : SUBSET Phases,
                 name : [Inputs -> Sources \cup {None}],
                 inst : [Inputs -> Numbers \cup {None}]]
NoFields == [count |-> None, power |-> {},
             name |-> [i \in Inputs |-> None], inst |-> [i \in Inputs |-> None]]
\* What the bus computes from the measured phases and the identity of each input.
TruthOf(layout, at) ==
  [count |-> Count(layout), power |-> layout,
   name |-> [i \in Inputs |-> IF at[i] = None THEN None ELSE at[i][1]],
   inst |-> [i \in Inputs |-> IF at[i] = None THEN None ELSE at[i][2]]]
Truths == {TruthOf(layout, at) : layout \in Layouts,
                                 at \in [Inputs -> Identities]}
MeterHealth == [connected : BOOLEAN, declared : Declarations]

Paths == {<<"count">>} \cup ({"power"} \X Phases) \cup ({"name", "inst"} \X Inputs)
ValueAt(f, path) ==
  CASE path[1] = "count" -> f.count
    [] path[1] = "power" -> path[2] \in f.power
    [] path[1] = "name"  -> f.name[path[2]]
    [] path[1] = "inst"  -> f.inst[path[2]]
NoMeter == [connected |-> {}, declared |-> [m \in Meters |-> None], ready |-> {},
            required |-> {}, age |-> [m \in Meters |-> Expired]]

\* What the system service, a meter and the bus itself announce
Messages ==
  {[from |-> System, path |-> path, value |-> ValueAt(f, path)] :
     path \in Paths, f \in SystemFields}
  \cup {[from |-> m, path |-> <<"connected">>, value |-> b] : m \in Meters, b \in BOOLEAN}
  \cup {[from |-> m, path |-> <<"declared">>, value |-> d] : m \in Meters, d \in Declarations}
  \cup {[from |-> s, path |-> <<"owner">>, value |-> None] : s \in Sources \cup {System}}

TypeOK ==
  /\ truth \in SystemFields /\ health \in [Meters -> MeterHealth]
  /\ signals \in Seq(SUBSET Messages)
  /\ disturbances \in 0 .. Disturbances
  /\ fields \in SystemFields /\ age \in [Paths -> 0 .. Expired]
  /\ meter \in [connected : SUBSET Meters, declared : [Meters -> Declarations \cup {None}],
                ready : SUBSET Meters, required : SUBSET Meters,
                age : [Meters -> 0 .. Expired]]
  /\ ownerError \in BOOLEAN
  /\ reqPhases \in 0 .. 2 /\ source \in Sources \cup {None}
  /\ sourceInst \in Numbers \cup {None}
  /\ stage \in [Readers -> {"idle", "asked", "answered", "meterAsked", "meterAnswered",
                          "finishing"}]
  /\ current \in [Readers -> BOOLEAN] /\ overtaken \in [Readers -> BOOLEAN]
  /\ reply \in [Readers -> SystemFields \cup Meters \cup MeterHealth \cup {None}]
  /\ \A r \in Readers : CASE stage[r] = "answered" -> reply[r] \in SystemFields \cup {None}
                          [] stage[r] = "meterAsked" -> reply[r] \in Meters
                          [] stage[r] = "meterAnswered" -> reply[r] \in MeterHealth \cup {None}
                          [] OTHER -> reply[r] = None
  /\ retry \in {"none", "armed", "due"} /\ sinceRec \in 0 .. Reconcile /\ rescan \in BOOLEAN
  /\ restarted \subseteq Sources \cup {System}
  /\ contract \in [id : (Sources \X Numbers) \cup {None}, phases : 0 .. 2]

Init ==
  /\ truth \in Truths /\ health \in [Meters -> MeterHealth]
  /\ signals = <<>> /\ disturbances = Disturbances
  /\ fields = NoFields /\ age = [path \in Paths |-> Expired]
  /\ meter = NoMeter /\ ownerError = FALSE
  /\ reqPhases = ExpectedPhases /\ source = ExpectedService /\ sourceInst = None
  /\ contract = [id |-> None, phases |-> 0]
  /\ stage = [r \in Readers |-> "idle"] /\ current = [r \in Readers |-> FALSE]
  /\ reply = [r \in Readers |-> None] /\ overtaken = [r \in Readers |-> FALSE]
  /\ retry = "none" /\ sinceRec = Reconcile /\ rescan = TRUE
  /\ restarted = {}

-----------------------------------------------------------------------------
(* Validity. *)

Candidates(f) == {i \in Inputs : f.name[i] # None /\ f.inst[i] # None}
FirstOf(set)  == CHOOSE i \in set : \A j \in set : i <= j
Selected(f)   == IF Candidates(f) = {} THEN <<None, None>>
                 ELSE LET i == FirstOf(Candidates(f)) IN <<f.name[i], f.inst[i]>>
SelectedMeter(f) == IF Selected(f)[1] \in Meters THEN Selected(f)[1] ELSE None

\* Faulty: the default, 0 expected phases, is taken for an expectation.
FaultyExpectsNone ==
  /\ fields.count \in Phases
  /\ ExpectedPhases = fields.count
  /\ fields.count >= reqPhases
  /\ 1 .. fields.count \subseteq fields.power
\* Faulty: a count that fell is accepted.
FaultyPowerOK ==
  /\ fields.count \in Phases
  /\ ExpectedPhases \in {0, fields.count}
  /\ 1 .. fields.count \subseteq fields.power
PowerOK ==
  /\ fields.count \in Phases
  /\ ExpectedPhases \in {0, fields.count}
  /\ fields.count >= reqPhases
  /\ 1 .. fields.count \subseteq fields.power
SourceOK ==
  /\ Cardinality({<<fields.name[i], fields.inst[i]>> : i \in Candidates(fields)}) = 1
  /\ source \in {None, Selected(fields)[1]}
  /\ sourceInst \in {None, Selected(fields)[2]}
MeterOK ==
  LET m == SelectedMeter(fields) IN
  m # None =>
    /\ m \in meter.ready \cap meter.connected
    /\ (m \in meter.required \/ meter.declared[m] # None)
         => meter.declared[m] = fields.count
    /\ meter.age[m] <= MaxAge
Recent ==
  LET i == FirstOf(Candidates(fields)) IN
  \A path \in {<<"count">>, <<"name", i>>, <<"inst", i>>}
                \cup ({"power"} \X (1 .. fields.count)) : age[path] <= MaxAge
Valid == ~ownerError /\ PowerOK /\ SourceOK /\ MeterOK /\ Recent

\* Faulty: the contract is taken before the snapshot was found valid.
FaultyPinContract ==
  /\ reqPhases' = fields.count
  /\ source' = Selected(fields)[1]
  /\ sourceInst' = Selected(fields)[2]
\* snapshot: a valid one pins the source, its instance and the phases.
PinContract ==
  IF Valid
  THEN /\ reqPhases' = IF fields.count > reqPhases THEN fields.count ELSE reqPhases
       /\ source' = Selected(fields)[1]
       /\ sourceInst' = Selected(fields)[2]
  ELSE UNCHANGED <<reqPhases, source, sourceInst>>
NoteContract ==
  contract' = IF Valid
              THEN [id |-> IF contract.id = None THEN Selected(fields) ELSE contract.id,
                    phases |-> IF fields.count > contract.phases THEN fields.count
                               ELSE contract.phases]
              ELSE contract

-----------------------------------------------------------------------------
(* The bus loop: signals and owner changes. *)

\* Every token becomes stale, except that of a reader that takes the new one.
BumpFor(keep) == current' = [r \in Readers |-> r \in keep]
Overtake(them) == overtaken' = [r \in Readers |->
                     overtaken[r] \/ (r \in them /\ stage[r] # "idle")]

Without(f, path, value) ==
  CASE path[1] = "count" -> [f EXCEPT !.count = value]
    [] path[1] = "power" -> [f EXCEPT !.power = IF value THEN @ \cup {path[2]}
                                                ELSE @ \ {path[2]}]
    [] path[1] = "name"  -> [f EXCEPT !.name[path[2]] = value]
    [] path[1] = "inst"  -> [f EXCEPT !.inst[path[2]] = value]

\* Which observed fields make the replies in flight stale.
Bumps(path, value) ==
  IF path[1] = "power" THEN ~value ELSE value # ValueAt(fields, path)

Update(path, value) ==
  LET new == Without(fields, path, value) IN
  /\ fields' = new
  /\ age' = [age EXCEPT ![path] = 0]
  /\ IF Bumps(path, value) THEN BumpFor({}) ELSE UNCHANGED current
  /\ rescan' = (rescan \/ SelectedMeter(new) # SelectedMeter(fields))
  /\ UNCHANGED <<meter, ownerError>>

UpdateMeter(m, path, value) ==
  /\ IF m # SelectedMeter(fields) THEN UNCHANGED <<meter, current>>
     ELSE IF path = <<"connected">>
     THEN /\ meter' = [meter EXCEPT !.connected = IF value THEN @ \cup {m} ELSE @ \ {m},
                                    !.age[m] = 0]
          /\ IF value THEN UNCHANGED current ELSE BumpFor({})
     ELSE /\ meter' = [meter EXCEPT !.declared[m] = value, !.required = @ \cup {m}]
          /\ IF value = meter.declared[m] THEN UNCHANGED current ELSE BumpFor({})
  /\ UNCHANGED <<fields, age, ownerError, rescan>>

\* Faulty: the health a meter had before stays.
FaultyForget ==
  /\ fields' = NoFields /\ age' = [path \in Paths |-> Expired]
  /\ ownerError' = TRUE /\ UNCHANGED meter
\* owner_changed and unavailable forget every value; what a meter once
\* declared stays required.
Forget ==
  /\ fields' = NoFields /\ age' = [path \in Paths |-> Expired]
  /\ meter' = [NoMeter EXCEPT !.required = meter.required]
  /\ ownerError' = TRUE
Concerns(s) == s = System \/ s = source \/ s = SelectedMeter(fields)
\* Faulty: replies in flight survive the change.
FaultyOwnerChanged(s) ==
  IF Concerns(s)
  THEN Forget /\ UNCHANGED current /\ rescan' = TRUE
  ELSE UNCHANGED <<cache, current>> /\ rescan' = (rescan \/ s \in Natives)
OwnerChanged(s) ==
  IF Concerns(s)
  THEN Forget /\ BumpFor({}) /\ rescan' = TRUE
  ELSE UNCHANGED <<cache, current>> /\ rescan' = (rescan \/ s \in Natives)

\* Does the message say that what was known before it may be wrong?
Invalidating(msg) ==
  \/ msg.path = <<"owner">> /\ msg.from \in {System, source, SelectedMeter(fields)}
  \/ msg.from = System /\ msg.path \in Paths
       /\ (msg.path[1] = "power" => ~msg.value)
       /\ msg.value # ValueAt(fields, msg.path)
  \/ msg.from \in Meters /\ msg.from = SelectedMeter(fields)
       /\ msg.path = <<"connected">> /\ ~msg.value

Deliver ==
  /\ signals # <<>>
  /\ \E msg \in Head(signals) :
       /\ signals' = IF Head(signals) = {msg} THEN Tail(signals)
                     ELSE <<Head(signals) \ {msg}>> \o Tail(signals)
       /\ IF msg.path = <<"owner">> THEN OwnerChanged(msg.from)
          ELSE IF msg.from = System THEN Update(msg.path, msg.value)
          ELSE UpdateMeter(msg.from, msg.path, msg.value)
       /\ IF Invalidating(msg) THEN Overtake(Readers) ELSE UNCHANGED overtaken
       /\ restarted' = IF msg.path = <<"owner">> /\ msg.from \in Meters \cup {System, source}
                       THEN restarted \cup {msg.from} ELSE restarted
  /\ UNCHANGED <<truth, health, disturbances, pins, stage, reply, retry, sinceRec>>

-----------------------------------------------------------------------------
(* Readers. *)

Begin(r) ==
  /\ stage[r] = "idle"
  /\ stage' = [stage EXCEPT ![r] = "asked"]
  /\ current' = [current EXCEPT ![r] = TRUE]
  /\ overtaken' = [overtaken EXCEPT ![r] = FALSE]
  /\ UNCHANGED <<truth, health, signals, cache, pins, reply, restarted>>

\* The poll thread: a requested rediscovery ends in a seed; otherwise the
\* periodic reconciliation, or the retry of a snapshot that was not valid.
PollReads ==
  /\ Begin("poll")
  /\ \/ rescan /\ rescan' = FALSE /\ sinceRec' = 0
     \/ ~rescan /\ sinceRec = Reconcile /\ sinceRec' = 0 /\ UNCHANGED rescan
     \/ ~rescan /\ sinceRec < Reconcile /\ retry = "due" /\ UNCHANGED <<rescan, sinceRec>>
  /\ UNCHANGED <<disturbances, retry>>

\* The seed after a reconnect, or the control thread with a stale cache.
ExtraReads(r) ==
  /\ r # "poll" /\ disturbances > 0
  /\ Begin(r)
  /\ disturbances' = disturbances - 1
  /\ sinceRec' = IF r = "seed" THEN 0 ELSE sinceRec
  /\ UNCHANGED <<retry, rescan>>

\* The bus answers with what holds now, or the read fails.
Answered(r, next, answer) ==
  /\ stage' = [stage EXCEPT ![r] = next]
  /\ \/ reply' = [reply EXCEPT ![r] = answer] /\ UNCHANGED disturbances
     \/ /\ disturbances > 0 /\ disturbances' = disturbances - 1
        /\ reply' = [reply EXCEPT ![r] = None]
  /\ UNCHANGED <<truth, health, signals, cache, pins, current, overtaken, polling, restarted>>
SystemAnswers(r) == stage[r] = "asked" /\ Answered(r, "answered", truth)
MeterAnswers(r)  == stage[r] = "meterAsked"
                    /\ Answered(r, "meterAnswered", health[reply[r]])

Discard(r) ==
  stage' = [stage EXCEPT ![r] = "finishing"] /\ reply' = [reply EXCEPT ![r] = None]

Replace(new) ==
  fields' = new /\ age' = [path \in Paths |-> 0] /\ ownerError' = FALSE

\* replace, or unavailable when the read failed.
ApplySystem(r) ==
  /\ stage[r] = "answered"
  /\ IF ~current[r]
     THEN Discard(r) /\ UNCHANGED <<cache, current, overtaken, restarted>>
     ELSE /\ BumpFor({r})
          /\ IF reply[r] = None
             THEN Discard(r) /\ Forget /\ Overtake(Readers \ {r}) /\ UNCHANGED restarted
             ELSE /\ Replace(reply[r])
                  /\ restarted' = restarted \ ({System} \cup Natives)
                  /\ IF SelectedMeter(reply[r]) = None
                     THEN Discard(r) /\ Overtake(Readers \ {r})
                     ELSE /\ stage' = [stage EXCEPT ![r] = "meterAsked"]
                          /\ reply' = [reply EXCEPT ![r] = SelectedMeter(reply[r])]
                          /\ overtaken' = [q \in Readers |->
                                             q # r /\ (overtaken[q] \/ stage[q] # "idle")]
                  /\ UNCHANGED meter
  /\ UNCHANGED <<bus, pins, polling>>

\* replace_meter: all of the meter's health or none of it.
ApplyMeter(r) ==
  /\ stage[r] = "meterAnswered"
  /\ Discard(r)
  /\ IF ~current[r] THEN UNCHANGED <<meter, current, overtaken, restarted>>
     ELSE LET m == SelectedMeter(fields)
              h == reply[r] IN
          /\ BumpFor({r}) /\ Overtake(Readers \ {r})
          /\ IF h = None
             THEN meter' = [meter EXCEPT !.ready = @ \ {m}] /\ UNCHANGED restarted
             ELSE /\ meter' = [meter EXCEPT
                       !.connected = IF h.connected THEN @ \cup {m} ELSE @ \ {m},
                       !.declared[m] = h.declared,
                       !.required = IF h.declared = None THEN @ ELSE @ \cup {m},
                       !.ready = @ \cup {m},
                       !.age[m] = 0]
                  /\ restarted' = restarted \ {m}
  /\ UNCHANGED <<bus, fields, age, ownerError, pins, polling>>

\* _schedule_grid_retry, at the end of every read.
Finish(r) ==
  /\ stage[r] = "finishing"
  /\ stage' = [stage EXCEPT ![r] = "idle"]
  /\ retry' = IF Valid THEN "none" ELSE "armed"
  /\ PinContract /\ NoteContract
  /\ current' = [current EXCEPT ![r] = FALSE]      \* the token is out of scope
  /\ overtaken' = [overtaken EXCEPT ![r] = FALSE]
  /\ UNCHANGED <<bus, cache, reply, sinceRec, rescan, restarted>>

\* The control loop, the filter and the display read the cache.
Snapshot ==
  /\ PinContract /\ NoteContract
  /\ UNCHANGED <<bus, cache, readers, polling, restarted>>

-----------------------------------------------------------------------------
(* The environment. *)

Announce(batch) == signals' = Append(signals, batch)
Disturb == disturbances > 0 /\ disturbances' = disturbances - 1

\* The measured phases change, or the identity of the inputs.
GridChanges ==
  /\ Disturb
  /\ \E new \in Truths \ {truth} :
       /\ \/ new.power = truth.power
          \/ new.name = truth.name /\ new.inst = truth.inst
       /\ truth' = new
       /\ Announce({[from |-> System, path |-> path, value |-> ValueAt(new, path)] :
                      path \in {q \in Paths : ValueAt(new, q) # ValueAt(truth, q)}})
  /\ UNCHANGED <<health, cache, pins, readers, polling, restarted>>

MeterChanges ==
  /\ Disturb
  /\ \E m \in Meters, new \in MeterHealth :
       /\ new # health[m]
       /\ health' = [health EXCEPT ![m] = new]
       /\ Announce({[from |-> m, path |-> <<f>>, value |-> new[f]] :
                      f \in {g \in DOMAIN new : new[g] # health[m][g]}})
  /\ UNCHANGED <<truth, cache, pins, readers, polling, restarted>>

ServiceRestarts ==
  /\ Disturb
  /\ \E s \in Sources \cup {System} :
       Announce({[from |-> s, path |-> <<"owner">>, value |-> None]})
  /\ UNCHANGED <<truth, health, cache, pins, readers, polling, restarted>>

SignalsAreLost ==
  /\ Disturb
  /\ signals # <<>> /\ signals' = Tail(signals)
  /\ UNCHANGED <<truth, health, cache, pins, readers, polling, restarted>>

\* `dbus -y` fails: the request for a rediscovery is gone.
RediscoveryFails ==
  /\ Disturb
  /\ rescan /\ rescan' = FALSE
  /\ UNCHANGED <<truth, health, signals, cache, pins, readers, retry, sinceRec, restarted>>

\* Reads, signals and a due poll take much less than one unit of time.
Tick ==
  /\ signals = <<>> /\ \A r \in Readers : stage[r] = "idle"
  /\ ~rescan /\ sinceRec < Reconcile /\ retry # "due"
  /\ age' = [path \in Paths |-> IF age[path] = Expired THEN Expired ELSE age[path] + 1]
  /\ meter' = [meter EXCEPT !.age = [m \in Meters |->
                 IF @[m] = Expired THEN Expired ELSE @[m] + 1]]
  /\ sinceRec' = sinceRec + 1
  /\ retry' = IF retry = "armed" THEN "due" ELSE "none"
  /\ UNCHANGED <<bus, fields, ownerError, pins, readers, rescan, restarted>>

Next ==
  \/ Deliver \/ PollReads \/ Snapshot \/ Tick
  \/ \E r \in Readers : ExtraReads(r) \/ SystemAnswers(r) \/ ApplySystem(r)
                        \/ MeterAnswers(r) \/ ApplyMeter(r) \/ Finish(r)
  \/ GridChanges \/ MeterChanges \/ ServiceRestarts \/ SignalsAreLost \/ RediscoveryFails

Spec == Init /\ [][Next]_vars

\* The bus loop and the readers keep running (between two Ticks they have only
\* finitely much to do) and time passes; nothing is promised of the bus.
Working ==
  \/ Deliver \/ PollReads
  \/ \E r \in Readers : SystemAnswers(r) \/ ApplySystem(r) \/ MeterAnswers(r)
                        \/ ApplyMeter(r) \/ Finish(r)
Fairness == WF_vars(Working) /\ WF_vars(Tick)
FairSpec == Spec /\ Fairness

-----------------------------------------------------------------------------
(* Properties. *)

\* A reply that something newer overtook (an invalidating signal, an owner
\* change, or another reader's result) changes nothing when it arrives: replace,
\* replace_meter and the callers of unavailable compare their token.
NoRevival ==
  [][\A r \in Readers :
       overtaken[r] /\ stage[r] \in {"answered", "meterAnswered"} /\ stage'[r] # stage[r]
         => UNCHANGED cache]_vars

\* After the system service or the established meter restarted, nothing is
\* valid until each was read again (owner_changed; "A restart of the same
\* well-known D-Bus service requires fresh data").  It needs ExpectedService:
\* the restart of a meter that is neither selected nor pinned is ignored.
FreshAfterRestart == Valid => restarted \cap {System, Selected(fields)[1]} = {}

\* What the first valid snapshots established stays the contract (_source,
\* _source_instance, _required_phases): a valid measurement is never one of
\* another source or instance, nor of fewer phases.
ContractKept ==
  Valid /\ contract.id # None =>
    /\ Selected(fields) = contract.id
    /\ 1 .. contract.phases \subseteq fields.power
    /\ fields.count >= contract.phases

\* The bus offers a measurement the controller can accept.
Good ==
  LET m == SelectedMeter(truth) IN
  /\ truth.count \in Phases /\ ExpectedPhases \in {0, truth.count}
  /\ truth.count >= reqPhases /\ 1 .. truth.count \subseteq truth.power
  /\ Cardinality({<<truth.name[i], truth.inst[i]>> : i \in Candidates(truth)}) = 1
  /\ source \in {None, Selected(truth)[1]} /\ sourceInst \in {None, Selected(truth)[2]}
  /\ m # None => /\ health[m].connected
                 /\ \/ health[m].declared = truth.count
                    \/ (health[m].declared = None /\ m \notin meter.required)

\* Once the bus keeps offering an acceptable measurement, the snapshot becomes
\* valid and stays so, whatever was lost, refused or forgotten before: the
\* poll thread's reconciliation and retry repair it.
Converges == <>[]Good => <>[]Valid

\* victron.py:288: "One reconciliation interval plus the existing silence
\* budget gives unchanged values time to be revalidated": passing time alone
\* never invalidates the measurement.
TimeAloneKeepsValid ==
  [][Valid /\ ~Valid' => signals' # signals \/ stage' # stage]_vars

=============================================================================
