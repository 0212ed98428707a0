---------------------------- MODULE BoundedReader ----------------------------
(* background_reader.py with the reader of the EV charger (evcharger.py).     *)
(*                                                                            *)
(* A worker reads a D-Bus service again and again, a call as long as it takes,*)
(* and leaves a snapshot for the control loop, which never waits: what is too *)
(* old, was followed by an error or was read by a stopped reader is unknown.  *)
(* The charger's service is found by its metadata, which it may not answer,   *)
(* may come, go and change its role: a car's telemetry is not the site's.     *)
EXTENDS Integers, FiniteSetsExt

CONSTANTS
  None,
  MaxAge, Interval,   \* of the BackgroundReader
  DiscoveryTtl,       \* how long the service found is not looked for again
  Changes,            \* bound: changes of the service
  Errors              \* bound: passes that raise

VARIABLES
  service,    \* the service of the configured instance: gone, mute, a charger, a car
  charging,   \* it says that a car is connected here
  worker,     \* what the pass is at, its age, and the power it has read
  found,      \* wallbox_service, with the names seen when it was looked for
  searched,   \* time since then
  pause,      \* time since the end of the last pass
  snapshot,   \* BackgroundReader._snapshot: None, or its age and the power
  stopping,   \* request_stop: not called, the event is set, the snapshot is cleared
  changes, errors

readerVars == <<service, charging, worker, found, searched, pause, snapshot, stopping, changes, errors>>

Ages == 0 .. MaxAge

\* A power by the time since it was read
Powers == [age : Ages]

TypeOK ==
  /\ service \in {"gone", "mute", "charger", "car"} /\ charging \in BOOLEAN
  /\ worker.at \in {"waiting", "begun", "searched", "connected", "read", "ended"}
  /\ worker.age \in Ages /\ worker.power \in {None} \cup Powers
  /\ snapshot \in {None} \cup [age : Ages, power : {None} \cup Powers]
  /\ stopping \in {"no", "set", "cleared"} /\ searched \in 0 .. DiscoveryTtl /\ pause \in 0 .. Interval
  /\ changes \in 0 .. Changes /\ errors \in 0 .. Errors

Init ==
  /\ service \in {"gone", "mute", "charger", "car"} /\ charging \in BOOLEAN
  /\ worker = [at |-> "waiting", age |-> 0, power |-> None]
  /\ found = [wallbox |-> FALSE, listed |-> None] /\ searched = DiscoveryTtl /\ pause = Interval
  /\ snapshot = None /\ stopping = "no" /\ changes = 0 /\ errors = 0

-----------------------------------------------------------------------------
(* EvChargerReader.read *)

Begin ==
  /\ worker.at = "waiting" /\ pause >= Interval /\ stopping = "no"
  /\ worker' = [at |-> "begun", age |-> 0, power |-> None]
  /\ UNCHANGED <<service, charging, found, searched, pause, snapshot, stopping, changes, errors>>

Listed == service # "gone"

\* Mutant: the names alone decide when to look again.
FaultySearchDue == found.listed # Listed

\* "retry unavailable metadata without polling on every read"
SearchDue == found.listed # Listed \/ searched >= DiscoveryTtl

\* _discover_services: the names first, then the metadata; what says that it is a
\* car is not the charger, and what says nothing is neither.
Search ==
  /\ worker.at = "begun" /\ worker' = [worker EXCEPT !.at = "searched"]
  /\ IF SearchDue
       THEN found' = [wallbox |-> service = "charger", listed |-> Listed] /\ searched' = 0
       ELSE UNCHANGED <<found, searched>>
  /\ UNCHANGED <<service, charging, pause, snapshot, stopping, changes, errors>>

\* _read_site_power: the connection, then the power
ReadConnected ==
  /\ worker.at = "searched"
  /\ worker' = [worker EXCEPT !.at = IF found.wallbox /\ service # "gone" /\ charging THEN "connected" ELSE "read"]
  /\ UNCHANGED <<service, charging, found, searched, pause, snapshot, stopping, changes, errors>>

ReadPower ==
  /\ worker.at = "connected"
  /\ worker' = [worker EXCEPT !.at = "read", !.power = IF service = "gone" THEN None ELSE [age |-> 0]]
  /\ UNCHANGED <<service, charging, found, searched, pause, snapshot, stopping, changes, errors>>

-----------------------------------------------------------------------------
(* BackgroundReader *)

\* Mutant: the snapshot is as old as its last call.
FaultyStamp == 0

\* "Age from the beginning of the read pass"
Stamp == worker.age

\* Mutant: a late pass publishes what it read.
FaultyPublishable == TRUE

Publishable == stopping = "no"

Paused == worker' = [at |-> "waiting", age |-> 0, power |-> None] /\ pause' = 0

Publish ==
  /\ worker.at = "read" /\ Paused
  /\ snapshot' = IF Publishable THEN [age |-> Stamp, power |-> worker.power] ELSE snapshot
  /\ UNCHANGED <<service, charging, found, searched, stopping, changes, errors>>

\* The refresh raises: what was known before counts no more.
Raise ==
  /\ worker.at \in {"begun", "searched", "connected"} /\ errors < Errors /\ errors' = errors + 1
  /\ Paused /\ snapshot' = IF Publishable THEN None ELSE snapshot
  /\ UNCHANGED <<service, charging, found, searched, stopping, changes>>

RequestStop ==
  /\ \/ stopping = "no" /\ stopping' = "set" /\ UNCHANGED snapshot
     \/ stopping = "set" /\ stopping' = "cleared" /\ snapshot' = None
  /\ UNCHANGED <<service, charging, worker, found, searched, pause, changes, errors>>

WorkerEnds ==
  /\ worker.at = "waiting" /\ stopping # "no" /\ worker' = [worker EXCEPT !.at = "ended"]
  /\ UNCHANGED <<service, charging, found, searched, pause, snapshot, stopping, changes, errors>>

-----------------------------------------------------------------------------
(* Time and the service *)

Older(age) == Min({age + 1, MaxAge})

Grown(power) == IF power = None THEN None ELSE [age |-> Older(power.age)]

Tick ==
  /\ worker' = [worker EXCEPT !.age = Older(@), !.power = Grown(@)]
  /\ snapshot' = IF snapshot = None THEN None ELSE [age |-> Older(snapshot.age), power |-> Grown(snapshot.power)]
  /\ searched' = Min({searched + 1, DiscoveryTtl}) /\ pause' = Min({pause + 1, Interval})
  /\ UNCHANGED <<service, charging, found, stopping, changes, errors>>

ServiceChanges ==
  /\ changes < Changes /\ changes' = changes + 1
  /\ \/ service' \in {"gone", "mute", "charger", "car"} \ {service} /\ UNCHANGED charging
     \/ charging' = ~charging /\ UNCHANGED service
  /\ UNCHANGED <<worker, found, searched, pause, snapshot, stopping, errors>>

Pass == Begin \/ Search \/ ReadConnected \/ ReadPower \/ Publish

Next == Pass \/ Raise \/ RequestStop \/ WorkerEnds \/ Tick \/ ServiceChanges

Spec == Init /\ [][Next]_readerVars

\* Calls end and time passes.
FairSpec == Spec /\ WF_readerVars(Pass) /\ WF_readerVars(Tick)

-----------------------------------------------------------------------------
(* Properties *)

\* BackgroundReader.read, as the control loop calls it
Served == IF snapshot = None \/ snapshot.age >= MaxAge THEN None ELSE snapshot.power

\* "Before the first result, after an error, or after max_age, read returns the
\* supplied unknown values" (BackgroundReader): however long a call takes and
\* whenever it ends, a power that is served was read less than max_age ago, and
\* none is served once the reader is stopped.
ServedIsRecent == Served # None => Served.age < MaxAge /\ stopping # "cleared"

\* A charger that stays is found, whatever it did not answer when it came, and a
\* car that took its instance is found out (_discover_services).
RoleIsFound == <>[](stopping # "no" \/ found.wallbox = (service = "charger"))
=============================================================================
