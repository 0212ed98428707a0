------------------------------ MODULE SmartShunt ------------------------------
(* How victron.py finds the SmartShunt and keeps the battery measurement.     *)
(*                                                                            *)
(* Three parties write the cached observation: the D-Bus loop with every       *)
(* signal, the poll thread with a snapshot it asked for earlier, and the      *)
(* thread that seeds a value after (re)subscribing.  A read carries the token  *)
(* (service, generation) it started from; generations are only compared with  *)
(* it, so a token here is current until the next change.  Discovery selects the service; the *)
(* startup thread and the poll thread share one non-blocking discovery lock.  *)
(*                                                                            *)
(* Voltage, current and power are one value; what the shunt measures is        *)
(* numbered; leaving the bus and disconnecting count as measuring nothing.     *)
EXTENDS Naturals, Sequences

CONSTANTS
  None,
  Services,        \* the names the shunt's service may have on the bus
  FailThreshold,   \* SERVICE_FAIL_THRESHOLD
  Changes,         \* bound: the shunt measures, leaves, returns, disconnects
  Failures,        \* bound: reads, scans and product names that fail
  Seeds            \* bound: values seeded

VARIABLES
  device,       \* the shunt: [name, connected, version]
  signals,      \* its signals and NameOwnerChanged the loop has still to handle
  cache,        \* [service, connected, value]: _shunt_service, _shunt_connected, _system_data
  reader,       \* the poll's and the seed's read in flight: None or [service, current, reply]
  scan,         \* discovery in the startup and poll threads: None, "listing" or its result
  requested,    \* _discovery_requested
  health,       \* [fails, backoff]: _service_consecutive_fails, _service_backoff_until
  handled,      \* the newest version the loop has handled for the selected service
  chances       \* what remains of the bounds

hvars == <<device, signals, cache, reader, scan, requested, health, handled, chances>>

Readers == {"poll", "seed"}
Scanners == {"startup", "poll"}
Versions == 0 .. Changes
Connections == BOOLEAN \cup {None}
NoReply == [connected |-> None, value |-> None]

TypeOK ==
  /\ device \in [name : Services \cup {None}, connected : BOOLEAN, version : Versions]
  /\ cache.service \in Services \cup {None} /\ cache.connected \in Connections
  /\ cache.value \in Versions \cup {None}
  /\ scan \in [Scanners -> Services \cup {None, "listing", "nothing"}]
  /\ health \in [fails : 0 .. FailThreshold, backoff : BOOLEAN]
  /\ requested \in BOOLEAN /\ handled \in Versions

Init ==
  /\ device = [name |-> CHOOSE s \in Services : TRUE, connected |-> TRUE, version |-> 0]
  /\ signals = <<>> /\ handled = 0
  /\ cache = [service |-> None, connected |-> None, value |-> None]
  /\ reader = [r \in Readers |-> None]
  /\ scan = [startup |-> "listing", poll |-> None]
  /\ requested = FALSE
  /\ health = [fails |-> 0, backoff |-> FALSE]
  /\ chances = [changes |-> Changes, failures |-> Failures, seeds |-> Seeds]

Fails == chances.failures > 0 /\ chances' = [chances EXCEPT !.failures = @ - 1]

-----------------------------------------------------------------------------
(* The observation, always changed under _shunt_lock *)

\* A change is a new generation: tokens taken before it are no longer current.
Overtaken(reads) == [r \in Readers |-> IF reads[r] = None THEN None ELSE [reads[r] EXCEPT !.current = FALSE]]
Observe(c, reads) == cache' = c /\ reader' = Overtaken(reads)

\* _clear_shunt_data
Cleared(c) == [c EXCEPT !.value = None]

\* _apply_shunt_value_locked
WithValue(c, value) ==
  [c EXCEPT !.value = IF c.connected = FALSE THEN @ ELSE value]
WithConnected(c, connected) ==
  [c EXCEPT !.connected = connected, !.value = IF connected THEN @ ELSE None]

\* Mutant: any reply is committed.
FaultyCurrent(read) == TRUE

Current(read) == read.current

\* _commit_shunt_snapshot and _accept_shunt_data
Committed(c, reply) ==
  LET d == [c EXCEPT !.connected = reply.connected] IN
  IF reply.value = None \/ reply.connected = FALSE THEN Cleared(d)
  ELSE [d EXCEPT !.value = reply.value]

-----------------------------------------------------------------------------
(* The D-Bus loop: _apply_fast_value and _on_name_owner_changed *)

Handle ==
  /\ signals # <<>>
  /\ signals' = Tail(signals)
  /\ LET m == Head(signals)
         ours == m.service = cache.service IN
     /\ handled' = IF ours THEN m.version ELSE handled
     /\ \/ ~ours /\ UNCHANGED <<cache, reader>>
        \/ ours /\ m.kind = "value" /\ Observe(WithValue(cache, m.version), reader)
        \/ ours /\ m.kind = "connected" /\ Observe(WithConnected(cache, m.on), reader)
        \/ ours /\ m.kind = "owner" /\ Observe(WithConnected(cache, FALSE), reader)
     /\ requested' = (requested \/ m.kind = "owner")
  /\ UNCHANGED <<device, scan, health, chances>>

-----------------------------------------------------------------------------
(* Reads: _poll_shunt_data, _seed_fast_target, and the health of the service *)

Begin(r) ==
  /\ reader[r] = None /\ cache.service # None
  /\ \/ r = "poll" /\ scan["poll"] = None /\ UNCHANGED chances
     \/ r = "seed" /\ chances.seeds > 0 /\ chances' = [chances EXCEPT !.seeds = @ - 1]
  /\ reader' = [reader EXCEPT ![r] = [service |-> cache.service, current |-> TRUE, reply |-> None]]
  /\ UNCHANGED <<device, signals, cache, scan, requested, health, handled>>

\* _record_service_success, _record_service_failure
Succeeded == [fails |-> 0, backoff |-> FALSE]
Failed(h) == LET n == IF h.fails = FailThreshold THEN h.fails ELSE h.fails + 1
             IN [fails |-> n, backoff |-> n = FailThreshold]

\* _native_reconciliation_read, then _reconciliation_fallback: both or neither
Answer(r) ==
  /\ reader[r] # None /\ reader[r].reply = None
  /\ \/ /\ health.backoff
        /\ reader' = [reader EXCEPT ![r].reply = NoReply]
        /\ UNCHANGED <<health, chances>>
     \/ /\ ~health.backoff /\ device.name = reader[r].service
        /\ reader' = [reader EXCEPT ![r].reply = [connected |-> device.connected, value |-> device.version]]
        /\ health' = Succeeded /\ UNCHANGED chances
     \/ /\ ~health.backoff
        /\ IF device.name = reader[r].service THEN Fails ELSE UNCHANGED chances
        /\ reader' = [reader EXCEPT ![r].reply = NoReply]
        /\ health' = Failed(health)
  /\ UNCHANGED <<device, signals, cache, scan, requested, handled>>

BackoffEnds ==
  /\ health.backoff
  /\ health' = [health EXCEPT !.backoff = FALSE]
  /\ UNCHANGED <<device, signals, cache, reader, scan, requested, handled, chances>>

Commit(r) ==
  /\ reader[r] # None /\ reader[r].reply # None
  /\ LET others == [reader EXCEPT ![r] = None]
         value == reader[r].reply.value IN
     \/ ~Current(reader[r]) /\ reader' = others /\ UNCHANGED cache
     \/ Current(reader[r]) /\ r = "poll" /\ Observe(Committed(cache, reader[r].reply), others)
     \/ Current(reader[r]) /\ r = "seed" /\ Observe(WithValue(cache, value), others)
  /\ UNCHANGED <<device, signals, scan, requested, health, handled, chances>>

-----------------------------------------------------------------------------
(* Discovery: _check_rescan_needed, _discover_services, _apply_discovery *)

DiscoveryFree == \A t \in Scanners : scan[t] = None

\* Mutant: no periodic rescan, only the events.
FaultyRescanDue == requested

\* A request, many errors, or the rescan interval
RescanDue == TRUE

\* The request is taken down before the lock is tried: a scan already running
\* in the startup thread answers it, or nothing does until the next rescan.
CheckRescan ==
  /\ RescanDue /\ scan["poll"] = None /\ reader["poll"] = None
  /\ requested' = FALSE
  /\ scan' = IF DiscoveryFree THEN [scan EXCEPT !["poll"] = "listing"] ELSE scan
  /\ UNCHANGED <<device, signals, cache, reader, health, handled, chances>>

\* dbus -y, and the product name of each battery service
List(t) ==
  /\ scan[t] = "listing"
  /\ \/ scan' = [scan EXCEPT ![t] = IF device.name = None THEN "nothing" ELSE device.name] /\ UNCHANGED chances
     \/ Fails /\ scan' = [scan EXCEPT ![t] = None]
     \/ Fails /\ scan' = [scan EXCEPT ![t] = "nothing"]
  /\ UNCHANGED <<device, signals, cache, reader, requested, health, handled>>

Apply(t) ==
  /\ scan[t] \notin {None, "listing"}
  /\ scan' = [scan EXCEPT ![t] = None]
  /\ LET found == IF scan[t] = "nothing" THEN None ELSE scan[t] IN
     IF found = cache.service THEN UNCHANGED <<cache, reader, handled>>
     ELSE /\ Observe([service |-> found, connected |-> None, value |-> None], reader)
          /\ handled' = 0
  /\ UNCHANGED <<device, signals, requested, health, chances>>

-----------------------------------------------------------------------------
(* The shunt and its service *)

Change == chances.changes > 0 /\ chances' = [chances EXCEPT !.changes = @ - 1]
Emit(kind, name) ==
  signals' = Append(signals, [kind |-> kind, service |-> name, on |-> device'.connected, version |-> device'.version])

Measures ==
  /\ device.name # None /\ Change
  /\ device' = [device EXCEPT !.version = @ + 1] /\ Emit("value", device.name)
  /\ UNCHANGED <<cache, reader, scan, requested, health, handled>>

ConnectionChanges ==
  /\ device.name # None /\ Change
  /\ device' = [device EXCEPT !.connected = ~@, !.version = IF device.connected THEN @ + 1 ELSE @]
  /\ Emit("connected", device.name)
  /\ UNCHANGED <<cache, reader, scan, requested, health, handled>>

Leaves ==
  /\ device.name # None /\ Change
  /\ device' = [device EXCEPT !.name = None, !.version = @ + 1] /\ Emit("owner", device.name)
  /\ UNCHANGED <<cache, reader, scan, requested, health, handled>>

Returns ==
  /\ device.name = None
  /\ \E s \in Services : device' = [device EXCEPT !.name = s] /\ Emit("owner", s)
  /\ UNCHANGED <<cache, reader, scan, requested, health, handled, chances>>

Poll == Begin("poll") \/ Answer("poll") \/ Commit("poll")
Seed == Begin("seed") \/ Answer("seed") \/ Commit("seed")
Discover == CheckRescan \/ \E t \in Scanners : List(t) \/ Apply(t)
Next == Handle \/ Poll \/ Seed \/ Discover \/ BackoffEnds
        \/ Measures \/ ConnectionChanges \/ Leaves \/ Returns

Spec == Init /\ [][Next]_hvars

-----------------------------------------------------------------------------
(* Properties *)

\* "Reject a reply superseded by a signal, disconnect, or source change": the
\* cached measurement is never older than the newest thing the loop has handled
\* for this service, a newer signal or its departure, whichever read answers
\* late (_commit_shunt_snapshot, _seed_fast_target, victron.py).
NewestObservationWins == cache.value # None => cache.value >= handled

Available == cache.service # None /\ cache.service = device.name /\ cache.connected # FALSE
             /\ cache.value = device.version

\* A SmartShunt that stays on the bus, under whatever name and after whatever
\* failed reads, failed scans and restarts, ends up selected and measured.
ShuntIsFound == <>[](device.name # None /\ device.connected) => <>[]Available

=============================================================================
