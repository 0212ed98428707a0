---------------------------- MODULE EssSelection ----------------------------
(* ess_modes.py and the ESS part of victron.py: an explicit choice of the     *)
(* mode, the legacy toggle, and the cached observation published with the     *)
(* receipt of the last choice.                                                *)
(*                                                                            *)
(* The MQTT thread applies choices and toggles, the poll thread refreshes the *)
(* cache, and the main loop publishes what it finds there or reads itself.    *)
(* The device has a switch and a profile of two settings, so that a choice    *)
(* may take two writes; others may change it too.                             *)
EXTENDS Naturals, Sequences

CONSTANTS
  None,
  Requests,     \* request ids, each delivered any number of times
  Remembered,   \* the 128 entries of EssSelection._seen
  Choices       \* bound: choices and toggles that wrote

VARIABLES
  device,       \* the settings and the switch of the inverter
  seen,         \* EssSelection._seen: the requests, oldest first
  receipt,      \* EssSelection._status, with the number of ended writers then
  op,           \* the MQTT thread
  essLock,      \* EssSelection._lock: None or its thread
  selectLock,   \* _ess_selection_lock: None or its thread
  reading,      \* the read in progress under _ess_selection_lock
  cache,        \* _ess_mode_cache: None, or external and the writers it follows
  ended,        \* choices and toggles whose writes are over
  loop,         \* EssSelection.observe: None or what its read returned
  published     \* the last published observation and receipt, by their writers

evars == <<device, seen, receipt, op, essLock, selectLock, reading, cache, ended, loop, published>>

Lives == {"with", "without", "keep"}
Modes == {"off", "on", "external"} \cup Lives
\* Hub4 modes 1 and 2 differ in phase compensation only, which a choice keeps.
Devices == [switch : {"on", "off"}, hub : {1, 3}, life : Lives]
Readers == {"mqtt", "loop", "poll"}
Observations == [external : BOOLEAN, after : 0 .. Choices]

\* selected_mode: what the settings of an inverter that is on amount to
Profile(d) == IF d.hub = 3 THEN "external" ELSE d.life

Resting == [at |-> "idle", request |-> None, mode |-> None, writes |-> <<>>, before |-> None, failed |-> FALSE]

TypeOK ==
  /\ device \in Devices /\ op.at \in {"idle", "chosen", "writing", "toggle", "toggling"}
  /\ \A i \in 1 .. Len(seen) : seen[i] \in Requests
  /\ essLock \in {None} \cup Readers /\ selectLock \in {None} \cup Readers
  /\ cache \in {None} \cup Observations /\ reading \in {None} \cup Observations
  /\ ended \in 0 .. Choices

Init ==
  /\ device = [switch |-> "on", hub |-> 3, life |-> "with"]
  /\ seen = <<>> /\ receipt = [request |-> None, error |-> FALSE, ended |-> 0]
  /\ op = Resting /\ essLock = None /\ selectLock = None /\ reading = None
  /\ cache = None /\ ended = 0 /\ loop = None /\ published = [receipt |-> 0, after |-> 0]

\* The MQTT thread takes its next message; it is not reading for a toggle.
Idle == op.at = "idle" /\ selectLock # "mqtt"

-----------------------------------------------------------------------------
(* EssSelection.apply and select_ess_mode *)

\* A request is remembered before it is tried, the oldest one forgotten.
Take(r, mode) ==
  /\ Idle /\ essLock = None
  /\ \A i \in 1 .. Len(seen) : seen[i] # r
  /\ seen' = IF Len(seen) = Remembered THEN Append(Tail(seen), r) ELSE Append(seen, r)
  /\ essLock' = "mqtt" /\ op' = [Resting EXCEPT !.at = "chosen", !.request = r, !.mode = mode]
  /\ UNCHANGED <<device, receipt, selectLock, reading, cache, ended, loop, published>>

Answer(error, n) == receipt' = [request |-> op.request, error |-> error, ended |-> n]

\* DRY mode, an inverter whose switch is not adjustable, settings not there
Refuse ==
  /\ op.at = "chosen"
  /\ Answer(TRUE, ended) /\ op' = Resting /\ essLock' = None
  /\ UNCHANGED <<device, seen, selectLock, reading, cache, ended, loop, published>>

\* Mutant: the profile is enabled before it was written.
FaultyWrites(mode) ==
  CASE mode \in {"on", "off"} -> << <<"switch", mode>> >>
    [] mode = "external"      -> << <<"hub", 3>> >>
    [] OTHER                  -> << <<"hub", 1>>, <<"life", mode>> >>

\* _ess_mode_writes: "Write the profile first; a rejection must not enable
\* another profile"
Writes(mode) ==
  CASE mode \in {"on", "off"} -> << <<"switch", mode>> >>
    [] mode = "external"      -> << <<"hub", 3>> >>
    [] OTHER                  -> << <<"life", mode>>, <<"hub", 1>> >>

Plan ==
  /\ op.at = "chosen" /\ selectLock = None /\ ended < Choices
  /\ selectLock' = "mqtt"
  /\ op' = [op EXCEPT !.at = "writing", !.writes = Writes(op.mode), !.before = device]
  /\ UNCHANGED <<device, seen, receipt, essLock, reading, cache, ended, loop, published>>

\* _dbus_set: accepted; or refused, or unanswered and done or not
Attempt(w, accepted) ==
  \/ device' = [device EXCEPT ![w[1]] = w[2]]
  \/ ~accepted /\ UNCHANGED device

\* Mutant: the cache outlives the writes.
FaultyForget == UNCHANGED cache

\* Whatever came of the writes, the observation from before them is dropped.
Forget == cache' = None

WritesOver == /\ Forget /\ selectLock' = None /\ ended' = ended + 1

SelectWrites(accepted) ==
  /\ op.at = "writing" /\ Attempt(Head(op.writes), accepted)
  /\ IF accepted /\ Len(op.writes) > 1
       THEN /\ op' = [op EXCEPT !.writes = Tail(@)]
            /\ UNCHANGED <<receipt, essLock, selectLock, cache, ended>>
       ELSE /\ WritesOver /\ Answer(~accepted, ended + 1)
            /\ op' = Resting /\ essLock' = None
  /\ UNCHANGED <<seen, reading, loop, published>>

-----------------------------------------------------------------------------
(* toggle_ess_mode: it takes no part in the receipts *)

\* get_ess_mode, from the cache or after a read of its own
ToggleSees ==
  /\ Idle /\ cache # None
  /\ op' = [Resting EXCEPT !.at = "toggle",
                           !.writes = IF cache.external THEN << <<"hub", 1>>, <<"life", "without">> >>
                                                        ELSE << <<"hub", 3>> >>]
  /\ UNCHANGED <<device, seen, receipt, essLock, selectLock, reading, cache, ended, loop, published>>

ToggleLocks ==
  /\ op.at = "toggle" /\ selectLock = None /\ ended < Choices
  /\ selectLock' = "mqtt" /\ op' = [op EXCEPT !.at = "toggling"]
  /\ UNCHANGED <<device, seen, receipt, essLock, reading, cache, ended, loop, published>>

\* set_ess_mode tries both writes, whatever comes of the first.
ToggleWrites(accepted) ==
  /\ op.at = "toggling" /\ Attempt(Head(op.writes), accepted)
  /\ IF Len(op.writes) > 1
       THEN op' = [op EXCEPT !.writes = Tail(@)] /\ UNCHANGED <<selectLock, cache, ended>>
       ELSE WritesOver /\ op' = Resting
  /\ UNCHANGED <<seen, receipt, essLock, reading, loop, published>>

-----------------------------------------------------------------------------
(* _read_ess_mode, under _ess_selection_lock *)

\* Mutant: the observation does not wait for a writer.
FaultyMayRead == reading = None

MayRead == selectLock = None

\* The poll thread refreshes a cache that is there; the others fill an empty one.
ReadBegins(t) ==
  /\ MayRead
  /\ CASE t = "poll" -> cache # None
       [] t = "loop" -> cache = None /\ essLock = None
       [] t = "mqtt" -> cache = None /\ op.at = "idle"
  /\ selectLock' = t /\ essLock' = IF t = "loop" THEN t ELSE essLock
  /\ \E external \in {device.hub = 3, FALSE} : reading' = [external |-> external, after |-> ended]
  /\ UNCHANGED <<device, seen, receipt, op, cache, ended, loop, published>>

ReadEnds ==
  /\ reading # None
  /\ cache' = reading /\ reading' = None /\ selectLock' = None
  /\ loop' = IF selectLock = "loop" THEN reading.after ELSE loop
  /\ UNCHANGED <<device, seen, receipt, op, essLock, ended, published>>

\* Mutant: the observation does not exclude a choice on its way.
FaultyMayObserve == essLock = None \/ op.at = "writing"

MayObserve == essLock = None

\* EssSelection.observe, with an observation in the cache
ObserveCached ==
  /\ MayObserve /\ cache # None /\ loop = None
  /\ loop' = cache.after /\ essLock' = "loop"
  /\ UNCHANGED <<device, seen, receipt, op, selectLock, reading, cache, ended, published>>

\* What was read is published with the receipt.
ObserveEnds ==
  /\ loop # None /\ loop' = None /\ essLock' = None
  /\ published' = [receipt |-> receipt.ended, after |-> loop]
  /\ UNCHANGED <<device, seen, receipt, op, selectLock, reading, cache, ended>>

\* The GX device, its console or another client changes a setting.
OthersChange(new) ==
  /\ device' = new /\ op' = [op EXCEPT !.before = None]
  /\ UNCHANGED <<seen, receipt, essLock, selectLock, reading, cache, ended, loop, published>>

Next ==
  \/ \E r \in Requests, mode \in Modes : Take(r, mode)
  \/ Refuse \/ Plan \/ ToggleSees \/ ToggleLocks
  \/ \E accepted \in BOOLEAN : SelectWrites(accepted) \/ ToggleWrites(accepted)
  \/ \E t \in Readers : ReadBegins(t)
  \/ ReadEnds \/ ObserveCached \/ ObserveEnds
  \/ \E new \in Devices : OthersChange(new)

Spec == Init /\ [][Next]_evars

-----------------------------------------------------------------------------
(* Properties *)

\* "Do not pair a pre-write observation with a newer command receipt"
\* (EssSelection.observe): what is published with the receipt of a choice was
\* read after that choice's writes were over, and no observation from before a
\* choice or a toggle is left in the cache for a later one.
ReceiptMatchesObservation ==
  /\ published.after >= published.receipt
  /\ cache # None => cache.after = ended

\* "Never turn power on as a side effect of ESS selection", and "a rejection
\* must not enable another profile" (select_ess_mode, _ess_mode_writes):
\* whichever write fails, a choice leads from the old mode to the chosen one and
\* through no third, unless someone else changes the settings meanwhile.
SelectionIsDirect ==
  [][op.at = "writing" /\ op.before # None /\ (op' = Resting \/ op'.before # None)
       => /\ device'.switch \in {op.before.switch, op.mode}
          /\ Profile(device') \in {Profile(op.before), op.mode}]_evars

=============================================================================
