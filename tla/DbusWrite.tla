------------------------------ MODULE DbusWrite ------------------------------
(* One setpoint write of victron.py, down to the inverter's service.          *)
(*                                                                            *)
(* _dbus_set() holds _set_lock over a native attempt and the dbus-send        *)
(* fallback.  The native attempt is a coroutine queued on the event loop of    *)
(* the write-only client of dbus_native.py, with a deadline; a timed-out call *)
(* may already be on the wire, and the next attempt starts while it is.       *)
(* Control loop, watchdog and MQTT threads write; writes are numbered in the  *)
(* order in which they get the lock.                                          *)
EXTENDS Naturals, Sequences, FiniteSets

CONSTANTS
  None,
  Callers,      \* the threads that write
  Writes,       \* bound: writes issued
  Breaks        \* bound: failures of the native connection

VARIABLES
  setLock,      \* the caller in _set_lock, or None
  caller,       \* caller -> [at, write, bus, reply]
  issued,       \* writes that have got the lock
  conn,         \* the write client: [bus, up, cooldown]
  queued,       \* coroutines the event loop has not dispatched
  inbox,        \* messages the inverter's service has not handled, in order
  inverter,     \* the write the inverter holds (0: none of them)
  acknowledged  \* the last write reported as accepted

wvars == <<setLock, caller, issued, conn, queued, inbox, inverter, acknowledged>>

Message == [write : 1 .. Writes, bus : 0 .. Breaks + 1, from : Callers]

TypeOK ==
  /\ setLock \in Callers \cup {None}
  /\ caller \in [Callers -> [at : {"idle", "lock", "queued", "sent", "cli", "spawned"},
                             write : 0 .. Writes, bus : 0 .. Breaks + 1, reply : {None, "zero", "error"}]]
  /\ issued \in 0 .. Writes
  /\ conn \in [bus : 0 .. Breaks + 1, up : BOOLEAN, cooldown : BOOLEAN]
  /\ queued \subseteq Message /\ inbox \in Seq(Message)
  /\ inverter \in 0 .. Writes /\ acknowledged \in 0 .. Writes

Idle == [at |-> "idle", write |-> 0, bus |-> 0, reply |-> None]

Init ==
  /\ setLock = None /\ issued = 0
  /\ caller = [c \in Callers |-> Idle]
  /\ conn = [bus |-> 1, up |-> TRUE, cooldown |-> FALSE]
  /\ queued = {} /\ inbox = <<>>
  /\ inverter = 0 /\ acknowledged = 0

-----------------------------------------------------------------------------
(* The native connection *)

\* _get_bus and _connect: None during the cooldown, a new bus when the old one
\* is gone; a connect that fails starts the cooldown.
Buses(k) ==
  IF k.cooldown THEN {[k EXCEPT !.up = FALSE]}
  ELSE IF k.up THEN {k}
  ELSE {[k EXCEPT !.cooldown = TRUE]} \cup
       (IF k.bus <= Breaks THEN {[bus |-> k.bus + 1, up |-> TRUE, cooldown |-> FALSE]} ELSE {})

\* _mark_failure: only the connection that failed
Failed(k, bus) == IF k.bus = bus THEN [k EXCEPT !.up = FALSE, !.cooldown = TRUE] ELSE k

\* The reply is None: the connection is retired only if it is dead.
Unanswered(k, bus) == IF k.bus = bus /\ ~k.up THEN Failed(k, bus) ELSE k

-----------------------------------------------------------------------------
(* The caller's side of _dbus_set *)

\* Mutant: the fallback runs outside the lock.
FaultyMayEnter(c) == \A d \in Callers : caller[d].at \notin {"queued", "sent"}

MayEnter(c) == setLock = None

Sent(c, bus) == [write |-> caller[c].write, bus |-> bus, from |-> c]

Request(c) ==
  /\ caller[c].at = "idle" /\ issued < Writes
  /\ caller' = [caller EXCEPT ![c].at = "lock"]
  /\ UNCHANGED <<setLock, issued, conn, queued, inbox, inverter, acknowledged>>

\* The lock, then call_busitem: queue the call, or fall back without a bus.
Enter(c) ==
  /\ caller[c].at = "lock" /\ issued < Writes /\ MayEnter(c)
  /\ setLock' = c /\ issued' = issued + 1
  /\ \E k \in Buses(conn) :
       /\ conn' = k
       /\ caller' = [caller EXCEPT ![c] =
            [at |-> IF k.up THEN "queued" ELSE "cli", write |-> issued + 1, bus |-> k.bus, reply |-> None]]
       /\ queued' = IF k.up THEN queued \cup {[write |-> issued + 1, bus |-> k.bus, from |-> c]} ELSE queued
  /\ UNCHANGED <<inbox, inverter, acknowledged>>

Leave(c) == caller' = [caller EXCEPT ![c] = Idle] /\ setLock' = None

Accept(c) == Leave(c) /\ acknowledged' = caller[c].write
Refuse(c) == Leave(c) /\ UNCHANGED acknowledged

\* future.result(timeout): the deadline of the request has passed
TimesOut(c) ==
  /\ caller[c].at \in {"queued", "sent"}
  /\ caller' = [caller EXCEPT ![c].at = "cli", ![c].reply = None]
  /\ conn' = Unanswered(conn, caller[c].bus)
  /\ UNCHANGED <<setLock, issued, queued, inbox, inverter, acknowledged>>

\* set_value: zero accepts; an error reply is followed by the fallback
NativeReply(c) ==
  /\ caller[c].at = "sent" /\ caller[c].reply # None
  /\ IF caller[c].reply = "zero" THEN Accept(c)
     ELSE /\ caller' = [caller EXCEPT ![c].at = "cli", ![c].reply = None]
          /\ UNCHANGED <<setLock, acknowledged>>
  /\ UNCHANGED <<issued, conn, queued, inbox, inverter>>

\* _safe_subprocess: dbus-send has a connection of its own, bus 0
Spawn(c) ==
  /\ caller[c].at = "cli"
  /\ caller' = [caller EXCEPT ![c].at = "spawned"]
  /\ inbox' = Append(inbox, Sent(c, 0))
  /\ UNCHANGED <<setLock, issued, conn, queued, inverter, acknowledged>>

CliReply(c) ==
  /\ caller[c].at = "spawned" /\ caller[c].reply # None
  /\ IF caller[c].reply = "zero" THEN Accept(c) ELSE Refuse(c)
  /\ UNCHANGED <<issued, conn, queued, inbox, inverter>>

\* It does not start, or is killed at its timeout, before or after it sent.
CliFails(c) ==
  /\ caller[c].at \in {"cli", "spawned"}
  /\ Refuse(c)
  /\ UNCHANGED <<issued, conn, queued, inbox, inverter>>

-----------------------------------------------------------------------------
(* The event loop, the bus and the inverter *)

\* The caller still waits for this very request: its deadline has not passed.
Awaited(m) == caller[m.from].at = "queued" /\ caller[m.from].write = m.write

\* Mutant: what was queued is sent, however late.
FaultyExpired(m) == FALSE

Expired(m) == ~Awaited(m)

\* _run_before_deadline and call_busitem's handling of a broken connection
Dispatch(m) ==
  /\ queued' = queued \ {m}
  /\ LET usable == conn.up /\ conn.bus = m.bus IN
     /\ inbox' = IF usable /\ ~Expired(m) THEN Append(inbox, m) ELSE inbox
     /\ caller' = IF ~Awaited(m) THEN caller
                  ELSE [caller EXCEPT ![m.from].at = IF usable THEN "sent" ELSE "cli"]
     /\ conn' = IF Awaited(m) /\ ~usable THEN Failed(conn, m.bus) ELSE conn
  /\ UNCHANGED <<setLock, issued, inverter, acknowledged>>

\* The service applies the value and answers zero, or refuses it.  The answer
\* reaches a call that still waits on a connection that still stands.
ServiceHandles ==
  /\ inbox # <<>>
  /\ inbox' = Tail(inbox)
  /\ \E answer \in {"zero", "error"} :
       LET m == Head(inbox)
           waits == /\ caller[m.from].write = m.write
                    /\ caller[m.from].at = (IF m.bus = 0 THEN "spawned" ELSE "sent")
                    /\ m.bus = 0 \/ (conn.up /\ conn.bus = m.bus)
       IN /\ inverter' = IF answer = "zero" THEN m.write ELSE inverter
          /\ caller' = IF waits THEN [caller EXCEPT ![m.from].reply = answer] ELSE caller
  /\ UNCHANGED <<setLock, issued, conn, queued, acknowledged>>

ConnectionBreaks ==
  /\ conn.up /\ conn.bus <= Breaks
  /\ conn' = [conn EXCEPT !.up = FALSE]
  /\ UNCHANGED <<setLock, caller, issued, queued, inbox, inverter, acknowledged>>

CooldownEnds ==
  /\ conn.cooldown
  /\ conn' = [conn EXCEPT !.cooldown = FALSE]
  /\ UNCHANGED <<setLock, caller, issued, queued, inbox, inverter, acknowledged>>

Next ==
  \/ \E c \in Callers : \/ Request(c) \/ Enter(c) \/ TimesOut(c) \/ NativeReply(c)
                        \/ Spawn(c) \/ CliReply(c) \/ CliFails(c)
  \/ \E m \in queued : Dispatch(m)
  \/ ServiceHandles \/ ConnectionBreaks \/ CooldownEnds

Spec == Init /\ [][Next]_wvars

-----------------------------------------------------------------------------
(* Properties *)

\* "Keep both attempts under one lock so a later write cannot be overwritten by
\* an older caller's delayed CLI fallback", and "a busy loop must not send an
\* old queued setpoint after the caller has already timed out": once a write is
\* acknowledged, the inverter holds it or a later one, never an older attempt,
\* whatever timed out, broke or was answered late (_dbus_set, dbus_native.py).
NeverOlderThanAcknowledged == inverter >= acknowledged

=============================================================================
