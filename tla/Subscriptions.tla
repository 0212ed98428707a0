---------------------------- MODULE Subscriptions ----------------------------
(* The telemetry connection of dbus_native.py: one bus shared by every reading *)
(* thread, the match rules armed on it and the map from a signal's sender to   *)
(* its service.                                                               *)
(*                                                                            *)
(* A reader and the thread that subscribes (_setup_fast_signals) both find,    *)
(* replace and drop the connection; the event loop handles what the daemon    *)
(* sends on it, in order, and resolves senders.  One service and two rules    *)
(* stand for all of them: its signals, and the daemon's NameOwnerChanged.     *)
(* Connections are numbered; a unique name may be reused on a new one, since  *)
(* the daemon may have been restarted.                                        *)
EXTENDS Naturals, Sequences, SequencesExt

CONSTANTS
  None,
  Names,        \* unique bus names the service may have
  Breaks,       \* bound: connections lost
  Moves,        \* bound: changes of the service's owner
  Refusals      \* bound: AddMatch calls that fail, connects that fail

VARIABLES
  bus,            \* _bus and _fail_until: [id (0: None), up, cooldown]
  thread,         \* the two threads: [at, bus]
  stateLock,      \* who holds _state_lock, or None
  replaying,      \* rules _replay_subscriptions has still to send
  subscriptions,  \* _subscriptions, all of them required
  armed,          \* _armed_subscriptions
  installed,      \* the rules the daemon has for the current connection
  tracked,        \* the service is in _subscription_services
  senders,        \* the names _sender_service maps to the service
  ownerVersion,   \* _sender_owner_versions of the service
  resolver,       \* _resolve_sender in flight: None or [bus, version, owner]
  incoming,       \* what the daemon has sent on the current connection
  owner,          \* the name the service has, or None
  missed,         \* the owner changed while no rule announced it
  budget          \* what remains of the bounds

svars == <<bus, thread, stateLock, replaying, subscriptions, armed, installed, tracked, senders,
           ownerVersion, resolver, incoming, owner, missed, budget>>
shared == <<subscriptions, armed, tracked>>
loopvars == <<senders, ownerVersion, resolver>>
daemon == <<installed, incoming, owner, missed>>

Threads == {"setup", "reader"}
Rules == {"items", "owners"}
Pending == "asked"            \* GetNameOwner has not been answered

TypeOK ==
  /\ bus \in [id : 0 .. Breaks + 1, up : BOOLEAN, cooldown : BOOLEAN]
  /\ thread \in [Threads -> [at : {"idle", "getting", "calling", "failed", "replied"}, bus : 0 .. Breaks + 1]]
  /\ stateLock \in Threads \cup {None}
  /\ replaying \subseteq Rules /\ subscriptions \subseteq Rules /\ armed \subseteq Rules /\ installed \subseteq Rules
  /\ tracked \in BOOLEAN /\ missed \in BOOLEAN
  /\ senders \subseteq Names /\ owner \in Names \cup {None}
  /\ resolver = None \/ resolver.owner \in Names \cup {None, Pending}

\* add_name_owner_handler has registered its rule and the first connection stands.
Init ==
  /\ bus = [id |-> 1, up |-> TRUE, cooldown |-> FALSE]
  /\ thread = [t \in Threads |-> [at |-> "idle", bus |-> 0]]
  /\ stateLock = None /\ replaying = {}
  /\ subscriptions = {"owners"} /\ armed = {"owners"} /\ installed = {"owners"}
  /\ tracked = FALSE /\ senders = {} /\ ownerVersion = 0
  /\ resolver = None /\ incoming = <<>> /\ missed = FALSE
  /\ owner = CHOOSE n \in Names : TRUE
  /\ budget = [breaks |-> Breaks, moves |-> Moves, refusals |-> Refusals]

Refused == budget.refusals > 0 /\ budget' = [budget EXCEPT !.refusals = @ - 1]

-----------------------------------------------------------------------------
(* _get_bus, _connect, _replay_subscriptions *)

At(t, at, id) == thread' = [thread EXCEPT ![t] = [at |-> at, bus |-> id]]

SubscriptionsHealthy == bus.id # 0 /\ bus.up /\ ~bus.cooldown /\ subscriptions \subseteq armed

\* The poll thread's setup retry and any read: both start in _get_bus.
Start(t) ==
  /\ thread[t].at = "idle"
  /\ At(t, "getting", 0)
  /\ UNCHANGED <<bus, stateLock, replaying, shared, loopvars, daemon, budget>>

\* A rule that counts as armed is not sent again.
Proceed(t) == IF t = "setup" /\ "items" \in armed THEN At(t, "idle", 0) ELSE At(t, "calling", bus.id)

GetBus(t) ==
  /\ thread[t].at = "getting" /\ stateLock = None
  /\ \/ bus.cooldown /\ At(t, "idle", 0)
     \/ ~bus.cooldown /\ bus.id # 0 /\ bus.up
        /\ Proceed(t)
  /\ UNCHANGED <<bus, stateLock, replaying, shared, loopvars, daemon, budget>>

Connect(t) ==
  /\ thread[t].at = "getting" /\ stateLock = None /\ ~bus.cooldown /\ ~bus.up
  /\ \/ /\ Refused
        /\ bus' = [bus EXCEPT !.id = 0, !.cooldown = TRUE]
        /\ At(t, "idle", 0)
        /\ UNCHANGED <<stateLock, replaying, shared, loopvars, daemon>>
     \/ /\ bus' = [id |-> Breaks + 1 - budget.breaks, up |-> TRUE, cooldown |-> FALSE]
        /\ stateLock' = t /\ replaying' = subscriptions /\ armed' = {}
        /\ senders' = {} /\ installed' = {} /\ incoming' = <<>> /\ missed' = FALSE
        /\ UNCHANGED <<thread, subscriptions, tracked, ownerVersion, resolver, owner, budget>>

ReplayRule(t, rule) ==
  /\ stateLock = t /\ rule \in replaying
  /\ replaying' = replaying \ {rule}
  /\ \/ bus.up /\ armed' = armed \cup {rule} /\ installed' = installed \cup {rule} /\ UNCHANGED budget
     \/ Refused /\ UNCHANGED <<armed, installed>>
     \/ ~bus.up /\ UNCHANGED <<armed, installed, budget>>
  /\ UNCHANGED <<bus, thread, stateLock, subscriptions, tracked, loopvars, incoming, owner, missed>>

\* _refresh_sender_map, on the loop: one round at a time per connection
Resolve == IF tracked /\ bus.up /\ (resolver = None \/ resolver.bus # bus.id)
           THEN resolver' = [bus |-> bus.id, version |-> ownerVersion, owner |-> Pending]
           ELSE UNCHANGED resolver

ReplayEnds(t) ==
  /\ stateLock = t /\ replaying = {}
  /\ stateLock' = None /\ Proceed(t)
  /\ Resolve
  /\ UNCHANGED <<bus, replaying, shared, senders, ownerVersion, daemon, budget>>

-----------------------------------------------------------------------------
(* subscribe_signal, call_busitem and _mark_failure *)

\* A call on a connection: a read, or AddMatch, which installs the rule.
Call(t) ==
  /\ thread[t].at = "calling"
  /\ LET live == bus.up /\ bus.id = thread[t].bus IN
     \/ /\ live /\ At(t, IF t = "setup" THEN "replied" ELSE "idle", thread[t].bus)
        /\ installed' = IF t = "setup" THEN installed \cup {"items"} ELSE installed
        /\ UNCHANGED budget
     \/ /\ ~live
        /\ IF t = "setup" THEN At(t, "idle", 0) ELSE At(t, "failed", thread[t].bus)
        /\ UNCHANGED <<installed, budget>>
     \/ Refused /\ At(t, "idle", 0) /\ UNCHANGED installed
  /\ UNCHANGED <<bus, stateLock, replaying, shared, loopvars, incoming, owner, missed>>

\* The rest of subscribe_signal, without a lock
Subscribed ==
  /\ thread["setup"].at = "replied"
  /\ At("setup", "idle", 0)
  /\ subscriptions' = subscriptions \cup {"items"} /\ armed' = armed \cup {"items"}
  /\ tracked' = TRUE
  /\ IF bus.up /\ resolver = None
       THEN resolver' = [bus |-> bus.id, version |-> ownerVersion, owner |-> Pending] ELSE UNCHANGED resolver
  /\ UNCHANGED <<bus, stateLock, replaying, senders, ownerVersion, daemon, budget>>

\* Mutant: whichever connection is current is dropped.
FaultyDropped(id) == [bus EXCEPT !.id = 0, !.up = FALSE, !.cooldown = TRUE]

Dropped(id) == IF bus.id = id THEN [bus EXCEPT !.id = 0, !.up = FALSE, !.cooldown = TRUE] ELSE bus

MarkFailure(t) ==
  /\ thread[t].at = "failed" /\ stateLock = None
  /\ bus' = Dropped(thread[t].bus)
  /\ At(t, "idle", 0)
  /\ UNCHANGED <<stateLock, replaying, shared, loopvars, daemon, budget>>

-----------------------------------------------------------------------------
(* The event loop: _resolve_sender, _handle_message *)

\* Mutant: the reply is applied whatever happened since the question.
FaultyObsolete(r) == FALSE

Obsolete(r) == bus.id # r.bus \/ ~bus.up \/ ownerVersion # r.version

ResolverEnds ==
  /\ resolver # None /\ resolver.owner # Pending
  /\ resolver' = None
  /\ senders' = IF Obsolete(resolver) \/ resolver.owner = None THEN senders ELSE {resolver.owner}
  /\ UNCHANGED <<bus, thread, stateLock, replaying, shared, ownerVersion, daemon, budget>>

ResolverFails ==
  /\ resolver # None /\ resolver.owner = Pending
  /\ resolver' = None
  /\ UNCHANGED <<bus, thread, stateLock, replaying, shared, senders, ownerVersion, daemon, budget>>

\* A signal of the service is dispatched, or asks for its sender once.
HandleSignal(m) ==
  /\ IF m.owner \in senders THEN UNCHANGED resolver ELSE Resolve
  /\ UNCHANGED <<senders, ownerVersion>>

HandleOwnerChanged(m) ==
  /\ ownerVersion' = IF tracked THEN ownerVersion + 1 ELSE ownerVersion
  /\ senders' = (senders \ {m.old}) \cup (IF tracked THEN {m.owner} \ {None} ELSE {})
  /\ UNCHANGED resolver

HandleReply(m) ==
  /\ resolver' = IF resolver # None /\ resolver.bus = bus.id /\ resolver.owner = Pending
                 THEN [resolver EXCEPT !.owner = m.owner] ELSE resolver
  /\ UNCHANGED <<senders, ownerVersion>>

LoopHandles ==
  /\ incoming # <<>> /\ bus.up
  /\ incoming' = Tail(incoming)
  /\ LET m == Head(incoming) IN
     \/ m.kind = "signal" /\ HandleSignal(m)
     \/ m.kind = "changed" /\ HandleOwnerChanged(m)
     \/ m.kind = "reply" /\ HandleReply(m)
  /\ UNCHANGED <<bus, thread, stateLock, replaying, shared, installed, owner, missed, budget>>

-----------------------------------------------------------------------------
(* The daemon and the service *)

Message(kind, old, new) == [kind |-> kind, old |-> old, owner |-> new]
Sends(m) == incoming' = IF bus.up THEN Append(incoming, m) ELSE incoming

DaemonAnswers ==
  /\ resolver # None /\ resolver.bus = bus.id /\ resolver.owner = Pending /\ bus.up
  /\ ~Contains(incoming, Message("reply", None, owner)) /\ Len(incoming) < 3
  /\ Sends(Message("reply", None, owner))
  /\ UNCHANGED <<bus, thread, stateLock, replaying, shared, loopvars, installed, owner, missed, budget>>

OwnerMoves ==
  /\ budget.moves > 0 /\ budget' = [budget EXCEPT !.moves = @ - 1]
  /\ \E n \in Names \cup {None} : n # owner /\ owner' = n
  /\ missed' = (missed \/ "owners" \notin installed)
  /\ IF "owners" \in installed THEN Sends(Message("changed", owner, owner')) ELSE UNCHANGED incoming
  /\ UNCHANGED <<bus, thread, stateLock, replaying, shared, loopvars, installed>>

ServiceSignals ==
  /\ owner # None /\ "items" \in installed /\ incoming = <<>>
  /\ Sends(Message("signal", None, owner))
  /\ UNCHANGED <<bus, thread, stateLock, replaying, shared, loopvars, installed, owner, missed, budget>>

BusBreaks ==
  /\ bus.up /\ budget.breaks > 0
  /\ budget' = [budget EXCEPT !.breaks = @ - 1]
  /\ bus' = [bus EXCEPT !.up = FALSE]
  /\ installed' = {} /\ incoming' = <<>> /\ missed' = TRUE
  /\ UNCHANGED <<thread, stateLock, replaying, shared, loopvars, owner>>

CooldownEnds ==
  /\ bus.cooldown
  /\ bus' = [bus EXCEPT !.cooldown = FALSE]
  /\ UNCHANGED <<thread, stateLock, replaying, shared, loopvars, daemon, budget>>

Next ==
  \/ \E t \in Threads : \/ Start(t) \/ GetBus(t) \/ Connect(t) \/ ReplayEnds(t) \/ Call(t) \/ MarkFailure(t)
                        \/ \E rule \in Rules : ReplayRule(t, rule)
  \/ Subscribed \/ ResolverEnds \/ ResolverFails \/ LoopHandles
  \/ DaemonAnswers \/ OwnerMoves \/ ServiceSignals \/ BusBreaks \/ CooldownEnds

Spec == Init /\ [][Next]_svars

-----------------------------------------------------------------------------
(* Properties *)

\* "Replies queued before a NameOwnerChanged or reconnect must not restore an
\* obsolete service-to-sender binding": a name is bound to the service only if
\* the service has it, or the change is announced in what the loop still has to
\* handle (_resolve_sender, _handle_name_owner_changed, _replay_subscriptions).
BindingsAreCurrent ==
  ~missed => \A n \in senders : n = owner \/ \E i \in 1 .. Len(incoming) :
                                               incoming[i].kind = "changed" /\ incoming[i].old = n

\* "Drop only the connection that failed, never a newer replacement": a thread
\* whose call failed on an old connection never discards a live one
\* (_mark_failure, dbus_native.py).
LiveConnectionKept == [][bus.up => bus'.id = bus.id]_svars

\* "Every required control rule must be armed on the current connection": when
\* no thread is connecting, rules that count as armed are known to the daemon
\* (subscriptions_healthy, dbus_native.py).
HealthyMeansInstalled ==
  SubscriptionsHealthy /\ stateLock = None => subscriptions \subseteq installed

=============================================================================
