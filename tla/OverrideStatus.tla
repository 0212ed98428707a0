--------------------------- MODULE OverrideStatus ---------------------------
(* mqtt_bridge.py: how the retained status of the setpoint override gets to   *)
(* the MQTT client.                                                           *)
(*                                                                            *)
(* The watchdog hands every change to publish_setpoint_override under its     *)
(* lock, and the main loop hands over the same status again in every cycle.   *)
(* A queue entry is only a wakeup: the publish thread sends the status it     *)
(* finds, and so does on_connect, in the client's network thread.  Both take  *)
(* the publish lock from the snapshot to the send.                            *)
(*                                                                            *)
(* Statuses are numbered in the order the watchdog set them.                  *)
EXTENDS Naturals, Sequences

CONSTANTS
  None,
  QueueSize,    \* the 100 entries of _publish_queue
  Edits,        \* bound: changes of the status
  Drops         \* bound: lost or refused connections

VARIABLES
  status,       \* _setpoint_override_status
  pending,      \* _setpoint_override_pending
  connected,    \* _connected
  queue,        \* _publish_queue: "status" wakeups and other messages
  publisher,    \* the publish thread: idle, an entry it took, or a snapshot
  network,      \* the network thread in on_connect: its step and snapshot
  handed,       \* the status last given to client.publish
  drops         \* what remains of Drops

ovars == <<status, pending, connected, queue, publisher, network, handed, drops>>

Versions == 0 .. Edits
Kinds == {"status", "other"}

TypeOK ==
  /\ status \in Versions /\ pending \in BOOLEAN /\ connected \in BOOLEAN
  /\ queue \in Seq(Kinds) /\ Len(queue) <= QueueSize
  /\ publisher \in [at : {"idle", "status", "other", "latest", "sending"}, snapshot : {None} \cup Versions]
  /\ network \in [at : {"idle", "replay", "sending", "sent", "resend"}, snapshot : {None} \cup Versions]
  /\ handed \in {None} \cup Versions /\ drops \in 0 .. Drops

Resting == [at |-> "idle", snapshot |-> None]

Init ==
  /\ status = 0 /\ pending = TRUE /\ connected = FALSE /\ queue = <<>>
  /\ publisher = Resting /\ network = Resting /\ handed = None /\ drops = Drops

LockFree == publisher.at # "sending" /\ network.at # "sending"
Room == Len(queue) < QueueSize

-----------------------------------------------------------------------------
(* The callers of publish_setpoint_override, publish_state and the like *)

\* publish_setpoint_override: a full queue leaves the status pending
Publish(new) ==
  LET due == pending \/ new # status
      put == connected /\ due /\ Room IN
  /\ status' = new
  /\ pending' = (due /\ ~put)
  /\ queue' = IF put THEN Append(queue, "status") ELSE queue
  /\ UNCHANGED <<connected, publisher, network, handed, drops>>

Change == status < Edits /\ Publish(status + 1)
Retry == pending /\ Publish(status)

\* State, console lines and notifications
PublishOther ==
  /\ connected /\ Room
  /\ queue' = Append(queue, "other")
  /\ UNCHANGED <<status, pending, connected, publisher, network, handed, drops>>

-----------------------------------------------------------------------------
(* _publish_loop *)

Take ==
  /\ publisher.at = "idle" /\ queue # <<>>
  /\ publisher' = [publisher EXCEPT !.at = Head(queue)] /\ queue' = Tail(queue)
  /\ UNCHANGED <<status, pending, connected, network, handed, drops>>

\* Without a connection an entry is dropped: on_connect sends the status again.
Handle ==
  /\ \/ publisher.at = "other" /\ publisher' = Resting
     \/ publisher.at = "status" /\ ~connected /\ publisher' = Resting
     \/ publisher.at = "status" /\ connected /\ publisher' = [publisher EXCEPT !.at = "latest"]
  /\ UNCHANGED <<status, pending, connected, queue, network, handed, drops>>

Snapshot ==
  /\ publisher.at = "latest" /\ LockFree
  /\ publisher' = [at |-> "sending", snapshot |-> status]
  /\ UNCHANGED <<status, pending, connected, queue, network, handed, drops>>

Send ==
  /\ publisher.at = "sending"
  /\ handed' = publisher.snapshot /\ publisher' = Resting
  /\ UNCHANGED <<status, pending, connected, queue, network, drops>>

-----------------------------------------------------------------------------
(* The network thread *)

Step(at) == network' = [network EXCEPT !.at = at]

Connect ==
  /\ network.at = "idle" /\ ~connected
  /\ connected' = TRUE /\ Step("replay")
  /\ UNCHANGED <<status, pending, queue, publisher, handed, drops>>

\* _publish_latest_setpoint_override
Replay ==
  /\ network.at = "replay" /\ LockFree
  /\ network' = [at |-> "sending", snapshot |-> status]
  /\ UNCHANGED <<status, pending, connected, queue, publisher, handed, drops>>

ReplaySent ==
  /\ network.at = "sending"
  /\ handed' = network.snapshot /\ Step("sent")
  /\ UNCHANGED <<status, pending, connected, queue, publisher, drops>>

\* Mutant: the replay settles whatever is pending.
FaultySettles == TRUE

\* "A producer may have changed intent during the send and found the queue full"
Settles == network.snapshot = status

Settle ==
  /\ network.at = "sent"
  /\ pending' = (pending /\ ~Settles) /\ Step("resend")
  /\ UNCHANGED <<status, connected, queue, publisher, handed, drops>>

\* resend_unacknowledged_alerts
Resend ==
  /\ network.at = "resend"
  /\ \/ Room /\ queue' = Append(queue, "other") /\ UNCHANGED network
     \/ network' = Resting /\ UNCHANGED queue
  /\ UNCHANGED <<status, pending, connected, publisher, handed, drops>>

\* on_disconnect, and a connection refused by the broker
Disconnect ==
  /\ network.at = "idle" /\ drops > 0 /\ drops' = drops - 1
  /\ connected' = FALSE
  /\ UNCHANGED <<status, pending, queue, publisher, network, handed>>

Publisher == Take \/ Handle \/ Snapshot \/ Send
Network == Connect \/ Replay \/ ReplaySent \/ Settle \/ (Resend /\ network'.at = "idle")
Next == Change \/ Retry \/ PublishOther \/ Publisher \/ Network \/ Resend \/ Disconnect

\* Both threads go on, and the main loop again and again finds room for its
\* retry: a cycle puts three entries where there is room for a hundred.
Fairness == WF_ovars(Publisher) /\ WF_ovars(Network) /\ SF_ovars(Retry /\ Room /\ connected)

Spec == Init /\ [][Next]_ovars
FairSpec == Spec /\ Fairness

-----------------------------------------------------------------------------
(* Properties *)

\* "reconnect republishes current intent": once connections hold, the client has
\* in the end been given the status in force and nothing older after it, although
\* changes, full queues, dropped wakeups and replays overlap.
CurrentStatusIsSent == <>[]connected => <>[](handed = status)

=============================================================================
