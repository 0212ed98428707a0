------------------------------- MODULE Shutdown -------------------------------
(* main.py: the end of the process.                                           *)
(*                                                                            *)
(* The main thread asks every worker to stop, waits for each within one       *)
(* budget, and lets a helper thread, which drains the MQTT client meanwhile,  *)
(* close the D-Bus connection only when no thread is left that may write.     *)
(* Workers may be in a call that ends late or never; a signal may come at any *)
(* time, also in the middle of the shutdown, and arms a timer that ends the   *)
(* process whatever blocks.                                                   *)
EXTENDS Naturals, Sequences

CONSTANTS
  None,
  Workers,      \* the workers that use the bus, in the order they are stopped
  Signals       \* bound: signals

VARIABLES
  main,         \* the main thread: what it is at, what is left to do there, its findings
  job,          \* the workers: "idle", "calling", "announcing" or "ended"
  asked,        \* those whose stop event is set
  expired,      \* the budget of the shutdown is used up
  network,      \* the MQTT network thread, as job; it ends when the client's loop is stopped
  bridge,       \* the MQTT bridge: connected, refusing, loop stopped
  publisher,    \* its publish thread: alive or not, and its stop event
  io,           \* the helper thread
  done,         \* what the helper reports: mqtt, close, and that MQTT is over
  granted,      \* it may close the bus
  bus,          \* the D-Bus connection: "open" or "closed"
  timer,        \* the forced exit is armed
  signals       \* so far

svars == <<main, job, asked, expired, network, bridge, publisher, io, done, granted, bus, timer, signals>>

Worker == {Workers[i] : i \in 1 .. Len(Workers)}

TypeOK ==
  /\ main.at \in {"running", "handler", "asking", "joining", "waiting", "returning", "returned", "exited"}
  /\ main.stopped \in BOOLEAN /\ main.result \in {None, TRUE, FALSE}
  /\ job \in [Worker -> {"idle", "calling", "announcing", "ended"}] /\ asked \subseteq Worker
  /\ network \in {"idle", "calling", "announcing", "ended"}
  /\ io \in {"none", "joining", "stopping", "waiting", "ended"}
  /\ expired \in BOOLEAN /\ granted \in BOOLEAN /\ timer \in BOOLEAN /\ bus \in {"open", "closed"}
  /\ publisher.alive \in BOOLEAN /\ publisher.stop \in BOOLEAN /\ signals \in 0 .. Signals

Init ==
  /\ main = [at |-> "running", left |-> <<>>, stopped |-> TRUE, result |-> None]
  /\ job = [w \in Worker |-> "idle"] /\ asked = {} /\ expired = FALSE /\ network = "idle"
  /\ bridge = [connected |-> TRUE, refusing |-> FALSE, looping |-> TRUE]
  /\ publisher = [alive |-> TRUE, stop |-> FALSE] /\ io = "none"
  /\ done = [mqtt |-> FALSE, over |-> FALSE, close |-> FALSE] /\ granted = FALSE
  /\ bus = "open" /\ timer = FALSE /\ signals = 0

Running == main.at # "exited"

-----------------------------------------------------------------------------
(* Signals *)

\* Mutant: the timer is armed after the message is out.
FaultyArmed == timer

\* signal_handler: "Arm it before logging"
Armed == TRUE

\* The handler runs in the main thread, wherever that is.
Signal ==
  /\ main.at \notin {"exited", "handler"} /\ signals < Signals
  /\ timer' = Armed /\ signals' = signals + 1
  /\ main' = [main EXCEPT !.at = "handler", !.left = IF main.at = "running" THEN <<"first">> ELSE <<>>]
  /\ UNCHANGED <<job, asked, expired, network, bridge, publisher, io, done, granted, bus>>

\* The budget of _shutdown_main_loop starts, and all requests are outstanding.
Asking == [main EXCEPT !.at = "asking", !.left = Workers, !.stopped = TRUE]

\* The message is out, if the log pipe takes it: SystemExit reaches the finally
\* of _run_main_loop, or leaves a shutdown that had begun.
HandlerExits ==
  /\ main.at = "handler" /\ timer' = TRUE
  /\ main' = IF main.left # <<>> THEN Asking ELSE [main EXCEPT !.at = "returned"]
  /\ UNCHANGED <<job, asked, expired, network, bridge, publisher, io, done, granted, bus, signals>>

\* run_cycle returned False, or raised
Stop ==
  /\ main.at = "running" /\ main' = Asking
  /\ UNCHANGED <<job, asked, expired, network, bridge, publisher, io, done, granted, bus, timer, signals>>

\* threading.Timer(10.0, os._exit)
ForceExit ==
  /\ timer /\ Running /\ main' = [main EXCEPT !.at = "exited"]
  /\ UNCHANGED <<job, asked, expired, network, bridge, publisher, io, done, granted, bus, timer, signals>>

-----------------------------------------------------------------------------
(* _shutdown_main_loop *)

\* The bridge is asked first; a request that raises is noted.
Request ==
  /\ main.at = "asking"
  /\ bridge' = [bridge EXCEPT !.refusing = TRUE, !.connected = IF bridge.refusing THEN @ ELSE FALSE]
  /\ publisher' = IF bridge.refusing THEN publisher ELSE [publisher EXCEPT !.stop = TRUE]
  /\ IF main.left = <<>>
       THEN /\ main' = [main EXCEPT !.at = "joining", !.left = Workers]
            /\ io' = "joining" /\ UNCHANGED asked
       ELSE /\ \E ok \in BOOLEAN : main' = [main EXCEPT !.left = Tail(@), !.stopped = @ /\ ok]
            /\ asked' = asked \cup {Head(main.left)} /\ UNCHANGED io
  /\ UNCHANGED <<job, expired, network, done, granted, bus, timer, signals>>

\* The deadline passes.
Expire ==
  /\ ~expired /\ main.at \in {"asking", "joining", "waiting", "returning"} /\ expired' = TRUE
  /\ UNCHANGED <<main, job, asked, network, bridge, publisher, io, done, granted, bus, timer, signals>>

\* Mutant: a wait without the budget.
FaultyWaitOver(ended) == ended

WaitOver(ended) == ended \/ expired

\* stop(worker): ended, or not within what remains of the budget
Join ==
  /\ main.at = "joining" /\ main.left # <<>>
  /\ LET ended == job[Head(main.left)] = "ended" IN
       /\ WaitOver(ended)
       /\ main' = [main EXCEPT !.left = Tail(@), !.stopped = @ /\ ended,
                               !.at = IF Len(main.left) = 1 THEN "waiting" ELSE @]
  /\ UNCHANGED <<job, asked, expired, network, bridge, publisher, io, done, granted, bus, timer, signals>>

\* A stop that raises tells nothing of its worker.
JoinRaises ==
  /\ main.at = "joining" /\ main.left # <<>>
  /\ main' = [main EXCEPT !.left = Tail(@), !.stopped = FALSE,
                          !.at = IF Len(main.left) = 1 THEN "waiting" ELSE @]
  /\ UNCHANGED <<job, asked, expired, network, bridge, publisher, io, done, granted, bus, timer, signals>>

\* Mutant: the workers' answers do not count.
FaultyQuiet == done.mqtt /\ ~expired

\* requests_ok and stopped and completed["mqtt"]
Quiet == main.stopped /\ done.mqtt /\ ~expired

Grant ==
  /\ main.at = "waiting" /\ WaitOver(done.over)
  /\ granted' = Quiet /\ main' = [main EXCEPT !.at = "returning"]
  /\ UNCHANGED <<job, asked, expired, network, bridge, publisher, io, done, bus, timer, signals>>

Return ==
  /\ main.at = "returning" /\ WaitOver(io = "ended")
  /\ main' = [main EXCEPT !.at = "returned", !.result = main.stopped /\ done.mqtt /\ done.close]
  /\ UNCHANGED <<job, asked, expired, network, bridge, publisher, io, done, granted, bus, timer, signals>>

\* Every thread left is a daemon.
Exit ==
  /\ main.at = "returned" /\ main' = [main EXCEPT !.at = "exited"]
  /\ UNCHANGED <<job, asked, expired, network, bridge, publisher, io, done, granted, bus, timer, signals>>

-----------------------------------------------------------------------------
(* _shutdown_io *)

\* MQTTBridge.disconnect: the publish thread ended or one second passed, and the
\* client's loop is told to stop; an exception ends the helper.
IoJoins ==
  /\ Running /\ io = "joining"
  /\ \/ io' = "stopping" /\ bridge' = [bridge EXCEPT !.looping = FALSE] /\ UNCHANGED done
     \/ io' = "ended" /\ done' = [done EXCEPT !.over = TRUE] /\ UNCHANGED bridge
  /\ UNCHANGED <<main, job, asked, expired, network, publisher, granted, bus, timer, signals>>

\* loop_stop returns when the network thread has ended. "Its state must not
\* outlive this shutdown."
IoDisconnects ==
  /\ Running /\ io = "stopping" /\ network = "ended"
  /\ bridge' = [bridge EXCEPT !.connected = FALSE] /\ publisher' = [publisher EXCEPT !.stop = TRUE]
  /\ done' = [done EXCEPT !.mqtt = ~publisher.alive, !.over = TRUE] /\ io' = "waiting"
  /\ UNCHANGED <<main, job, asked, expired, network, granted, bus, timer, signals>>

\* VictronDBus.close, unless the budget is used up: the poll thread, the last of
\* the workers, is joined once more.
IoCloses ==
  /\ Running /\ io = "waiting" /\ (granted \/ expired) /\ io' = "ended"
  /\ \/ /\ granted /\ ~expired /\ job[Workers[Len(Workers)]] = "ended"
        /\ bus' = "closed" /\ done' = [done EXCEPT !.close = TRUE]
     \/ expired /\ UNCHANGED <<bus, done>>
  /\ UNCHANGED <<main, job, asked, expired, network, bridge, publisher, granted, timer, signals>>

-----------------------------------------------------------------------------
(* The threads that are to end *)

\* A worker checks its stop event between two calls; the first of them, the
\* hardware watchdog, also reports its status through the bridge.
Work(w) ==
  /\ Running
  /\ \/ job[w] = "idle" /\ job' = [job EXCEPT ![w] = IF w \in asked THEN "ended" ELSE "calling"]
     \/ /\ job[w] = "calling"
        /\ job' = [job EXCEPT ![w] = IF w = Workers[1] /\ bridge.connected THEN "announcing" ELSE "idle"]
  /\ UNCHANGED <<main, asked, expired, network, bridge, publisher, io, done, granted, bus, timer, signals>>

\* _ensure_publish_thread: a dead thread is started again and its event cleared.
Ensured == IF publisher.alive THEN publisher ELSE [alive |-> TRUE, stop |-> FALSE]

WorkAnnounces(w) ==
  /\ Running /\ job[w] = "announcing" /\ job' = [job EXCEPT ![w] = "idle"] /\ publisher' = Ensured
  /\ UNCHANGED <<main, asked, expired, network, bridge, io, done, granted, bus, timer, signals>>

\* _on_message with a command, refused once disconnect was requested
Command ==
  /\ Running /\ network = "idle" /\ bridge.looping /\ ~bridge.refusing /\ network' = "calling"
  /\ UNCHANGED <<main, job, asked, expired, bridge, publisher, io, done, granted, bus, timer, signals>>

\* _on_connect, also after the shutdown has begun
Connect ==
  /\ Running /\ network = "idle" /\ bridge.looping /\ ~bridge.connected
  /\ bridge' = [bridge EXCEPT !.connected = TRUE] /\ network' = "announcing"
  /\ UNCHANGED <<main, job, asked, expired, publisher, io, done, granted, bus, timer, signals>>

\* The callback's command is done, and a state is to be published; that done, or
\* nothing to do, the loop goes on or ends.
NetworkGoesOn ==
  /\ Running
  /\ network' = CASE network = "calling"    -> IF bridge.connected THEN "announcing" ELSE "idle"
                  [] network = "announcing" -> "idle"
                  [] OTHER                  -> "ended"
  /\ network = "idle" => ~bridge.looping
  /\ network # "ended" /\ publisher' = IF network = "announcing" THEN Ensured ELSE publisher
  /\ UNCHANGED <<main, job, asked, expired, bridge, io, done, granted, bus, timer, signals>>

PublisherEnds ==
  /\ Running /\ publisher.alive /\ publisher.stop /\ publisher' = [publisher EXCEPT !.alive = FALSE]
  /\ UNCHANGED <<main, job, asked, expired, network, bridge, io, done, granted, bus, timer, signals>>

-----------------------------------------------------------------------------
MainGoesOn == Request \/ Join \/ Grant \/ Return \/ Exit

Next ==
  \/ Signal \/ HandlerExits \/ Stop \/ ForceExit \/ Expire
  \/ MainGoesOn \/ JoinRaises
  \/ IoJoins \/ IoDisconnects \/ IoCloses
  \/ \E w \in Worker : Work(w) \/ WorkAnnounces(w)
  \/ Command \/ Connect \/ NetworkGoesOn \/ PublisherEnds

Spec == Init /\ [][Next]_svars

\* Time passes and the main thread runs. Nothing is assumed of the workers, the
\* callbacks, the helper and the log pipe: each may block for ever.
FairSpec == Spec /\ WF_svars(MainGoesOn) /\ WF_svars(Expire) /\ WF_svars(ForceExit)

-----------------------------------------------------------------------------
(* Properties *)

\* "do not close its shared D-Bus connection unless both MQTT and watchdog
\* writers (and the readers) actually finished" (_shutdown_main_loop): whatever
\* is in flight, started again or timed out, no thread is left that could call.
CloseAfterWriters ==
  bus = "closed" => network = "ended" /\ \A w \in Worker : job[w] = "ended"

\* "make sure the supervisor can still restart us" (signal_handler): once the
\* process is asked to stop, or its loop ends, it is gone in the end, whatever
\* hangs.
ProcessEnds == main.at # "running" ~> main.at = "exited"
=============================================================================
