------------------------------ MODULE DumpLoads ------------------------------
(* homeassistant.py: the dump loads the control loop switches through Home    *)
(* Assistant, and the polling thread with its circuit breaker.                *)
(*                                                                            *)
(* The loop leaves one pending intent; a worker takes it and calls Home       *)
(* Assistant once for each load, and a call may take longer than the intent   *)
(* lives.  A newer direction, a cancellation by the loop, by an operator who  *)
(* ends minimize_charging, or by the shutdown retires what is left.           *)
EXTENDS Integers

CONSTANTS
  None,
  LoadCount,    \* how many _dump_load_entities there are
  OpenThreshold,\* CIRCUIT_OPEN_THRESHOLD
  Generations   \* bound: changes of the intent

VARIABLES
  flag,         \* minimize_charging
  loop,         \* handle_minimize_charging: None or the direction it decided on
  running,      \* _running; its end sets _stop_event too
  generation,   \* _dump_load_generation
  intent,       \* _dump_load_intent
  waiting,      \* _dump_load_pending: None or a batch
  worker,       \* the dump-load thread: its step, batch, load and late calls
  poll,         \* the polling thread: its step, failures, and the open circuit
  closed        \* the HTTP session is closed

dvars == <<flag, loop, running, generation, intent, waiting, worker, poll, closed>>


Batches == [on : BOOLEAN, generation : 0 .. Generations, fresh : BOOLEAN]
Resting == [at |-> "idle", batch |-> None, load |-> 1, late |-> 0]

TypeOK ==
  /\ flag \in BOOLEAN /\ loop \in {None} \cup BOOLEAN /\ running \in BOOLEAN /\ closed \in BOOLEAN
  /\ generation \in 0 .. Generations /\ intent \in {None} \cup BOOLEAN
  /\ waiting \in {None} \cup Batches
  /\ worker.at \in {"idle", "check", "call", "calling", "exited"} /\ worker.batch \in {None} \cup Batches
  /\ worker.load \in 1 .. LoadCount
  /\ poll.at \in {"idle", "calling", "exited"} /\ poll.failures \in 0 .. OpenThreshold

Init ==
  /\ flag = TRUE /\ loop = None /\ running = TRUE /\ closed = FALSE
  /\ generation = 0 /\ intent = None /\ waiting = None
  /\ worker = Resting
  /\ poll = [at |-> "idle", failures |-> 0, open |-> FALSE]

-----------------------------------------------------------------------------
(* The control loop and the operator, under the watchdog's lock *)

\* The flag and the measurements are read first, without the lock.
Decide(on) ==
  /\ flag /\ loop = None
  /\ loop' = on
  /\ UNCHANGED <<flag, running, generation, intent, waiting, worker, poll, closed>>

\* Mutant: the flag is not looked at again.
FaultyAdmitted == running

\* _request_dump_loads, and request_dump_loads
Admitted == flag /\ running

Request ==
  /\ loop # None /\ loop' = None
  /\ LET next == generation + (IF intent = loop THEN 0 ELSE 1) IN
     \/ ~Admitted /\ UNCHANGED <<generation, intent, waiting>>
     \/ /\ Admitted /\ next <= Generations
        /\ generation' = next /\ intent' = loop
        /\ waiting' = [on |-> loop, generation |-> next, fresh |-> TRUE]
  /\ UNCHANGED <<flag, running, worker, poll, closed>>

\* cancel_dump_loads
Retire ==
  /\ generation < Generations /\ generation' = generation + 1
  /\ intent' = None /\ waiting' = None

\* set_control_flag
FlagChanges ==
  /\ flag' = ~flag
  /\ IF flag THEN Retire ELSE UNCHANGED <<generation, intent, waiting>>
  /\ UNCHANGED <<loop, running, worker, poll, closed>>

\* An invalid grid, a changed source, the watchdog and an override
LoopCancels ==
  /\ loop = None /\ Retire
  /\ UNCHANGED <<flag, loop, running, worker, poll, closed>>

\* DUMP_LOAD_REQUEST_TTL
Stale(b) == IF b = None THEN None ELSE [b EXCEPT !.fresh = FALSE]
Expire ==
  /\ waiting' = Stale(waiting)
  /\ worker' = [worker EXCEPT !.batch = Stale(@)]
  /\ UNCHANGED <<flag, loop, running, generation, intent, poll, closed>>

-----------------------------------------------------------------------------
(* _dump_load_loop *)

Retired(b) == ~running \/ b.generation # generation \/ ~b.fresh

TakeBatch ==
  /\ worker.at = "idle"
  /\ \/ /\ running /\ waiting # None
        /\ worker' = [Resting EXCEPT !.at = "check", !.batch = waiting] /\ waiting' = None
     \/ ~running /\ worker' = [worker EXCEPT !.at = "exited"] /\ UNCHANGED waiting
  /\ UNCHANGED <<flag, loop, running, generation, intent, poll, closed>>

\* Mutant: only the intent's lifetime ends a batch.
FaultyEnds(b) == ~b.fresh

\* "do not send remaining loads from an expired, superseded or stopped batch"
Ends(b) == Retired(b)

CheckLoad ==
  /\ worker.at = "check"
  /\ worker' = IF Ends(worker.batch) THEN Resting ELSE [worker EXCEPT !.at = "call"]
  /\ UNCHANGED <<flag, loop, running, generation, intent, waiting, poll, closed>>

\* The call is sent after the lock was given back.
CallLoad ==
  /\ worker.at = "call"
  /\ worker' = [worker EXCEPT !.at = "calling", !.late = @ + (IF Retired(worker.batch) THEN 1 ELSE 0)]
  /\ UNCHANGED <<flag, loop, running, generation, intent, waiting, poll, closed>>

\* Failed or not, the next load follows.
LoadAnswers ==
  /\ worker.at = "calling"
  /\ worker' = IF worker.load = LoadCount THEN Resting ELSE [worker EXCEPT !.at = "check", !.load = @ + 1]
  /\ UNCHANGED <<flag, loop, running, generation, intent, waiting, poll, closed>>

-----------------------------------------------------------------------------
(* _poll_loop *)

\* While the circuit is open, only CIRCUIT_RESET_TIMEOUT lets a poll through.
PollBegins ==
  /\ poll.at = "idle"
  /\ \/ running /\ poll' = [poll EXCEPT !.at = "calling", !.open = FALSE]
     \/ ~running /\ poll' = [poll EXCEPT !.at = "exited"]
  /\ UNCHANGED <<flag, loop, running, generation, intent, waiting, worker, closed>>

PollEnds ==
  /\ poll.at = "calling"
  /\ \/ poll' = [at |-> "idle", failures |-> 0, open |-> FALSE]
     \/ LET n == IF poll.failures = OpenThreshold THEN OpenThreshold ELSE poll.failures + 1
        IN poll' = [at |-> "idle", failures |-> n, open |-> n = OpenThreshold]
  /\ UNCHANGED <<flag, loop, running, generation, intent, waiting, worker, closed>>

-----------------------------------------------------------------------------
(* request_stop and stop *)

RequestStop ==
  /\ running /\ running' = FALSE /\ Retire
  /\ UNCHANGED <<flag, loop, worker, poll, closed>>

\* The session is closed only if both threads have ended in time.
Close ==
  /\ ~running /\ worker.at = "exited" /\ poll.at = "exited"
  /\ closed' = TRUE
  /\ UNCHANGED <<flag, loop, running, generation, intent, waiting, worker, poll>>

Next ==
  \/ \E on \in BOOLEAN : Decide(on)
  \/ Request \/ FlagChanges \/ LoopCancels \/ Expire
  \/ TakeBatch \/ CheckLoad \/ CallLoad \/ LoadAnswers
  \/ PollBegins \/ PollEnds \/ RequestStop \/ Close

Spec == Init /\ [][Next]_dvars

-----------------------------------------------------------------------------
(* Properties *)

\* "Retire pending and remaining actions; an active HTTP call may finish"
\* (cancel_dump_loads): whenever a direction changes, an intent expires, or the
\* loop, an operator or the shutdown cancels, the worker begins at most the one
\* call it had already decided on; and once minimize_charging is off, a request
\* the loop had decided on before leaves nothing behind.
RetiredBatchStops == worker.late <= 1 /\ (~flag => waiting = None)

=============================================================================
