--------------------------- MODULE PrechargeInbox ---------------------------
(* precharge.py: the journal of pre-charge requests, and the intent the       *)
(* control cycle consumes.                                                    *)
(*                                                                            *)
(* A request comes over HTTP and over MQTT, and is repeated until it is       *)
(* answered.  Its record is reserved as uncertain, the intent is queued, and  *)
(* the record is confirmed; each save may fail before or after it replaced    *)
(* the file, and the process may die between any two steps.                   *)
EXTENDS Naturals, FiniteSets

CONSTANTS
  None,
  Threads,      \* the webhook's and the MQTT client's thread
  Requests,     \* request_id values
  Capacity,     \* the 4096 unexpired records
  Faults        \* bound: failed saves, failed loads and crashes

VARIABLES
  age,          \* of each request: live, expired, or its record has expired too
  thread,       \* what each thread does: its step and request
  journal,      \* PrechargeInbox.records
  disk,         \* the journal file
  error,        \* PrechargeInbox.error
  intent,       \* _pre_charge_requested, and for which request
  queued,       \* how often accept() ran for each request
  faults        \* what remains of Faults

jvars == <<age, thread, journal, disk, error, intent, queued, faults>>

Statuses == {None, "suppressed", "uncertain", "accepted"}
Idle == [at |-> "idle", request |-> None]

TypeOK ==
  /\ age \in [Requests -> {"live", "expired", "old"}]
  /\ thread \in [Threads -> {Idle} \cup [at : {"wait", "enqueue", "confirm"}, request : Requests]]
  /\ journal \in [Requests -> Statuses] /\ disk \in [Requests -> Statuses]
  /\ error \in BOOLEAN /\ intent \in {None} \cup Requests
  /\ queued \in [Requests -> Nat] /\ faults \in 0 .. Faults

Init ==
  /\ age = [r \in Requests |-> "live"]
  /\ thread = [t \in Threads |-> Idle]
  /\ journal = [r \in Requests |-> None] /\ disk = journal
  /\ error = FALSE /\ intent = None /\ queued = [r \in Requests |-> 0] /\ faults = Faults

Fault == faults > 0 /\ faults' = faults - 1
Done(t) == thread' = [thread EXCEPT ![t] = Idle]
To(t, step) == thread' = [thread EXCEPT ![t].at = step]

-----------------------------------------------------------------------------
(* handle *)

\* A request out of time is rejected before the lock is asked for.
Receive(t, r) ==
  /\ thread[t] = Idle /\ age[r] = "live"
  /\ thread' = [thread EXCEPT ![t] = [at |-> "wait", request |-> r]]
  /\ UNCHANGED <<age, journal, disk, error, intent, queued, faults>>

LockFree == \A t \in Threads : thread[t].at \notin {"enqueue", "confirm"}
Live(records) == [r \in Requests |-> IF age[r] = "old" THEN None ELSE records[r]]
Full == Cardinality({r \in Requests : Live(journal)[r] # None}) >= Capacity

\* The answer of a decided request, and the refusals that change nothing
Answers(r) == error \/ Live(journal)[r] # None \/ age[r] # "live" \/ Full

Answer(t) ==
  /\ thread[t].at = "wait" /\ LockFree /\ Answers(thread[t].request)
  /\ Done(t)
  /\ UNCHANGED <<age, journal, disk, error, intent, queued, faults>>

\* In the expensive window the refusal is recorded, if it can be saved.
Suppress(t) ==
  /\ thread[t].at = "wait" /\ LockFree /\ ~Answers(thread[t].request)
  /\ LET records == [Live(journal) EXCEPT ![thread[t].request] = "suppressed"] IN
     \/ journal' = records /\ disk' = records /\ UNCHANGED faults
     \/ Fault /\ UNCHANGED journal /\ disk' \in {disk, records}
  /\ Done(t)
  /\ UNCHANGED <<age, error, intent, queued>>

\* The reservation stays in memory even if it could not be saved.
Reserve(t) ==
  /\ thread[t].at = "wait" /\ LockFree /\ ~Answers(thread[t].request)
  /\ LET records == [Live(journal) EXCEPT ![thread[t].request] = "uncertain"] IN
     /\ journal' = records
     /\ \/ disk' = records /\ To(t, "enqueue") /\ UNCHANGED faults
        \/ Fault /\ disk' \in {disk, records} /\ Done(t)
  /\ UNCHANGED <<age, error, intent, queued>>

\* accept, under the watchdog's lock
Enqueue(t) ==
  /\ thread[t].at = "enqueue"
  /\ intent' = thread[t].request
  /\ queued' = [queued EXCEPT ![thread[t].request] = @ + 1]
  /\ To(t, "confirm")
  /\ UNCHANGED <<age, journal, disk, error, faults>>

\* Mutant: a failed confirmation takes the reservation back.
FaultySticky(records, r) == [records EXCEPT ![r] = None]

\* "Locally keep uncertainty sticky"
Sticky(records, r) == [records EXCEPT ![r] = "uncertain"]

Confirm(t) ==
  /\ thread[t].at = "confirm"
  /\ LET r == thread[t].request
         confirmed == [journal EXCEPT ![r] = "accepted"] IN
     \/ journal' = confirmed /\ disk' = confirmed /\ UNCHANGED faults
     \/ Fault /\ journal' = Sticky(journal, r) /\ disk' \in {disk, confirmed}
  /\ Done(t)
  /\ UNCHANGED <<age, error, intent, queued>>

-----------------------------------------------------------------------------
(* The control cycle, time and crashes *)

\* _consume_precharge_request: one cycle, or none when it came too late
Consume ==
  /\ intent # None /\ intent' = None
  /\ UNCHANGED <<age, thread, journal, disk, error, queued, faults>>

\* expires_at, then "until", two days after the decision
Age(r) ==
  /\ age[r] # "old"
  /\ age' = [age EXCEPT ![r] = IF @ = "live" THEN "expired" ELSE "old"]
  /\ UNCHANGED <<thread, journal, disk, error, intent, queued, faults>>

\* The intent is lost; a journal that cannot be read refuses everything.
Crash ==
  /\ Fault
  /\ thread' = [t \in Threads |-> Idle]
  /\ intent' = None
  /\ \/ journal' = disk /\ error' = FALSE
     \/ journal' = [r \in Requests |-> None] /\ error' = TRUE
  /\ UNCHANGED <<age, disk, queued>>

Next ==
  \/ \E t \in Threads : \/ \E r \in Requests : Receive(t, r)
                        \/ Answer(t) \/ Suppress(t) \/ Reserve(t) \/ Enqueue(t) \/ Confirm(t)
  \/ \E r \in Requests : Age(r)
  \/ Consume \/ Crash

Spec == Init /\ [][Next]_jvars

-----------------------------------------------------------------------------
(* Properties *)

\* "an uncertain intent is never replayed" and "queued=True still proves the
\* callback returned" (precharge.py): whatever saves fail, and wherever the
\* process dies, a request is queued at most once however often it is delivered
\* on both channels, and a record that says so is true.
QueuedAtMostOnce ==
  \A r \in Requests :
    /\ queued[r] <= 1
    /\ disk[r] = "accepted" /\ age[r] # "old" => queued[r] = 1

=============================================================================
