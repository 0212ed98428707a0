-------------------------- MODULE VenusClient_proofs --------------------------
(***************************************************************************)
(* What is proved of the parts of VenusClient holds of their composition:  *)
(* every behaviour of the client is, in the variables of a part, one of    *)
(* that part, whatever the others do.                                      *)
(***************************************************************************)
EXTENDS VenusClient, Sequences, FiniteSetTheorems, TLAPS

WriteProof == INSTANCE DbusWrite_proofs WITH Writes <- SetCalls, Breaks <- WriteBreaks
BusProof == INSTANCE Subscriptions_proofs
GridProof == INSTANCE GridSelection_proofs WITH Changes <- GridChanges

-----------------------------------------------------------------------------
(* The setpoint write *)

\* A step of the part, in the names of its own module and of its theorems
LEMMA WriteStep == ASSUME Write!Next PROVE WriteProof!Next
BY Zenon DEF Write!Next, WriteProof!Next,
  Write!Idle, WriteProof!Idle, Write!Request, WriteProof!Request, Write!MayEnter,
  WriteProof!MayEnter, Write!Sent, WriteProof!Sent, Write!Enter, WriteProof!Enter, Write!Leave,
  WriteProof!Leave, Write!Accept, WriteProof!Accept, Write!Refuse, WriteProof!Refuse,
  Write!TimesOut, WriteProof!TimesOut, Write!NativeReply, WriteProof!NativeReply, Write!Spawn,
  WriteProof!Spawn, Write!CliReply, WriteProof!CliReply, Write!CliFails, WriteProof!CliFails,
  Write!Awaited, WriteProof!Awaited, Write!Expired, WriteProof!Expired, Write!Dispatch,
  WriteProof!Dispatch, Write!ServiceHandles, WriteProof!ServiceHandles, Write!ConnectionBreaks,
  WriteProof!ConnectionBreaks, Write!CooldownEnds, WriteProof!CooldownEnds, Write!Buses,
  WriteProof!Buses, Write!Failed, WriteProof!Failed, Write!Unanswered, WriteProof!Unanswered

LEMMA WriteInit == ASSUME Init PROVE WriteProof!Init
BY Zenon DEF Init, Write!Init, WriteProof!Init,
  Write!Idle, WriteProof!Idle

\* What the client does is, as far as the part goes, what the part does.
LEMMA WriteRuns == Spec => WriteProof!Spec
<1>1. Init => WriteProof!Init BY WriteInit
<1>2. [Next]_vars => [WriteProof!Next]_WriteProof!wvars
  <2> SUFFICES ASSUME [Next]_vars PROVE WriteProof!Next \/ UNCHANGED writeVars
    BY DEF WriteProof!wvars, writeVars
  <2>1. CASE Only("write") /\ Write!Next BY <2>1, WriteStep
  <2>2. CASE UNCHANGED vars BY <2>2 DEF vars
  <2>3. ASSUME NEW p \in {"grid", "write", "bus", "shunt", "ess", "charge", "reader"}, p # "write", Only(p)
        PROVE  UNCHANGED writeVars
    BY <2>3 DEF Only
  <2>4. QED BY <2>1, <2>2, <2>3 DEF Next
<1>3. QED BY <1>1, <1>2, PTL DEF Spec, WriteProof!Spec

\* Once a write is acknowledged the inverter holds it or a later one, for any
\* callers, timeouts and broken connections (_dbus_set, dbus_native.py).
THEOREM WritesStayOrdered == Spec => []NeverOlderThanAcknowledged
<1>1. WriteProof!ConstantsOK BY BoundsAssumption DEF WriteProof!ConstantsOK
<1>2. WriteProof!Spec => []WriteProof!NeverOlderThanAcknowledged BY <1>1, WriteProof!WritesStayOrdered
<1>3. WriteProof!NeverOlderThanAcknowledged => NeverOlderThanAcknowledged
  BY DEF WriteProof!NeverOlderThanAcknowledged, Write!NeverOlderThanAcknowledged, NeverOlderThanAcknowledged
<1>4. QED BY <1>2, <1>3, WriteRuns, PTL

-----------------------------------------------------------------------------
(* The telemetry connection *)

\* A step of the part, in the names of its own module and of its theorems
LEMMA BusStep == ASSUME Bus!Next PROVE BusProof!Next
BY Zenon DEF Bus!Next, BusProof!Next,
  Bus!Contains, BusProof!Contains,
  Bus!Threads, BusProof!Threads, Bus!Rules, BusProof!Rules, Bus!Pending, BusProof!Pending,
  Bus!Refused, BusProof!Refused, Bus!At, BusProof!At, Bus!Start, BusProof!Start, Bus!Proceed,
  BusProof!Proceed, Bus!GetBus, BusProof!GetBus, Bus!Connect, BusProof!Connect, Bus!ReplayRule,
  BusProof!ReplayRule, Bus!Resolve, BusProof!Resolve, Bus!ReplayEnds, BusProof!ReplayEnds,
  Bus!Call, BusProof!Call, Bus!Subscribed, BusProof!Subscribed, Bus!Dropped, BusProof!Dropped,
  Bus!MarkFailure, BusProof!MarkFailure, Bus!Obsolete, BusProof!Obsolete, Bus!ResolverEnds,
  BusProof!ResolverEnds, Bus!ResolverFails, BusProof!ResolverFails, Bus!HandleSignal,
  BusProof!HandleSignal, Bus!HandleOwnerChanged, BusProof!HandleOwnerChanged, Bus!HandleReply,
  BusProof!HandleReply, Bus!LoopHandles, BusProof!LoopHandles, Bus!Message, BusProof!Message,
  Bus!Sends, BusProof!Sends, Bus!DaemonAnswers, BusProof!DaemonAnswers, Bus!OwnerMoves,
  BusProof!OwnerMoves, Bus!ServiceSignals, BusProof!ServiceSignals, Bus!BusBreaks,
  BusProof!BusBreaks, Bus!CooldownEnds, BusProof!CooldownEnds, Bus!shared, BusProof!shared,
  Bus!loopvars, BusProof!loopvars, Bus!daemon, BusProof!daemon

LEMMA BusInit == ASSUME Init PROVE BusProof!Init
BY Zenon DEF Init, Bus!Init, BusProof!Init,
  Bus!Threads, BusProof!Threads

\* What the client does is, as far as the part goes, what the part does.
LEMMA BusRuns == Spec => BusProof!Spec
<1>1. Init => BusProof!Init BY BusInit
<1>2. [Next]_vars => [BusProof!Next]_BusProof!svars
  <2> SUFFICES ASSUME [Next]_vars PROVE BusProof!Next \/ UNCHANGED busVars
    BY DEF BusProof!svars, busVars
  <2>1. CASE Only("bus") /\ Bus!Next BY <2>1, BusStep
  <2>2. CASE UNCHANGED vars BY <2>2 DEF vars
  <2>3. ASSUME NEW p \in {"grid", "write", "bus", "shunt", "ess", "charge", "reader"}, p # "bus", Only(p)
        PROVE  UNCHANGED busVars
    BY <2>3 DEF Only
  <2>4. QED BY <2>1, <2>2, <2>3 DEF Next
<1>3. QED BY <1>1, <1>2, PTL DEF Spec, BusProof!Spec

\* A connection that stands is never replaced or dropped by a thread whose call
\* failed on an older one (_mark_failure, dbus_native.py).
THEOREM FailuresDropOnlyTheirOwn == Spec => LiveConnectionKept
<1>1. BusProof!ConstantsOK BY BoundsAssumption DEF BusProof!ConstantsOK
<1>2. BusProof!Spec => BusProof!LiveConnectionKept BY <1>1, BusProof!FailuresDropOnlyTheirOwn
<1>3. BusProof!LiveConnectionKept => LiveConnectionKept
  BY PTL DEF BusProof!LiveConnectionKept, Bus!LiveConnectionKept, LiveConnectionKept,
    BusProof!svars, Bus!svars
<1>4. QED BY <1>2, <1>3, BusRuns, PTL

\* A sender's name is bound to the service only if the service has it or its loss
\* is still to be handled, for any names, moves, reconnects and late answers
\* (_resolve_sender, _handle_name_owner_changed, dbus_native.py).
THEOREM BoundToTheirOwner == Spec => []BindingsAreCurrent
<1>1. BusProof!ConstantsOK BY BoundsAssumption DEF BusProof!ConstantsOK
<1>2. BusProof!Spec => []BusProof!BindingsAreCurrent BY <1>1, BusProof!BoundToTheirOwner
<1>3. BusProof!BindingsAreCurrent => BindingsAreCurrent
  BY DEF BusProof!BindingsAreCurrent, Bus!BindingsAreCurrent, BindingsAreCurrent
<1>4. QED BY <1>2, <1>3, BusRuns, PTL

-----------------------------------------------------------------------------
(* The grid measurement *)

\* A step of the part, in the names of its own module and of its theorems
LEMMA GridStep == ASSUME Grid!Next PROVE GridProof!Next
BY Zenon DEF Grid!Next, GridProof!Next,
  Grid!Older, GridProof!Older, Grid!NoFields, GridProof!NoFields, Grid!Aged, GridProof!Aged,
  Grid!Invalidate, GridProof!Invalidate, Grid!Deadline, GridProof!Deadline, Grid!Replace,
  GridProof!Replace, Grid!Ready, GridProof!Ready, Grid!Since, GridProof!Since, Grid!UseBackup,
  GridProof!UseBackup, Grid!Select, GridProof!Select, Grid!Usable, GridProof!Usable,
  Grid!PollBegins, GridProof!PollBegins, Grid!PollAnswers, GridProof!PollAnswers, Grid!PollEnds,
  GridProof!PollEnds, Grid!OwnerChanges, GridProof!OwnerChanges, Grid!SampleReads,
  GridProof!SampleReads, Grid!Mix, GridProof!Mix, Grid!SampleEnds, GridProof!SampleEnds,
  Grid!Reset, GridProof!Reset, Grid!CycleReads, GridProof!CycleReads, Grid!Gate, GridProof!Gate,
  Grid!CycleGate, GridProof!CycleGate, Grid!CycleCalculates, GridProof!CycleCalculates,
  Grid!CycleRechecks, GridProof!CycleRechecks, Grid!CycleWrites, GridProof!CycleWrites,
  Grid!Change, GridProof!Change, Grid!PrimaryChanges, GridProof!PrimaryChanges,
  Grid!MeterMeasures, GridProof!MeterMeasures, Grid!MeterRestarts, GridProof!MeterRestarts,
  Grid!Tick, GridProof!Tick

LEMMA GridInit == ASSUME Init PROVE GridProof!Init
BY Zenon DEF Init, Grid!Init, GridProof!Init,
  Grid!NoFields, GridProof!NoFields

\* What the client does is, as far as the part goes, what the part does.
LEMMA GridRuns == Spec => GridProof!Spec
<1>1. Init => GridProof!Init BY GridInit
<1>2. [Next]_vars => [GridProof!Next]_GridProof!vars
  <2> SUFFICES ASSUME [Next]_vars PROVE GridProof!Next \/ UNCHANGED gridVars
    BY DEF GridProof!vars, gridVars
  <2>1. CASE Only("grid") /\ Grid!Next BY <2>1, GridStep
  <2>2. CASE UNCHANGED vars BY <2>2 DEF vars
  <2>3. ASSUME NEW p \in {"grid", "write", "bus", "shunt", "ess", "charge", "reader"}, p # "grid", Only(p)
        PROVE  UNCHANGED gridVars
    BY <2>3 DEF Only
  <2>4. QED BY <2>1, <2>2, <2>3 DEF Next
<1>3. QED BY <1>1, <1>2, PTL DEF Spec, GridProof!Spec

\* A backup measurement that select() accepts is young and from a service whose
\* departure was not signalled, and a setpoint is written only from measurements of
\* one selection (grid_backup.py, grid_filter.py, _skip_changed_grid).
THEOREM GridStaysTrusted == Spec => []GridIsTrusted
<1>1. GridProof!ConstantsOK BY BoundsAssumption DEF GridProof!ConstantsOK
<1>2. GridProof!Spec => []GridProof!BackupTrusted BY <1>1, GridProof!BackupIsTrusted
<1>3. GridProof!Spec => []GridProof!OneSourcePerDecision BY GridProof!DecisionHasOneSource
<1>4. GridProof!BackupTrusted /\ GridProof!OneSourcePerDecision => GridIsTrusted
  BY Zenon DEF GridProof!BackupTrusted, GridProof!OneSourcePerDecision, GridProof!Ready,
    Grid!BackupTrusted, Grid!OneSourcePerDecision, Grid!Ready,
    Grid!Cardinality, GridProof!Cardinality, GridIsTrusted
<1>5. QED BY <1>2, <1>3, <1>4, GridRuns, PTL

-----------------------------------------------------------------------------
(* The battery measurement: the part's proof, in the names of the client *)

ShuntSignal == [kind : {"value", "connected", "owner"}, service : Services, on : BOOLEAN, version : Nat]
ShuntReply == [connected : Shunt!Connections, value : Nat \cup {None}]
ShuntRead == [service : Services \cup {None}, current : BOOLEAN, reply : {None} \cup ShuntReply]

ShuntTypes ==
  /\ device \in [name : Services \cup {None}, connected : BOOLEAN, version : Nat]
  /\ cache \in [service : Services \cup {None}, connected : Shunt!Connections, value : Nat \cup {None}]
  /\ signals \in Seq(ShuntSignal)
  /\ reader \in [Shunt!Readers -> {None} \cup ShuntRead]
  /\ handled \in Nat

\* What the loop handled or has still to handle is not newer than the shunt.
ShuntNothingFromTheFuture ==
  /\ handled <= device.version
  /\ \A i \in 1 .. Len(signals) : signals[i].version <= device.version

\* Where the shunt is ahead of value v of service s, a signal after the n-th says so,
\* and it comes before every reconnection, which leaves the value as it is.
ShuntAfter(n, s, v) ==
  /\ device.name # None /\ device.name = s /\ v < device.version =>
            \E j \in n + 1 .. Len(signals) : signals[j].service = s /\ signals[j].version >= device.version
  /\ \A k \in n + 1 .. Len(signals) :
            signals[k].service = s /\ signals[k].kind = "connected" /\ signals[k].on /\ v < signals[k].version =>
              \E j \in n + 1 .. k - 1 : signals[j].service = s /\ signals[j].version >= signals[k].version

ShuntQueueCovers == \A i \in 1 .. Len(signals) : ShuntAfter(i, signals[i].service, signals[i].version)

\* A value of the selected service that may be kept
ShuntCovered(v) == v >= handled /\ ShuntAfter(0, cache.service, v)

ShuntDisconnectedHasNone == cache.connected = FALSE => cache.value = None
ShuntCacheCovered == cache.value # None => ShuntCovered(cache.value)

\* A read whose token is current belongs to the selected service, and so does its
\* answer.
ShuntReadsCovered ==
  \A r \in Shunt!Readers : reader[r] # None /\ reader[r].current =>
    /\ reader[r].service = cache.service
    /\ reader[r].reply # None /\ reader[r].reply.value # None => ShuntCovered(reader[r].reply.value)

ShuntIInv ==
  /\ ShuntTypes /\ ShuntNothingFromTheFuture /\ ShuntQueueCovers /\ ShuntDisconnectedHasNone
  /\ ShuntCacheCovered /\ ShuntReadsCovered

LEMMA ShuntInitIInv == ASSUME Shunt!Init PROVE ShuntIInv
<1>1. ShuntTypes
  <2>1. (CHOOSE s \in Services : TRUE) \in Services BY ShuntAssumption
  <2>2. QED BY <2>1 DEF Shunt!Init, ShuntTypes, Shunt!Connections
<1>2. ShuntNothingFromTheFuture /\ ShuntQueueCovers BY DEF Shunt!Init, ShuntNothingFromTheFuture, ShuntQueueCovers
<1>3. ShuntDisconnectedHasNone /\ ShuntCacheCovered /\ ShuntReadsCovered
  BY DEF Shunt!Init, ShuntDisconnectedHasNone, ShuntCacheCovered, ShuntReadsCovered
<1>4. QED BY <1>1, <1>2, <1>3 DEF ShuntIInv

\* The queue after its first element
LEMMA ShuntQueueMoves ==
  ASSUME ShuntTypes, signals # <<>>, signals' = Tail(signals)
  PROVE  /\ signals' \in Seq(ShuntSignal) /\ Len(signals) \in Nat \ {0} /\ Len(signals') = Len(signals) - 1
         /\ \A i \in 1 .. Len(signals') : signals'[i] = signals[i + 1]
         /\ Head(signals) = signals[1] /\ Head(signals) \in ShuntSignal
<1> DEFINE s == signals
<1>1. s \in Seq(ShuntSignal) /\ s # <<>> BY DEF ShuntTypes
<1> HIDE DEF s
<1>2. /\ Tail(s) \in Seq(ShuntSignal) /\ Len(s) \in Nat \ {0} /\ Len(Tail(s)) = Len(s) - 1
      /\ \A i \in 1 .. Len(Tail(s)) : Tail(s)[i] = s[i + 1] /\ Head(s) = s[1] /\ Head(s) \in ShuntSignal
  BY <1>1
<1>3. Head(s) = s[1] /\ Head(s) \in ShuntSignal BY <1>1
<1>4. QED BY <1>2, <1>3 DEF s

\* The queue with one more element
LEMMA ShuntQueueGrows ==
  ASSUME ShuntTypes, NEW m \in ShuntSignal, signals' = Append(signals, m)
  PROVE  /\ signals' \in Seq(ShuntSignal) /\ Len(signals) \in Nat /\ Len(signals') = Len(signals) + 1
         /\ \A i \in 1 .. Len(signals) : signals'[i] = signals[i]
         /\ signals'[Len(signals) + 1] = m
<1> DEFINE s == signals
<1>1. s \in Seq(ShuntSignal) BY DEF ShuntTypes
<1> HIDE DEF s
<1>2. /\ Append(s, m) \in Seq(ShuntSignal) /\ Len(s) \in Nat /\ Len(Append(s, m)) = Len(s) + 1
      /\ \A i \in 1 .. Len(s) : Append(s, m)[i] = s[i]
      /\ Append(s, m)[Len(s) + 1] = m
  BY <1>1
<1>3. QED BY <1>2 DEF s

\* What holds of the signals after the first holds of all once it is taken.
LEMMA ShuntTakingKeeps ==
  ASSUME ShuntIInv, signals # <<>>, signals' = Tail(signals), device' = device,
         NEW n \in Nat \ {0}, NEW s, NEW v, ShuntAfter(n, s, v)
  PROVE  ShuntAfter(n - 1, s, v)'
<1>1. /\ Len(signals) \in Nat \ {0} /\ Len(signals') = Len(signals) - 1
      /\ \A i \in 1 .. Len(signals') : signals'[i] = signals[i + 1]
  BY ShuntQueueMoves DEF ShuntIInv
<1>2. ASSUME NEW i \in n + 1 .. Len(signals)
      PROVE  i - 1 \in n .. Len(signals') /\ signals'[i - 1] = signals[i]
  BY <1>1
<1>3. ASSUME device'.name # None, device'.name = s, v < device'.version
      PROVE  \E j \in n .. Len(signals') : signals'[j].service = s /\ signals'[j].version >= device'.version
  <2>1. PICK j \in n + 1 .. Len(signals) : signals[j].service = s /\ signals[j].version >= device.version
    BY <1>3 DEF ShuntAfter
  <2>2. QED BY <1>2, <2>1
<1>4. ASSUME NEW k \in n .. Len(signals'), signals'[k].service = s, signals'[k].kind = "connected", signals'[k].on,
             v < signals'[k].version
      PROVE  \E j \in n .. k - 1 : signals'[j].service = s /\ signals'[j].version >= signals'[k].version
  <2>1. k + 1 \in n + 1 .. Len(signals) /\ signals'[k] = signals[k + 1] BY <1>1
  <2>2. PICK j \in n + 1 .. k + 1 - 1 : signals[j].service = s /\ signals[j].version >= signals[k + 1].version
    BY <1>4, <2>1 DEF ShuntAfter
  <2>3. j \in n + 1 .. Len(signals) /\ j - 1 \in n .. k - 1 BY <1>1, <2>2
  <2>4. QED BY <1>2, <2>1, <2>2, <2>3
<1>5. n - 1 + 1 = n OBVIOUS
<1>6. QED BY <1>3, <1>4, <1>5 DEF ShuntAfter

\* The first signal, of another service, says nothing of s.
LEMMA ShuntOthersSayNothing ==
  ASSUME ShuntIInv, signals # <<>>, NEW s, NEW v, ShuntAfter(0, s, v), Head(signals).service # s
  PROVE  ShuntAfter(1, s, v)
<1>1. Len(signals) \in Nat \ {0} /\ signals[1].service # s
  <2>1. signals \in Seq(ShuntSignal) BY DEF ShuntIInv, ShuntTypes
  <2>2. QED BY <2>1
<1>2. ASSUME NEW m \in Nat, NEW j \in 0 + 1 .. m, signals[j].service = s PROVE j \in 1 + 1 .. m
  BY <1>1, <1>2
<1>3. ASSUME device.name # None, device.name = s, v < device.version
      PROVE  \E j \in 1 + 1 .. Len(signals) : signals[j].service = s /\ signals[j].version >= device.version
  BY <1>1, <1>2, <1>3 DEF ShuntAfter
<1>4. ASSUME NEW k \in 1 + 1 .. Len(signals), signals[k].service = s, signals[k].kind = "connected", signals[k].on,
             v < signals[k].version
      PROVE  \E j \in 1 + 1 .. k - 1 : signals[j].service = s /\ signals[j].version >= signals[k].version
  <2>1. k \in 0 + 1 .. Len(signals) /\ k - 1 \in Nat BY <1>1
  <2>2. PICK j \in 0 + 1 .. k - 1 : signals[j].service = s /\ signals[j].version >= signals[k].version
    BY <1>4, <2>1 DEF ShuntAfter
  <2>3. QED BY <1>2, <2>1, <2>2
<1>5. QED BY <1>3, <1>4 DEF ShuntAfter

\* A newer value needs no more signals than an older one.
LEMMA ShuntNewerIsCovered ==
  ASSUME ShuntTypes, NEW n \in Nat, NEW s, NEW u \in Nat, NEW v \in Nat, u <= v, ShuntAfter(n, s, u)
  PROVE  ShuntAfter(n, s, v)
<1>1. device.version \in Nat BY DEF ShuntTypes
<1>2. \A k \in n + 1 .. Len(signals) : signals[k].version \in Nat
  <2>1. signals \in Seq(ShuntSignal) BY DEF ShuntTypes
  <2>2. \A k \in 1 .. Len(signals) : signals[k] \in ShuntSignal BY <2>1
  <2>3. QED BY <2>1, <2>2 DEF ShuntSignal
<1>3. QED BY <1>1, <1>2 DEF ShuntAfter

\* The shunt changes and tells so: a reconnection of the service that is there
\* tells no news, everything else is the newest of its service.
LEMMA ShuntGrowingKeeps ==
  ASSUME ShuntIInv, NEW m \in ShuntSignal, signals' = Append(signals, m), m.version = device'.version,
         device'.version \in Nat, device.version <= device'.version, device'.name \in {None, m.service},
         m.kind = "connected" /\ m.on => device' = [device EXCEPT !.connected = TRUE] /\ device.name # None,
         NEW n \in Nat, n <= Len(signals), NEW s, NEW v \in Nat, ShuntAfter(n, s, v)
  PROVE  ShuntAfter(n, s, v)'
<1> DEFINE N == Len(signals)
<1>1. /\ N \in Nat /\ Len(signals') = N + 1 /\ signals'[N + 1] = m
      /\ \A i \in 1 .. N : signals'[i] = signals[i]
  BY ShuntQueueGrows DEF ShuntIInv
<1> HIDE DEF N
<1>2. N = Len(signals) BY DEF N
<1>3. ASSUME device'.name # None, device'.name = s, v < device'.version
      PROVE  \E j \in n + 1 .. Len(signals') : signals'[j].service = s /\ signals'[j].version >= device'.version
  <2>1. N + 1 \in n + 1 .. Len(signals') BY <1>1, <1>2
  <2>2. QED BY <1>1, <1>3, <2>1
<1>4. ASSUME NEW k \in n + 1 .. Len(signals'), signals'[k].service = s, signals'[k].kind = "connected",
             signals'[k].on,
             v < signals'[k].version
      PROVE  \E j \in n + 1 .. k - 1 : signals'[j].service = s /\ signals'[j].version >= signals'[k].version
  <2>1. CASE k = N + 1
    <3>1. signals'[k] = m BY <1>1, <2>1
    <3>2. device.version = m.version /\ device.name = s /\ device.name # None
      <4>1. device' = [device EXCEPT !.connected = TRUE] /\ device.name # None BY <1>4, <3>1
      <4>2. device'.name = device.name /\ device'.version = device.version BY <4>1 DEF ShuntIInv, ShuntTypes
      <4>3. QED BY <1>4, <3>1, <4>1, <4>2
    <3>3. PICK j \in n + 1 .. N : signals[j].service = s /\ signals[j].version >= device.version
      BY <1>2, <1>4, <3>1, <3>2 DEF ShuntAfter
    <3>4. j \in 1 .. N /\ j \in n + 1 .. k - 1 BY <1>1, <2>1, <3>3
    <3>5. QED BY <1>1, <3>1, <3>2, <3>3, <3>4
  <2>2. CASE k # N + 1
    <3>1. k \in n + 1 .. N /\ k \in 1 .. N BY <1>1, <2>2
    <3>2. signals'[k] = signals[k] BY <1>1, <3>1
    <3>3. PICK j \in n + 1 .. k - 1 : signals[j].service = s /\ signals[j].version >= signals[k].version
      BY <1>2, <1>4, <3>1, <3>2 DEF ShuntAfter
    <3>4. j \in 1 .. N BY <1>1, <3>1, <3>3
    <3>5. QED BY <1>1, <3>2, <3>3, <3>4
  <2>3. QED BY <2>1, <2>2
<1>5. QED BY <1>3, <1>4 DEF ShuntAfter

LEMMA ShuntDeviceKeeps ==
  ASSUME ShuntIInv, NEW m \in ShuntSignal, signals' = Append(signals, m), m.version = device'.version,
         device' \in [name : Services \cup {None}, connected : BOOLEAN, version : Nat],
         device.version <= device'.version, device'.name \in {None, m.service},
         m.kind = "connected" /\ m.on => device' = [device EXCEPT !.connected = TRUE] /\ device.name # None,
         UNCHANGED <<cache, reader, handled>>
  PROVE  ShuntIInv'
<1> DEFINE N == Len(signals)
<1>1. /\ N \in Nat /\ Len(signals') = N + 1 /\ signals'[N + 1] = m /\ signals' \in Seq(ShuntSignal)
      /\ \A i \in 1 .. N : signals'[i] = signals[i]
  BY ShuntQueueGrows DEF ShuntIInv
<1>2. \A i \in 1 .. N : signals[i].version \in Nat
  <2>1. signals \in Seq(ShuntSignal) BY DEF ShuntIInv, ShuntTypes
  <2>2. \A k \in 1 .. Len(signals) : signals[k] \in ShuntSignal BY <2>1
  <2>3. QED BY <2>1, <2>2 DEF ShuntSignal
<1>3. device.version \in Nat /\ device'.version \in Nat /\ handled \in Nat BY DEF ShuntIInv, ShuntTypes
<1>4. ASSUME NEW n \in 0 .. N, NEW s, NEW v \in Nat, ShuntAfter(n, s, v) PROVE ShuntAfter(n, s, v)'
  BY <1>1, <1>3, <1>4, ShuntGrowingKeeps
<1> HIDE DEF N
<1>5. ShuntTypes' BY <1>1 DEF ShuntIInv, ShuntTypes
<1>6. ShuntNothingFromTheFuture'
  <2>1. ASSUME NEW i \in 1 .. N + 1 PROVE signals'[i].version <= device'.version
    <3>1. CASE i = N + 1 BY <1>1, <1>3, <3>1
    <3>2. CASE i # N + 1
      <4>1. i \in 1 .. N BY <1>1, <3>2
      <4>2. signals[i].version <= device.version BY <4>1 DEF ShuntIInv, ShuntNothingFromTheFuture, N
      <4>3. QED BY <1>1, <1>2, <1>3, <4>1, <4>2
    <3>3. QED BY <3>1, <3>2
  <2>2. handled' <= device'.version BY <1>3 DEF ShuntIInv, ShuntNothingFromTheFuture
  <2>3. QED BY <1>1, <2>1, <2>2 DEF ShuntNothingFromTheFuture
<1>7. ShuntQueueCovers'
  <2>1. ASSUME NEW i \in 1 .. N + 1 PROVE ShuntAfter(i, signals[i].service, signals[i].version)'
    <3>1. CASE i = N + 1
      <4>1. ~(m.version < device'.version) /\ \A k \in i + 1 .. Len(signals') : FALSE BY <1>1, <1>3, <3>1
      <4>2. QED BY <1>1, <3>1, <4>1 DEF ShuntAfter
    <3>2. CASE i # N + 1
      <4>1. i \in 1 .. N /\ i \in 0 .. N BY <1>1, <3>2
      <4>2. ShuntAfter(i, signals[i].service, signals[i].version) BY <4>1 DEF ShuntIInv, ShuntQueueCovers, N
      <4>3. signals[i].version \in Nat /\ signals'[i] = signals[i] BY <1>1, <1>2, <4>1
      <4>4. PICK s, v : v \in Nat /\ ShuntAfter(i, s, v) /\ s = signals'[i].service /\ v = signals'[i].version
        BY <4>2, <4>3
      <4>5. ShuntAfter(i, s, v)' BY <1>4, <4>1, <4>4
      <4>6. QED BY <4>4, <4>5 DEF ShuntAfter
    <3>3. QED BY <3>1, <3>2
  <2>2. QED BY <1>1, <2>1 DEF ShuntQueueCovers
<1>8. ASSUME NEW v \in Nat, ShuntCovered(v) PROVE ShuntCovered(v)'
  <2>1. PICK s : ShuntAfter(0, s, v) /\ s = cache'.service BY <1>8 DEF ShuntCovered
  <2>2. ShuntAfter(0, s, v)' BY <1>1, <1>4, <2>1
  <2>3. QED BY <1>8, <2>1, <2>2 DEF ShuntCovered, ShuntAfter
<1>9. ShuntDisconnectedHasNone' BY DEF ShuntIInv, ShuntDisconnectedHasNone
<1>10. ShuntCacheCovered' BY <1>8 DEF ShuntIInv, ShuntTypes, ShuntCacheCovered
<1>11. ShuntReadsCovered'
  <2> SUFFICES ASSUME NEW r \in Shunt!Readers, reader[r] # None, reader[r].current
               PROVE  /\ reader[r].service = cache.service
                      /\ reader[r].reply # None
                         /\ reader[r].reply.value # None => ShuntCovered(reader[r].reply.value)'
    BY DEF ShuntReadsCovered
  <2>1. reader[r].reply # None /\ reader[r].reply.value # None => reader[r].reply.value \in Nat
    BY DEF ShuntIInv, ShuntTypes, ShuntRead, ShuntReply
  <2>2. QED BY <1>8, <2>1 DEF ShuntIInv, ShuntReadsCovered
<1>12. QED BY <1>5, <1>6, <1>7, <1>9, <1>10, <1>11 DEF ShuntIInv

-----------------------------------------------------------------------------
(* The shunt *)

LEMMA ShuntShuntKeeps ==
  ASSUME ShuntIInv, Shunt!Measures \/ Shunt!ConnectionChanges \/ Shunt!Leaves \/ Shunt!Returns
  PROVE  ShuntIInv'
<1>1. device \in [name : Services \cup {None}, connected : BOOLEAN, version : Nat] BY DEF ShuntIInv, ShuntTypes
<1>2. CASE Shunt!Measures
  <2> DEFINE m == [kind |-> "value", service |-> device.name, on |-> device'.connected, version |-> device'.version]
  <2>1. /\ device' \in [name : Services \cup {None}, connected : BOOLEAN, version : Nat]
        /\ device.version <= device'.version /\ device'.name = device.name /\ device.name \in Services
    BY <1>1, <1>2 DEF Shunt!Measures
  <2>2. m \in ShuntSignal /\ m.version = device'.version /\ m.service = device.name /\ m.kind = "value"
    BY <2>1 DEF ShuntSignal
  <2>3. signals' = Append(signals, m) /\ UNCHANGED <<cache, reader, handled>> BY <1>2 DEF Shunt!Measures, Shunt!Emit
  <2> HIDE DEF m
  <2>4. QED BY <2>1, <2>2, <2>3, ShuntDeviceKeeps
<1>3. CASE Shunt!ConnectionChanges
  <2> DEFINE m == [kind |-> "connected", service |-> device.name, on |-> device'.connected,
                   version |-> device'.version]
  <2>1. /\ device' \in [name : Services \cup {None}, connected : BOOLEAN, version : Nat]
        /\ device.version <= device'.version /\ device'.name = device.name /\ device.name \in Services
        /\ device'.connected => device'.version = device.version
        /\ device.name # None
    <3> DEFINE v == IF device.connected THEN device.version + 1 ELSE device.version
               on == ~device.connected
    <3>1. device' = [device EXCEPT !.connected = on, !.version = v] BY <1>3 DEF Shunt!ConnectionChanges
    <3>2. v \in Nat /\ device.version <= v /\ on \in BOOLEAN /\ (on => v = device.version) BY <1>1
    <3> HIDE DEF v, on
    <3>3. device.name \in Services /\ device.name # None BY <1>1, <1>3 DEF Shunt!ConnectionChanges
    <3>4. QED BY <1>1, <3>1, <3>2, <3>3
  <2>2. m \in ShuntSignal /\ m.version = device'.version /\ m.service = device.name /\ m.on = device'.connected
    BY <2>1 DEF ShuntSignal
  <2>3. signals' = Append(signals, m) /\ UNCHANGED <<cache, reader, handled>>
    BY <1>3 DEF Shunt!ConnectionChanges, Shunt!Emit
  <2>4. m.on => device' = [device EXCEPT !.connected = TRUE] BY <1>1, <2>1
  <2> HIDE DEF m
  <2>5. QED BY <2>1, <2>2, <2>3, <2>4, ShuntDeviceKeeps
<1>4. CASE Shunt!Leaves
  <2> DEFINE m == [kind |-> "owner", service |-> device.name, on |-> device'.connected, version |-> device'.version]
  <2>1. /\ device' \in [name : Services \cup {None}, connected : BOOLEAN, version : Nat]
        /\ device.version <= device'.version /\ device'.name = None /\ device.name \in Services
    <3>1. device' = [device EXCEPT !.name = None, !.version = device.version + 1] BY <1>4 DEF Shunt!Leaves
    <3>2. device.version + 1 \in Nat /\ device.version <= device.version + 1 BY <1>1
    <3>3. device.name \in Services BY <1>1, <1>4 DEF Shunt!Leaves
    <3>4. QED BY <1>1, <3>1, <3>2, <3>3
  <2>2. m \in ShuntSignal /\ m.version = device'.version /\ m.kind = "owner" BY <2>1 DEF ShuntSignal
  <2>3. signals' = Append(signals, m) /\ UNCHANGED <<cache, reader, handled>> BY <1>4 DEF Shunt!Leaves, Shunt!Emit
  <2> HIDE DEF m
  <2>4. QED BY <2>1, <2>2, <2>3, ShuntDeviceKeeps
<1>5. CASE Shunt!Returns
  <2>1. PICK s \in Services : device' = [device EXCEPT !.name = s] /\ Shunt!Emit("owner", s) BY <1>5 DEF Shunt!Returns
  <2> DEFINE m == [kind |-> "owner", service |-> s, on |-> device'.connected, version |-> device'.version]
  <2>2. /\ device' \in [name : Services \cup {None}, connected : BOOLEAN, version : Nat]
        /\ device.version <= device'.version /\ device'.name = s
    BY <1>1, <2>1
  <2>3. m \in ShuntSignal /\ m.version = device'.version /\ m.service = s /\ m.kind = "owner" BY <2>2 DEF ShuntSignal
  <2>4. signals' = Append(signals, m) /\ UNCHANGED <<cache, reader, handled>>
    BY <1>5, <2>1 DEF Shunt!Returns, Shunt!Emit
  <2> HIDE DEF m
  <2>5. QED BY <2>2, <2>3, <2>4, ShuntDeviceKeeps
<1>6. QED BY <1>2, <1>3, <1>4, <1>5

-----------------------------------------------------------------------------
(* The cache and the reads *)

\* Every read in flight is overtaken.
LEMMA ShuntOvertakenType ==
  ASSUME ShuntTypes, NEW reads \in [Shunt!Readers -> {None} \cup ShuntRead]
  PROVE  /\ Shunt!Overtaken(reads) \in [Shunt!Readers -> {None} \cup ShuntRead]
         /\ \A r \in Shunt!Readers : Shunt!Overtaken(reads)[r] # None => ~Shunt!Overtaken(reads)[r].current
BY DEF Shunt!Overtaken, ShuntRead

\* A new cache of the same service, its value covered
LEMMA ShuntObserveKeeps ==
  ASSUME ShuntIInv, NEW reads \in [Shunt!Readers -> {None} \cup ShuntRead], reader' = Shunt!Overtaken(reads),
         cache' \in [service : Services \cup {None}, connected : Shunt!Connections, value : Nat \cup {None}],
         cache'.connected = FALSE => cache'.value = None,
         cache'.value # None => ShuntCovered(cache.value)',
         ShuntTypes', ShuntNothingFromTheFuture', ShuntQueueCovers'
  PROVE  ShuntIInv'
<1>1. \A r \in Shunt!Readers : reader'[r] # None => ~reader'[r].current BY ShuntOvertakenType DEF ShuntIInv
<1>2. ShuntReadsCovered' BY <1>1 DEF ShuntReadsCovered
<1>3. ShuntCacheCovered' BY DEF ShuntCacheCovered
<1>4. ShuntDisconnectedHasNone' BY DEF ShuntDisconnectedHasNone
<1>5. QED BY <1>2, <1>3, <1>4 DEF ShuntIInv

\* The queue, after its first signal was handled
LEMMA ShuntHandledQueue ==
  ASSUME ShuntIInv, signals # <<>>, signals' = Tail(signals), device' = device,
         handled' \in {handled, Head(signals).version}
  PROVE  ShuntNothingFromTheFuture' /\ ShuntQueueCovers'
        /\ ShuntAfter(1, Head(signals).service, Head(signals).version)
<1>1. /\ Len(signals) \in Nat \ {0} /\ Len(signals') = Len(signals) - 1
      /\ \A i \in 1 .. Len(signals') : signals'[i] = signals[i + 1]
      /\ Head(signals) = signals[1]
  BY ShuntQueueMoves DEF ShuntIInv
<1>2. ShuntNothingFromTheFuture'
  <2>1. Head(signals).version <= device.version BY <1>1 DEF ShuntIInv, ShuntNothingFromTheFuture
  <2>2. \A i \in 1 .. Len(signals') : i + 1 \in 1 .. Len(signals) BY <1>1
  <2>3. QED BY <1>1, <2>1, <2>2 DEF ShuntIInv, ShuntNothingFromTheFuture
<1>3. ShuntQueueCovers'
  <2> SUFFICES ASSUME NEW i \in 1 .. Len(signals') PROVE ShuntAfter(i, signals[i].service, signals[i].version)'
    BY DEF ShuntQueueCovers
  <2>1. i + 1 \in 1 .. Len(signals) /\ i + 1 \in Nat \ {0} /\ i + 1 - 1 = i BY <1>1
  <2>2. PICK s, v : ShuntAfter(i + 1, s, v) /\ s = signals'[i].service /\ v = signals'[i].version
    BY <1>1, <2>1 DEF ShuntIInv, ShuntQueueCovers
  <2>3. ShuntAfter(i + 1 - 1, s, v)' BY <2>1, <2>2, ShuntTakingKeeps
  <2>4. ShuntAfter(i, s, v)' BY <2>1, <2>3
  <2>5. QED BY <2>2, <2>4 DEF ShuntAfter
<1>4. ShuntAfter(1, Head(signals).service, Head(signals).version) BY <1>1 DEF ShuntIInv, ShuntQueueCovers
<1>5. QED BY <1>2, <1>3, <1>4

LEMMA ShuntHandleKeeps == ASSUME ShuntIInv, Shunt!Handle PROVE ShuntIInv'
<1> DEFINE m == Head(signals)
<1>1. /\ signals # <<>> /\ signals' = Tail(signals) /\ device' = device
      /\ handled' = IF m.service = cache.service THEN m.version ELSE handled
  BY DEF Shunt!Handle
<1>2. m \in ShuntSignal /\ signals' \in Seq(ShuntSignal) BY <1>1, ShuntQueueMoves DEF ShuntIInv
<1>3. handled' \in {handled, m.version} BY <1>1
<1>4. ShuntNothingFromTheFuture' /\ ShuntQueueCovers' /\ ShuntAfter(1, m.service, m.version)
  BY <1>1, <1>3, ShuntHandledQueue
<1> HIDE DEF m
<1>5. m.version \in Nat /\ m.on \in BOOLEAN /\ m.kind \in {"value", "connected", "owner"} BY <1>2 DEF ShuntSignal
<1>6. handled' \in Nat BY <1>3, <1>5 DEF ShuntIInv, ShuntTypes
<1>7. CASE m.service # cache.service
  <2>1. cache' = cache /\ reader' = reader /\ handled' = handled BY <1>1, <1>7 DEF Shunt!Handle, m
  <2>2. ASSUME NEW v \in Nat, ShuntCovered(v) PROVE ShuntCovered(v)'
    <3>1. PICK s : s = cache.service /\ ShuntAfter(0, s, v) BY <2>2 DEF ShuntCovered
    <3>2. ShuntAfter(1, s, v) BY <1>1, <1>7, <3>1, ShuntOthersSayNothing DEF m
    <3>3. ShuntAfter(1 - 1, s, v)' BY <1>1, <3>2, ShuntTakingKeeps
    <3>4. 1 - 1 = 0 OBVIOUS
    <3>5. ShuntAfter(0, s, v)' BY <3>3, <3>4
    <3>6. QED BY <2>1, <2>2, <3>1, <3>5 DEF ShuntCovered, ShuntAfter
  <2>3. ShuntTypes' BY <1>1, <1>2, <2>1 DEF ShuntIInv, ShuntTypes
  <2>4. ShuntCacheCovered' BY <2>1, <2>2 DEF ShuntIInv, ShuntTypes, ShuntCacheCovered
  <2>5. ShuntReadsCovered'
    <3> SUFFICES ASSUME NEW r \in Shunt!Readers, reader[r] # None, reader[r].current
                 PROVE  /\ reader[r].service = cache.service
                        /\ reader[r].reply # None
                           /\ reader[r].reply.value # None => ShuntCovered(reader[r].reply.value)'
      BY <2>1 DEF ShuntReadsCovered
    <3>1. reader[r].reply # None /\ reader[r].reply.value # None => reader[r].reply.value \in Nat
      BY DEF ShuntIInv, ShuntTypes, ShuntRead, ShuntReply
    <3>2. QED BY <2>1, <2>2, <3>1 DEF ShuntIInv, ShuntReadsCovered
  <2>6. ShuntDisconnectedHasNone' BY <2>1 DEF ShuntIInv, ShuntDisconnectedHasNone
  <2>7. QED BY <1>4, <2>3, <2>4, <2>5, <2>6 DEF ShuntIInv
<1>8. CASE m.service = cache.service
  <2>1. PICK c : /\ cache' = c /\ reader' = Shunt!Overtaken(reader)
                 /\ c \in {Shunt!WithValue(cache, m.version), Shunt!WithConnected(cache, m.on),
                           Shunt!WithConnected(cache, FALSE)}
                 /\ m.kind = "value" => c = Shunt!WithValue(cache, m.version)
                 /\ m.kind = "connected" => c = Shunt!WithConnected(cache, m.on)
                 /\ m.kind = "owner" => c = Shunt!WithConnected(cache, FALSE)
    BY <1>5, <1>8 DEF Shunt!Handle, Shunt!Observe, m
  <2>2. cache \in [service : Services \cup {None}, connected : Shunt!Connections, value : Nat \cup {None}]
        /\ (cache.connected = FALSE => cache.value = None)
    BY DEF ShuntIInv, ShuntTypes, ShuntDisconnectedHasNone
  <2>3. /\ c \in [service : Services \cup {None}, connected : Shunt!Connections, value : Nat \cup {None}]
        /\ c.service = cache.service /\ (c.connected = FALSE => c.value = None)
        /\ c.value # None => \/ c.value = m.version
                             \/ c.value = cache.value /\ m.kind = "connected" /\ m.on
    BY <1>5, <2>1, <2>2 DEF Shunt!WithValue, Shunt!WithConnected, Shunt!Connections
  <2>4. reader \in [Shunt!Readers -> {None} \cup ShuntRead] BY DEF ShuntIInv, ShuntTypes
  <2>5. ShuntTypes' BY <1>1, <1>2, <1>6, <2>1, <2>3, <2>4, ShuntOvertakenType DEF ShuntIInv, ShuntTypes
  <2>6. ASSUME c.value # None PROVE ShuntCovered(cache.value)'
    <3>1. PICK v \in Nat : v = c.value BY <2>3, <2>6
    <3>2. v >= m.version
      <4>1. CASE v = m.version BY <1>5, <4>1
      <4>2. CASE v = cache.value /\ m.kind = "connected" /\ m.on
        <5>1. ShuntAfter(0, cache.service, v) BY <2>6, <3>1, <4>2 DEF ShuntIInv, ShuntCacheCovered, ShuntCovered
        <5>2. m = signals[1] /\ 1 \in 0 + 1 .. Len(signals) BY <1>1, ShuntQueueMoves DEF ShuntIInv, m
        <5>3. ~(\E j \in 0 + 1 .. 1 - 1 : TRUE) OBVIOUS
        <5>4. ~(v < m.version) BY <1>8, <4>2, <5>1, <5>2, <5>3 DEF ShuntAfter
        <5>5. QED BY <1>5, <3>1, <5>4
      <4>3. QED BY <2>3, <2>6, <3>1, <4>1, <4>2
    <3>3. PICK s : s = cache.service /\ ShuntAfter(1, s, v)
      BY <1>4, <1>5, <1>8, <3>2, ShuntNewerIsCovered DEF ShuntIInv
    <3>4. ShuntAfter(1 - 1, s, v)' BY <1>1, <3>3, ShuntTakingKeeps
    <3>5. 1 - 1 = 0 OBVIOUS
    <3>6. ShuntAfter(0, s, v)' BY <3>4, <3>5
    <3>7. handled' = m.version /\ cache'.value = v /\ cache'.service = s BY <1>1, <1>8, <2>1, <2>3, <3>1, <3>3
    <3>8. QED BY <3>2, <3>6, <3>7 DEF ShuntCovered, ShuntAfter
  <2>7. QED BY <1>4, <2>1, <2>3, <2>4, <2>5, <2>6, ShuntObserveKeeps
<1>9. QED BY <1>7, <1>8

LEMMA ShuntBeginKeeps == ASSUME ShuntIInv, NEW r \in Shunt!Readers, Shunt!Begin(r) PROVE ShuntIInv'
<1> DEFINE read == [service |-> cache.service, current |-> TRUE, reply |-> None]
<1>1. reader' = [reader EXCEPT ![r] = read] /\ UNCHANGED <<device, signals, cache, handled>> BY DEF Shunt!Begin
<1>2. read \in ShuntRead BY DEF ShuntIInv, ShuntTypes, ShuntRead
<1>3. ShuntTypes' BY <1>1, <1>2 DEF ShuntIInv, ShuntTypes
<1>4. ShuntNothingFromTheFuture' /\ ShuntQueueCovers' /\ ShuntDisconnectedHasNone' /\ ShuntCacheCovered'
  BY <1>1 DEF ShuntIInv, ShuntNothingFromTheFuture, ShuntQueueCovers, ShuntDisconnectedHasNone, ShuntCacheCovered,
    ShuntCovered, ShuntAfter
<1>5. ShuntReadsCovered'
  <2> SUFFICES ASSUME NEW q \in Shunt!Readers, reader'[q] # None, reader'[q].current
               PROVE  /\ reader'[q].service = cache.service
                      /\ reader'[q].reply # None
                         /\ reader'[q].reply.value # None => ShuntCovered(reader[q].reply.value)'
    BY <1>1 DEF ShuntReadsCovered
  <2>1. CASE q = r
    <3>1. reader'[q] = read BY <1>1, <2>1 DEF ShuntIInv, ShuntTypes
    <3>2. QED BY <3>1
  <2>2. CASE q # r
    <3>1. reader'[q] = reader[q] BY <1>1, <2>2 DEF ShuntIInv, ShuntTypes
    <3>2. QED BY <1>1, <3>1 DEF ShuntIInv, ShuntReadsCovered, ShuntCovered, ShuntAfter
  <2>3. QED BY <2>1, <2>2
<1>6. QED BY <1>3, <1>4, <1>5 DEF ShuntIInv

\* What the shunt measures now is covered.
LEMMA ShuntPresentIsCovered == ASSUME ShuntIInv PROVE ShuntCovered(device.version)
<1>1. handled \in Nat /\ device.version \in Nat BY DEF ShuntIInv, ShuntTypes
<1>2. \A k \in 0 + 1 .. Len(signals) : signals[k].version \in Nat /\ signals[k].version <= device.version
  <2>1. signals \in Seq(ShuntSignal) BY DEF ShuntIInv, ShuntTypes
  <2>2. \A k \in 1 .. Len(signals) : signals[k] \in ShuntSignal BY <2>1
  <2>3. QED BY <2>1, <2>2 DEF ShuntSignal, ShuntIInv, ShuntNothingFromTheFuture
<1>3. QED BY <1>1, <1>2 DEF ShuntCovered, ShuntAfter, ShuntIInv, ShuntNothingFromTheFuture

LEMMA ShuntAnswerKeeps == ASSUME ShuntIInv, NEW r \in Shunt!Readers, Shunt!Answer(r) PROVE ShuntIInv'
<1>1. reader[r] \in ShuntRead /\ UNCHANGED <<device, signals, cache, handled>>
  BY DEF Shunt!Answer, ShuntIInv, ShuntTypes
<1>2. PICK reply \in {Shunt!NoReply, [connected |-> device.connected, value |-> device.version]} :
        reader' = [reader EXCEPT ![r].reply = reply]
  BY DEF Shunt!Answer
<1>3. reply \in ShuntReply /\ (reply.value # None => ShuntCovered(reply.value))
  BY <1>2, ShuntPresentIsCovered DEF ShuntIInv, ShuntTypes, Shunt!NoReply, ShuntReply, Shunt!Connections
<1>4. reader'[r] \in ShuntRead /\ reader'[r].service = reader[r].service /\ reader'[r].current = reader[r].current
      /\ reader'[r].reply = reply /\ \A q \in Shunt!Readers : q # r => reader'[q] = reader[q]
  BY <1>1, <1>2, <1>3 DEF ShuntRead, ShuntIInv, ShuntTypes
<1>5. ShuntTypes'
  <2>1. reader' \in [Shunt!Readers -> {None} \cup ShuntRead] BY <1>2, <1>4 DEF ShuntIInv, ShuntTypes
  <2>2. QED BY <1>1, <2>1 DEF ShuntIInv, ShuntTypes
<1>6. ShuntNothingFromTheFuture' /\ ShuntQueueCovers' /\ ShuntDisconnectedHasNone' /\ ShuntCacheCovered'
  BY <1>1 DEF ShuntIInv, ShuntNothingFromTheFuture, ShuntQueueCovers, ShuntDisconnectedHasNone, ShuntCacheCovered,
    ShuntCovered, ShuntAfter
<1>7. ShuntReadsCovered'
  <2> SUFFICES ASSUME NEW q \in Shunt!Readers, reader'[q] # None, reader'[q].current
               PROVE  /\ reader'[q].service = cache.service
                      /\ reader'[q].reply # None
                         /\ reader'[q].reply.value # None => ShuntCovered(reader'[q].reply.value)
    BY <1>1 DEF ShuntReadsCovered, ShuntCovered, ShuntAfter
  <2>1. CASE q = r BY <1>3, <1>4, <2>1, reader[r] # None DEF Shunt!Answer, ShuntIInv, ShuntReadsCovered
  <2>2. CASE q # r BY <1>4, <2>2 DEF ShuntIInv, ShuntReadsCovered
  <2>3. QED BY <2>1, <2>2
<1>8. QED BY <1>5, <1>6, <1>7 DEF ShuntIInv

LEMMA ShuntCommitKeeps == ASSUME ShuntIInv, NEW r \in Shunt!Readers, Shunt!Commit(r) PROVE ShuntIInv'
<1> DEFINE others == [reader EXCEPT ![r] = None]
           reply == reader[r].reply
<1>1. reader[r] \in ShuntRead /\ reply \in ShuntReply /\ others \in [Shunt!Readers -> {None} \cup ShuntRead]
      /\ cache \in [service : Services \cup {None}, connected : Shunt!Connections, value : Nat \cup {None}]
  BY DEF Shunt!Commit, ShuntIInv, ShuntTypes, ShuntRead
<1>2. UNCHANGED <<device, signals, handled>> BY DEF Shunt!Commit
<1>3. ShuntNothingFromTheFuture' /\ ShuntQueueCovers'
  BY <1>2 DEF ShuntIInv, ShuntNothingFromTheFuture, ShuntQueueCovers, ShuntAfter
<1>4. CASE reader' = others /\ UNCHANGED cache
  <2>1. \A q \in Shunt!Readers : reader'[q] # None => reader'[q] = reader[q] BY <1>4 DEF ShuntIInv, ShuntTypes
  <2>2. ShuntTypes' BY <1>1, <1>2, <1>4 DEF ShuntIInv, ShuntTypes
  <2>3. ShuntReadsCovered' BY <1>2, <1>4, <2>1 DEF ShuntIInv, ShuntReadsCovered, ShuntCovered, ShuntAfter
  <2>4. ShuntDisconnectedHasNone' /\ ShuntCacheCovered'
    BY <1>2, <1>4 DEF ShuntIInv, ShuntDisconnectedHasNone, ShuntCacheCovered, ShuntCovered, ShuntAfter
  <2>5. QED BY <1>3, <2>2, <2>3, <2>4 DEF ShuntIInv
<1>5. CASE Shunt!Current(reader[r])
      /\ (Shunt!Observe(Shunt!Committed(cache, reply), others)
         \/ Shunt!Observe(Shunt!WithValue(cache, reply.value), others))
  <2>1. reader' = others \/ reader' = Shunt!Overtaken(others) BY <1>5 DEF Shunt!Observe
  <2>2. reply.value # None => ShuntCovered(reply.value)
    BY <1>5 DEF Shunt!Commit, Shunt!Current, ShuntIInv, ShuntReadsCovered
  <2>3. cache.connected = FALSE => cache.value = None BY DEF ShuntIInv, ShuntDisconnectedHasNone
  <2>4. /\ cache' \in [service : Services \cup {None}, connected : Shunt!Connections, value : Nat \cup {None}]
        /\ cache'.service = cache.service /\ (cache'.connected = FALSE => cache'.value = None)
        /\ cache'.value # None => cache'.value = reply.value
    BY <1>1, <1>5, <2>3 DEF Shunt!Observe, Shunt!Committed, Shunt!Cleared, Shunt!WithValue, ShuntReply,
      Shunt!Connections
  <2>5. reader' = Shunt!Overtaken(others) BY <1>5 DEF Shunt!Observe
  <2>6. ShuntTypes' BY <1>1, <1>2, <2>4, <2>5, ShuntOvertakenType DEF ShuntIInv, ShuntTypes
  <2>7. cache'.value # None => ShuntCovered(cache.value)' BY <1>2, <2>2, <2>4 DEF ShuntCovered, ShuntAfter
  <2> HIDE DEF others
  <2>8. QED BY <1>1, <1>3, <2>4, <2>5, <2>6, <2>7, ShuntObserveKeeps
<1>6. QED BY <1>4, <1>5 DEF Shunt!Commit

LEMMA ShuntApplyKeeps ==
  ASSUME ShuntIInv, NEW t \in Shunt!Scanners, scan[t] \in Services \cup {None, "listing", "nothing"}, Shunt!Apply(t)
  PROVE  ShuntIInv'
<1> DEFINE target == IF scan[t] = "nothing" THEN None ELSE scan[t]
<1>1. UNCHANGED <<device, signals>> BY DEF Shunt!Apply
<1>2. target \in Services \cup {None} BY DEF Shunt!Apply
<1>3. ShuntQueueCovers' BY <1>1 DEF ShuntIInv, ShuntQueueCovers, ShuntAfter
<1>4. CASE UNCHANGED <<cache, reader, handled>>
  BY <1>1, <1>3, <1>4 DEF ShuntIInv, ShuntTypes, ShuntNothingFromTheFuture, ShuntDisconnectedHasNone,
    ShuntCacheCovered, ShuntReadsCovered,
    ShuntCovered, ShuntAfter
<1>5. CASE Shunt!Observe([service |-> target, connected |-> None, value |-> None], reader) /\ handled' = 0
  <2>1. cache' = [service |-> target, connected |-> None, value |-> None] /\ reader' = Shunt!Overtaken(reader)
    BY <1>5 DEF Shunt!Observe
  <2> HIDE DEF target
  <2>2. cache' \in [service : Services \cup {None}, connected : Shunt!Connections, value : Nat \cup {None}]
        /\ cache'.value = None
    BY <1>2, <2>1 DEF Shunt!Connections
  <2>3. reader \in [Shunt!Readers -> {None} \cup ShuntRead] BY DEF ShuntIInv, ShuntTypes
  <2>4. ShuntTypes' BY <1>1, <1>5, <2>1, <2>2, <2>3, ShuntOvertakenType DEF ShuntIInv, ShuntTypes
  <2>5. ShuntNothingFromTheFuture' BY <1>1, <1>5 DEF ShuntIInv, ShuntTypes, ShuntNothingFromTheFuture
  <2>6. QED BY <1>3, <2>1, <2>2, <2>3, <2>4, <2>5, ShuntObserveKeeps
<1>6. QED BY <1>4, <1>5 DEF Shunt!Apply

\* Steps of the scans and of the service's health
LEMMA ShuntStillKeeps == ASSUME ShuntIInv, UNCHANGED <<device, signals, cache, reader, handled>> PROVE ShuntIInv'
BY DEF ShuntIInv, ShuntTypes, ShuntNothingFromTheFuture, ShuntQueueCovers, ShuntDisconnectedHasNone,
  ShuntCacheCovered, ShuntReadsCovered, ShuntCovered, ShuntAfter

ShuntScanType == scan \in [Shunt!Scanners -> Services \cup {None, "listing", "nothing"}]

LEMMA ShuntScanKeeps == ASSUME ShuntIInv, ShuntScanType, [Shunt!Next]_Shunt!hvars PROVE ShuntScanType'
<1>1. device.name \in Services \cup {None} BY DEF ShuntIInv, ShuntTypes
<1>2. CASE Shunt!CheckRescan BY <1>2 DEF Shunt!CheckRescan, ShuntScanType, Shunt!Scanners
<1>3. CASE \E t \in Shunt!Scanners : Shunt!List(t) \/ Shunt!Apply(t)
  BY <1>1, <1>3 DEF Shunt!List, Shunt!Apply, ShuntScanType
<1>4. CASE UNCHANGED scan BY <1>4 DEF ShuntScanType
<1>5. QED
  BY <1>2, <1>3, <1>4 DEF Shunt!Next, Shunt!Handle, Shunt!Poll, Shunt!Seed, Shunt!Begin, Shunt!Answer,
    Shunt!Commit, Shunt!Discover, Shunt!BackoffEnds, Shunt!Measures,
    Shunt!ConnectionChanges, Shunt!Leaves, Shunt!Returns, Shunt!hvars

LEMMA ShuntNextKeeps == ASSUME ShuntIInv, ShuntScanType, [Shunt!Next]_Shunt!hvars PROVE ShuntIInv'
<1>1. CASE Shunt!Handle BY <1>1, ShuntHandleKeeps
<1>2. CASE Shunt!Poll \/ Shunt!Seed
  <2>1. PICK r \in Shunt!Readers : Shunt!Begin(r) \/ Shunt!Answer(r) \/ Shunt!Commit(r)
    BY <1>2 DEF Shunt!Poll, Shunt!Seed, Shunt!Readers
  <2>2. QED BY <2>1, ShuntBeginKeeps, ShuntAnswerKeeps, ShuntCommitKeeps
<1>3. CASE Shunt!CheckRescan \/ Shunt!BackoffEnds BY <1>3, ShuntStillKeeps DEF Shunt!CheckRescan, Shunt!BackoffEnds
<1>4. CASE \E t \in Shunt!Scanners : Shunt!List(t) BY <1>4, ShuntStillKeeps DEF Shunt!List
<1>5. CASE \E t \in Shunt!Scanners : Shunt!Apply(t) BY <1>5, ShuntApplyKeeps DEF ShuntScanType
<1>6. CASE Shunt!Measures \/ Shunt!ConnectionChanges \/ Shunt!Leaves \/ Shunt!Returns BY <1>6, ShuntShuntKeeps
<1>7. CASE UNCHANGED Shunt!hvars BY <1>7, ShuntStillKeeps DEF Shunt!hvars
<1>8. QED BY <1>1, <1>2, <1>3, <1>4, <1>5, <1>6, <1>7 DEF Shunt!Next, Shunt!Discover

\* What the SmartShunt last said is never replaced by an older answer, for any
\* services, readers, scans and number of changes, and whichever of signals, rescans
\* and polls overtake one another (_commit_shunt_snapshot, victron.py).
THEOREM ShuntNewestWins == Shunt!Spec => []Shunt!NewestObservationWins
<1>1. ASSUME Shunt!Init PROVE ShuntIInv /\ ShuntScanType
  <2>1. scan = [t \in Shunt!Scanners |-> IF t = "startup" THEN "listing" ELSE None]
    BY <1>1 DEF Shunt!Init, Shunt!Scanners
  <2>2. QED BY <1>1, <2>1, ShuntInitIInv DEF ShuntScanType
<1>2. ShuntIInv /\ ShuntScanType /\ [Shunt!Next]_Shunt!hvars => (ShuntIInv /\ ShuntScanType)'
  BY ShuntNextKeeps, ShuntScanKeeps
<1>3. ShuntIInv => Shunt!NewestObservationWins
  BY DEF ShuntIInv, ShuntCacheCovered, ShuntCovered, Shunt!NewestObservationWins
<1>4. QED BY <1>1, <1>2, <1>3, PTL DEF Shunt!Spec

\* What the client does is, as far as the part goes, what the part does.
LEMMA ShuntRuns == Spec => Shunt!Spec
<1>1. Init => Shunt!Init BY DEF Init
<1>2. [Next]_vars => [Shunt!Next]_Shunt!hvars
  <2> SUFFICES ASSUME [Next]_vars PROVE Shunt!Next \/ UNCHANGED shuntVars
    BY DEF Shunt!hvars, shuntVars
  <2>1. CASE UNCHANGED vars BY <2>1 DEF vars
  <2>2. ASSUME NEW p \in {"grid", "write", "bus", "shunt", "ess", "charge", "reader"}, p # "shunt", Only(p)
        PROVE  UNCHANGED shuntVars
    BY <2>2 DEF Only
  <2>3. QED BY <2>1, <2>2 DEF Next
<1>3. QED BY <1>1, <1>2, PTL DEF Spec, Shunt!Spec

-----------------------------------------------------------------------------
(* The readers of other devices *)

\* The worker's steps (_run), its age and what it has read
ReaderWorkers ==
  [at : {"waiting", "begun", "searched", "connected", "read", "ended"}, age : Reader!Ages,
   power : {None} \cup Reader!Powers]

\* A pass is at least as old as the power it has read: its age counts from its
\* beginning.
ReaderPassIsOlder == worker.power # None => worker.power.age <= worker.age

\* So is what it left, which is gone once the reader is stopped.
ReaderSnapshotIsOlder ==
  snapshot # None =>
    /\ stopping # "cleared"
    /\ snapshot.power # None => snapshot.power.age <= snapshot.age

ReaderIInv == Reader!TypeOK /\ worker \in ReaderWorkers /\ ReaderPassIsOlder /\ ReaderSnapshotIsOlder

LEMMA ReaderMinOfTwo == ASSUME NEW a \in Int, NEW b \in Int PROVE Reader!Min({a, b}) = IF a <= b THEN a ELSE b
<1> DEFINE m == IF a <= b THEN a ELSE b
<1>1. m \in {a, b} /\ \A y \in {a, b} : m <= y OBVIOUS
<1>2. \A x \in {a, b} : (\A y \in {a, b} : x <= y) => x = m OBVIOUS
<1>3. QED BY <1>1, <1>2 DEF Reader!Min

\* One tick older, up to MaxAge
LEMMA ReaderOlderAge ==
  ASSUME NEW age \in Reader!Ages
  PROVE  Reader!Older(age) \in Reader!Ages /\ Reader!Older(age) = IF age < ReaderAge THEN age + 1 ELSE ReaderAge
<1>1. Reader!Older(age) = IF age + 1 <= ReaderAge THEN age + 1 ELSE ReaderAge
  BY ReaderAssumption, ReaderMinOfTwo DEF Reader!Older, Reader!Ages
<1>2. QED BY ReaderAssumption, <1>1 DEF Reader!Ages

LEMMA ReaderGrownPower ==
  ASSUME NEW power \in {None} \cup Reader!Powers
  PROVE  /\ Reader!Grown(power) \in {None} \cup Reader!Powers
         /\ Reader!Grown(power) # None => power # None /\ Reader!Grown(power).age = Reader!Older(power.age)
<1>1. CASE power = None BY <1>1 DEF Reader!Grown
<1>2. CASE power # None
  <2>1. power.age \in Reader!Ages BY <1>2 DEF Reader!Powers
  <2>2. Reader!Older(power.age) \in Reader!Ages BY <2>1, ReaderOlderAge
  <2>3. QED BY <1>2, <2>2 DEF Reader!Grown, Reader!Powers
<1>3. QED BY <1>1, <1>2

LEMMA ReaderInitIInv == ASSUME Reader!Init PROVE ReaderIInv
<1> USE ReaderAssumption DEF Reader!Init
<1>1. worker \in ReaderWorkers BY DEF ReaderWorkers, Reader!Ages
<1>2. Reader!TypeOK
  <2>1. charging \in BOOLEAN OBVIOUS
  <2>2. searched \in 0 .. DiscoveryTtl /\ pause \in 0 .. ReaderInterval /\ roleChanges \in 0 .. RoleChanges
        /\ errors \in 0 .. Errors
    OBVIOUS
  <2>3. QED BY <1>1, <2>1, <2>2 DEF Reader!TypeOK, ReaderWorkers
<1>3. QED BY <1>1, <1>2 DEF ReaderIInv, ReaderPassIsOlder, ReaderSnapshotIsOlder

\* The calls of a pass
LEMMA ReaderCallKeeps ==
  ASSUME ReaderIInv, Reader!Begin \/ Reader!Search \/ Reader!ReadConnected \/ Reader!ReadPower
  PROVE  ReaderIInv'
<1> USE DEF ReaderIInv
<1>1. 0 \in Reader!Ages BY ReaderAssumption DEF Reader!Ages
<1>2. worker' \in ReaderWorkers /\ ReaderPassIsOlder'
  <2>1. CASE Reader!Begin BY <1>1, <2>1 DEF Reader!Begin, ReaderWorkers, ReaderPassIsOlder
  <2>2. CASE Reader!Search BY <2>2 DEF Reader!Search, ReaderWorkers, ReaderPassIsOlder
  <2>3. CASE Reader!ReadConnected BY <2>3 DEF Reader!ReadConnected, ReaderWorkers, ReaderPassIsOlder
  <2>4. CASE Reader!ReadPower
    <3>1. worker'.power \in {None} \cup Reader!Powers BY <1>1, <2>4 DEF Reader!ReadPower, ReaderWorkers, Reader!Powers
    <3>2. worker' \in ReaderWorkers BY <2>4, <3>1 DEF Reader!ReadPower, ReaderWorkers
    <3>3. ReaderPassIsOlder'
      BY ReaderAssumption, <2>4 DEF Reader!ReadPower, ReaderWorkers, ReaderPassIsOlder, Reader!Ages
    <3>4. QED BY <3>2, <3>3
  <2>5. QED BY <2>1, <2>2, <2>3, <2>4
<1>3. searched' \in 0 .. DiscoveryTtl
  BY ReaderAssumption DEF Reader!Begin, Reader!Search, Reader!ReadConnected, Reader!ReadPower, Reader!TypeOK
<1>4. UNCHANGED <<service, charging, pause, snapshot, stopping, roleChanges, errors>>
  BY DEF Reader!Begin, Reader!Search, Reader!ReadConnected, Reader!ReadPower
<1>5. Reader!TypeOK' BY <1>2, <1>3, <1>4 DEF Reader!TypeOK, ReaderWorkers
<1>6. ReaderSnapshotIsOlder' BY <1>4 DEF ReaderSnapshotIsOlder
<1>7. QED BY <1>2, <1>5, <1>6

\* The end of a pass: its snapshot, or none after an error
LEMMA ReaderEndKeeps == ASSUME ReaderIInv, Reader!Publish \/ Reader!Raise PROVE ReaderIInv'
<1> USE DEF ReaderIInv
<1>1. worker' \in ReaderWorkers /\ ReaderPassIsOlder' /\ pause' = 0
  BY ReaderAssumption DEF Reader!Publish, Reader!Raise, Reader!Paused, ReaderWorkers, ReaderPassIsOlder, Reader!Ages
<1>2. snapshot' \in {None, snapshot, [age |-> worker.age, power |-> worker.power]}
      /\ (snapshot' = snapshot \/ snapshot' = None \/ stopping = "no") /\ stopping' = stopping
  BY DEF Reader!Publish, Reader!Raise, Reader!Publishable, Reader!Stamp
<1>3. errors' \in 0 .. Errors BY ReaderAssumption DEF Reader!Publish, Reader!Raise, Reader!TypeOK
<1>4. UNCHANGED <<service, charging, searched, stopping, roleChanges>>
  BY DEF Reader!Publish, Reader!Raise
<1>5. snapshot' \in {None} \cup [age : Reader!Ages, power : {None} \cup Reader!Powers]
  BY <1>2 DEF Reader!TypeOK
<1>6. Reader!TypeOK' BY ReaderAssumption, <1>1, <1>3, <1>4, <1>5 DEF Reader!TypeOK, ReaderWorkers
<1>7. ReaderSnapshotIsOlder' BY <1>2 DEF ReaderSnapshotIsOlder, ReaderPassIsOlder
<1>8. QED BY <1>1, <1>6, <1>7

LEMMA ReaderStopKeeps == ASSUME ReaderIInv, Reader!RequestStop \/ Reader!WorkerEnds PROVE ReaderIInv'
<1> USE DEF ReaderIInv, Reader!RequestStop, Reader!WorkerEnds
<1>1. worker' \in ReaderWorkers /\ ReaderPassIsOlder' BY DEF ReaderWorkers, ReaderPassIsOlder
<1>2. Reader!TypeOK' BY <1>1 DEF Reader!TypeOK, ReaderWorkers
<1>3. ReaderSnapshotIsOlder' BY DEF ReaderSnapshotIsOlder
<1>4. QED BY <1>1, <1>2, <1>3

LEMMA ReaderTickKeeps == ASSUME ReaderIInv, Reader!Tick PROVE ReaderIInv'
<1> USE DEF ReaderIInv
<1>1. worker' \in ReaderWorkers /\ ReaderPassIsOlder'
  <2>1. worker' = [at |-> worker.at, age |-> Reader!Older(worker.age), power |-> Reader!Grown(worker.power)]
    BY DEF Reader!Tick, ReaderWorkers
  <2>2. worker.age \in Reader!Ages /\ worker.power \in {None} \cup Reader!Powers BY DEF ReaderWorkers
  <2>3. worker' \in ReaderWorkers BY <2>1, <2>2, ReaderOlderAge, ReaderGrownPower DEF ReaderWorkers
  <2>4. ASSUME Reader!Grown(worker.power) # None PROVE Reader!Grown(worker.power).age <= Reader!Older(worker.age)
    <3>1. worker.power # None /\ worker.power.age \in Reader!Ages
          /\ Reader!Grown(worker.power).age = Reader!Older(worker.power.age)
      BY <2>2, <2>4, ReaderGrownPower DEF Reader!Powers
    <3>2. worker.power.age <= worker.age BY <3>1 DEF ReaderPassIsOlder
    <3>3. QED BY ReaderAssumption, <2>2, <3>1, <3>2, ReaderOlderAge DEF Reader!Ages
  <2>5. QED BY <2>1, <2>3, <2>4 DEF ReaderPassIsOlder
<1>2. snapshot' \in {None} \cup [age : Reader!Ages, power : {None} \cup Reader!Powers] /\ ReaderSnapshotIsOlder'
  <2>1. CASE snapshot = None BY <2>1 DEF Reader!Tick, ReaderSnapshotIsOlder
  <2>2. CASE snapshot # None
    <3>1. snapshot' = [age |-> Reader!Older(snapshot.age), power |-> Reader!Grown(snapshot.power)]
      BY <2>2 DEF Reader!Tick
    <3>2. snapshot.age \in Reader!Ages /\ snapshot.power \in {None} \cup Reader!Powers BY <2>2 DEF Reader!TypeOK
    <3>3. ASSUME Reader!Grown(snapshot.power) # None
          PROVE  Reader!Grown(snapshot.power).age <= Reader!Older(snapshot.age)
      <4>1. /\ snapshot.power # None /\ snapshot.power.age \in Reader!Ages
            /\ Reader!Grown(snapshot.power).age = Reader!Older(snapshot.power.age)
        BY <3>2, <3>3, ReaderGrownPower DEF Reader!Powers
      <4>2. snapshot.power.age <= snapshot.age BY <2>2, <4>1 DEF ReaderSnapshotIsOlder
      <4>3. QED BY ReaderAssumption, <3>2, <4>1, <4>2, ReaderOlderAge DEF Reader!Ages
    <3>4. snapshot' \in [age : Reader!Ages, power : {None} \cup Reader!Powers]
      BY <3>1, <3>2, ReaderOlderAge, ReaderGrownPower
    <3>5. ReaderSnapshotIsOlder' BY <2>2, <3>1, <3>3 DEF ReaderSnapshotIsOlder, Reader!Tick
    <3>6. QED BY <3>4, <3>5
  <2>3. QED BY <2>1, <2>2
<1>3. searched' \in 0 .. DiscoveryTtl /\ pause' \in 0 .. ReaderInterval
  <2>1. searched + 1 \in Int /\ pause + 1 \in Int /\ DiscoveryTtl \in Nat /\ ReaderInterval \in Nat
    BY ReaderAssumption DEF Reader!TypeOK
  <2>2. searched' = IF searched + 1 <= DiscoveryTtl THEN searched + 1 ELSE DiscoveryTtl
    BY <2>1, ReaderMinOfTwo DEF Reader!Tick
  <2>3. pause' = IF pause + 1 <= ReaderInterval THEN pause + 1 ELSE ReaderInterval
    BY <2>1, ReaderMinOfTwo DEF Reader!Tick
  <2>4. QED BY <2>1, <2>2, <2>3 DEF Reader!TypeOK
<1>4. Reader!TypeOK' BY <1>1, <1>2, <1>3 DEF Reader!Tick, Reader!TypeOK, ReaderWorkers
<1>5. QED BY <1>1, <1>2, <1>4

LEMMA ReaderServiceKeeps == ASSUME ReaderIInv, Reader!ServiceChanges PROVE ReaderIInv'
<1> USE DEF ReaderIInv, Reader!ServiceChanges
<1>1. charging' \in BOOLEAN BY DEF Reader!TypeOK
<1>2. service' \in {"gone", "mute", "charger", "car"} BY DEF Reader!TypeOK
<1>3. roleChanges' \in 0 .. RoleChanges BY ReaderAssumption DEF Reader!TypeOK
<1>4. UNCHANGED <<worker, searched, pause, snapshot, stopping, errors>> OBVIOUS
<1>5. Reader!TypeOK' BY <1>1, <1>2, <1>3, <1>4 DEF Reader!TypeOK
<1>6. ReaderPassIsOlder' /\ ReaderSnapshotIsOlder' BY DEF ReaderPassIsOlder, ReaderSnapshotIsOlder
<1>7. QED BY <1>4, <1>5, <1>6

LEMMA ReaderStutterKeeps == ASSUME ReaderIInv, UNCHANGED Reader!readerVars PROVE ReaderIInv'
BY DEF ReaderIInv, Reader!readerVars, Reader!TypeOK, ReaderPassIsOlder, ReaderSnapshotIsOlder

\* The reader's invariant holds in every reachable state, however long its calls
\* take and whenever it is stopped (BackgroundReader).
THEOREM ReaderInductive == Reader!Spec => []ReaderIInv
<1>1. Reader!Init => ReaderIInv BY ReaderInitIInv
<1>2. ReaderIInv /\ [Reader!Next]_Reader!readerVars => ReaderIInv'
  <2> SUFFICES ASSUME ReaderIInv, [Reader!Next]_Reader!readerVars PROVE ReaderIInv'
    OBVIOUS
  <2>1. CASE Reader!Begin \/ Reader!Search \/ Reader!ReadConnected \/ Reader!ReadPower BY <2>1, ReaderCallKeeps
  <2>2. CASE Reader!Publish \/ Reader!Raise BY <2>2, ReaderEndKeeps
  <2>3. CASE Reader!RequestStop \/ Reader!WorkerEnds BY <2>3, ReaderStopKeeps
  <2>4. CASE Reader!Tick BY <2>4, ReaderTickKeeps
  <2>5. CASE Reader!ServiceChanges BY <2>5, ReaderServiceKeeps
  <2>6. CASE UNCHANGED Reader!readerVars BY <2>6, ReaderStutterKeeps
  <2>7. QED BY <2>1, <2>2, <2>3, <2>4, <2>5, <2>6 DEF Reader!Next, Reader!Pass
<1>3. QED BY <1>1, <1>2, PTL DEF Reader!Spec

\* A power that read() serves is less than max_age old, and none is served by a
\* reader that is stopped, for any ages and intervals (BackgroundReader.read).
THEOREM ReaderServesRecentPower == Reader!Spec => []Reader!ServedIsRecent
<1>1. ReaderIInv => Reader!ServedIsRecent
  <2> SUFFICES ASSUME ReaderIInv, Reader!Served # None PROVE Reader!Served.age < ReaderAge /\ stopping # "cleared"
    BY DEF Reader!ServedIsRecent
  <2>1. snapshot # None /\ snapshot.age < ReaderAge /\ Reader!Served = snapshot.power
    BY ReaderAssumption DEF Reader!Served, ReaderIInv, Reader!TypeOK, Reader!Ages
  <2>2. snapshot.age \in Reader!Ages /\ snapshot.power \in Reader!Powers BY <2>1 DEF ReaderIInv, Reader!TypeOK
  <2>3. snapshot.power.age <= snapshot.age /\ stopping # "cleared" BY <2>1 DEF ReaderIInv, ReaderSnapshotIsOlder
  <2>4. QED BY ReaderAssumption, <2>1, <2>2, <2>3 DEF Reader!Powers, Reader!Ages
<1>2. QED BY <1>1, ReaderInductive, PTL

\* What the client does is, as far as the part goes, what the part does.
LEMMA ReaderRuns == Spec => Reader!Spec
<1>1. Init => Reader!Init BY DEF Init
<1>2. [Next]_vars => [Reader!Next]_Reader!readerVars
  <2> SUFFICES ASSUME [Next]_vars PROVE Reader!Next \/ UNCHANGED readerVars
    BY DEF Reader!readerVars, readerVars
  <2>1. CASE UNCHANGED vars BY <2>1 DEF vars
  <2>2. ASSUME NEW p \in {"grid", "write", "bus", "shunt", "ess", "charge", "reader"}, p # "reader", Only(p)
        PROVE  UNCHANGED readerVars
    BY <2>2 DEF Only
  <2>3. QED BY <2>1, <2>2 DEF Next
<1>3. QED BY <1>1, <1>2, PTL DEF Spec, Reader!Spec

\* A late read neither replaces a newer battery measurement nor passes for a fresh
\* one, for any signals, rescans, calls and ages (victron.py, background_reader.py).
THEOREM MeasuredIsCurrent == Spec => []MeasurementsAreCurrent
<1>1. Shunt!NewestObservationWins /\ Reader!ServedIsRecent => MeasurementsAreCurrent BY DEF MeasurementsAreCurrent
<1>2. QED BY <1>1, ShuntRuns, ShuntNewestWins, ReaderRuns, ReaderServesRecentPower, PTL

-----------------------------------------------------------------------------
(* The choice of the ESS mode *)

\* What one write sets
EssSettings == ({"switch"} \X {"on", "off"}) \cup ({"hub"} \X {1, 3}) \cup ({"life"} \X Ess!Lives)
EssOps == [at : {"idle", "chosen", "writing", "toggle", "toggling"}, request : {None} \cup Requests,
           mode : {None} \cup Ess!Modes, writes : Seq(EssSettings), before : {None} \cup Ess!Devices,
           failed : BOOLEAN]

EssTypes ==
  /\ ess \in Ess!Devices /\ ended \in Nat
  /\ op \in EssOps
  /\ essCache # None => essCache \in [external : BOOLEAN, after : Nat]
  /\ essReading # None => essReading \in [external : BOOLEAN, after : Nat]
  /\ receipt.ended \in Nat /\ receipt.ended <= ended
  /\ published.receipt \in Nat /\ published.after \in Nat

\* _ess_selection_lock is held by who writes or reads, and by one of them at a time.
EssOneUsesTheSettings ==
  /\ op.at \in {"writing", "toggling"} => selectLock = "mqtt" /\ essReading = None
  /\ essReading # None => selectLock # None
  /\ selectLock = "loop" => essLock = "loop" /\ essLoop = None

\* EssSelection._lock is held by a choice until its receipt, and by an observation
\* until it is published.
EssOneUsesTheReceipt ==
  /\ op.at \in {"chosen", "writing"} => essLock = "mqtt"
  /\ essLoop # None => essLock = "loop"

\* No observation in the cache or on its way is from before a choice or a toggle
\* that is over, and none to be published is from before the receipt.
EssObservationsFollow ==
  /\ essCache # None => essCache.after = ended
  /\ essReading # None => essReading.after = ended
  /\ essLoop # None => essLoop \in Nat /\ receipt.ended <= essLoop
  /\ published.receipt <= published.after

\* A choice is at its first write, and the settings are what they were before; or
\* at the second, after the first was accepted.
EssWritesStand ==
  /\ op.at \in {"chosen", "writing"} => op.mode \in Ess!Modes
  /\ op.at \in {"writing", "toggle", "toggling"} => op.writes # <<>>
  /\ op.at = "writing" =>
       \/ op.writes = Ess!Writes(op.mode) /\ (op.before # None => op.before = ess)
       \/ /\ op.mode \in Ess!Lives /\ op.writes = << <<"hub", 1>> >>
          /\ op.before # None => op.before \in Ess!Devices /\ ess = [op.before EXCEPT !.life = op.mode]

EssIInv == EssTypes /\ EssOneUsesTheSettings /\ EssOneUsesTheReceipt /\ EssObservationsFollow /\ EssWritesStand

LEMMA EssInitIInv == ASSUME Ess!Init PROVE EssIInv
<1>1. Ess!Resting \in EssOps BY DEF Ess!Resting, EssOps
<1>2. EssTypes BY <1>1 DEF Ess!Init, EssTypes, Ess!Devices, Ess!Lives
<1>3. op.at = "idle" BY DEF Ess!Init, Ess!Resting
<1>4. QED
  BY <1>2, <1>3 DEF Ess!Init, EssIInv, EssOneUsesTheSettings, EssOneUsesTheReceipt, EssObservationsFollow,
    EssWritesStand

\* A step that moves the MQTT thread alone
LEMMA EssOpMoves ==
  ASSUME EssIInv, UNCHANGED <<ess, selectLock, essReading, essCache, ended, essLoop, published>>, op' \in EssOps,
         op.at \notin {"writing", "toggling"}, op'.at \in {"idle", "chosen", "toggle"},
         op'.at = "chosen" => op'.mode \in Ess!Modes /\ essLock' = "mqtt", op'.at = "toggle" => op'.writes # <<>>,
         receipt' = receipt \/ (essLoop = None /\ receipt'.ended = ended),
         essLoop # None => essLock' = "loop", selectLock = "loop" => essLock' = "loop"
  PROVE  EssIInv'
<1>1. EssTypes' BY DEF EssIInv, EssTypes
<1>2. EssOneUsesTheSettings' BY DEF EssIInv, EssOneUsesTheSettings
<1>3. EssOneUsesTheReceipt' BY DEF EssIInv, EssOneUsesTheReceipt
<1>4. EssObservationsFollow' BY DEF EssIInv, EssObservationsFollow
<1>5. EssWritesStand' BY DEF EssIInv, EssWritesStand
<1>6. QED BY <1>1, <1>2, <1>3, <1>4, <1>5 DEF EssIInv

LEMMA EssTakeKeeps == ASSUME EssIInv, NEW r \in Requests, NEW mode \in Ess!Modes, Ess!Take(r, mode) PROVE EssIInv'
<1>1. op' \in EssOps /\ op'.at = "chosen" /\ op'.mode = mode
  <2>1. op' = [at |-> "chosen", request |-> r, mode |-> mode, writes |-> <<>>, before |-> None, failed |-> FALSE]
    BY DEF Ess!Take, Ess!Resting
  <2>2. QED BY <2>1 DEF EssOps
<1>2. essLoop = None /\ selectLock # "loop"
  BY EssAssumption DEF Ess!Take, EssIInv, EssOneUsesTheReceipt, EssOneUsesTheSettings
<1>3. op.at = "idle" BY DEF Ess!Take, Ess!Idle
<1>4. QED BY <1>1, <1>2, <1>3, EssOpMoves DEF Ess!Take

LEMMA EssRefuseKeeps == ASSUME EssIInv, Ess!Refuse PROVE EssIInv'
<1>1. op' \in EssOps /\ op'.at = "idle" BY DEF Ess!Refuse, Ess!Resting, EssOps
<1>2. essLock = "mqtt" BY DEF Ess!Refuse, EssIInv, EssOneUsesTheReceipt
<1>3. essLoop = None /\ selectLock # "loop" BY <1>2 DEF EssIInv, EssOneUsesTheReceipt, EssOneUsesTheSettings
<1>4. receipt'.ended = ended BY DEF Ess!Refuse, Ess!Answer
<1>5. QED BY <1>1, <1>3, <1>4, EssOpMoves DEF Ess!Refuse

LEMMA EssToggleSeesKeeps == ASSUME EssIInv, Ess!ToggleSees PROVE EssIInv'
<1> DEFINE direct == << <<"hub", 1>>, <<"life", "without">> >>
           external == << <<"hub", 3>> >>
<1>1. <<"hub", 1>> \in EssSettings /\ <<"life", "without">> \in EssSettings /\ <<"hub", 3>> \in EssSettings
  BY DEF EssSettings, Ess!Lives
<1>2. direct \in Seq(EssSettings) /\ direct # <<>> /\ external \in Seq(EssSettings) /\ external # <<>> BY <1>1
<1>3. PICK writes \in {direct, external} : op' = [Ess!Resting EXCEPT !.at = "toggle", !.writes = writes]
  BY DEF Ess!ToggleSees
<1> HIDE DEF direct, external
<1>4. op' \in EssOps /\ op'.at = "toggle" /\ op'.writes # <<>> BY <1>2, <1>3 DEF Ess!Resting, EssOps
<1>5. op.at = "idle" BY DEF Ess!ToggleSees, Ess!Idle
<1>6. QED BY <1>4, <1>5, EssOpMoves DEF Ess!ToggleSees, EssIInv, EssOneUsesTheSettings, EssOneUsesTheReceipt

\* One write, and two
LEMMA EssSeqOfWrites ==
  ASSUME NEW v \in EssSettings, NEW w \in EssSettings
  PROVE  /\ <<v>> \in Seq(EssSettings) /\ <<v>> # <<>> /\ Len(<<v>>) = 1 /\ Head(<<v>>) = v
         /\ <<v, w>> \in Seq(EssSettings) /\ <<v, w>> # <<>> /\ Head(<<v, w>>) = v /\ Tail(<<v, w>>) = <<w>>
<1>1. <<v>> \in Seq(EssSettings) /\ <<v>> # <<>> /\ Len(<<v>>) = 1 /\ Head(<<v>>) = v OBVIOUS
<1>2. <<v, w>> \in Seq(EssSettings) /\ <<v, w>> # <<>> /\ Head(<<v, w>>) = v OBVIOUS
<1>3. Tail(<<v, w>>) = <<w>> OBVIOUS
<1>4. QED BY <1>1, <1>2, <1>3

\* The writes of a choice
LEMMA EssWritesAre ==
  ASSUME NEW mode \in Ess!Modes
  PROVE  /\ Ess!Writes(mode) \in Seq(EssSettings) /\ Ess!Writes(mode) # <<>>
         /\ mode \in {"on", "off"} => Ess!Writes(mode) = << <<"switch", mode>> >>
         /\ mode = "external" => Ess!Writes(mode) = << <<"hub", 3>> >>
         /\ mode \in Ess!Lives => Ess!Writes(mode) = << <<"life", mode>>, <<"hub", 1>> >>
<1>1. mode \in {"on", "off"} => Ess!Writes(mode) = << <<"switch", mode>> >> BY DEF Ess!Writes
<1>2. mode = "external" => Ess!Writes(mode) = << <<"hub", 3>> >> BY DEF Ess!Writes
<1>3. mode \in Ess!Lives => Ess!Writes(mode) = << <<"life", mode>>, <<"hub", 1>> >> BY DEF Ess!Writes, Ess!Lives
<1>4. mode \in {"on", "off"} => <<"switch", mode>> \in EssSettings BY DEF EssSettings
<1>5. <<"hub", 3>> \in EssSettings /\ <<"hub", 1>> \in EssSettings BY DEF EssSettings
<1>6. mode \in Ess!Lives => <<"life", mode>> \in EssSettings BY DEF EssSettings
<1>7. Ess!Writes(mode) \in Seq(EssSettings) /\ Ess!Writes(mode) # <<>>
  <2>1. CASE mode \in {"on", "off"} BY <1>1, <1>4, <2>1, EssSeqOfWrites
  <2>2. CASE mode = "external" BY <1>2, <1>5, <2>2, EssSeqOfWrites
  <2>3. CASE mode \in Ess!Lives
    <3>1. Ess!Writes(mode) = << <<"life", mode>>, <<"hub", 1>> >> BY <1>3, <2>3
    <3>2. <<"life", mode>> \in EssSettings /\ <<"hub", 1>> \in EssSettings BY <1>5, <1>6, <2>3
    <3>3. /\ << <<"life", mode>>, <<"hub", 1>> >> \in Seq(EssSettings)
          /\ << <<"life", mode>>, <<"hub", 1>> >> # <<>>
      BY <3>2, EssSeqOfWrites
    <3>4. QED BY <3>1, <3>3
  <2>4. QED BY <2>1, <2>2, <2>3 DEF Ess!Modes
<1>8. QED BY <1>1, <1>2, <1>3, <1>7

\* A writer begins: it takes the lock, and nothing else moves.
LEMMA EssWriterBegins ==
  ASSUME EssIInv, UNCHANGED <<ess, receipt, essLock, essReading, essCache, ended, essLoop, published>>,
         selectLock = None, selectLock' = "mqtt", op' \in EssOps, op'.at \in {"writing", "toggling"},
         op'.at = "writing" => op.at = "chosen", op'.writes # <<>>, EssWritesStand'
  PROVE  EssIInv'
<1>1. EssTypes' BY DEF EssIInv, EssTypes
<1>2. EssOneUsesTheSettings' BY DEF EssIInv, EssOneUsesTheSettings
<1>3. EssOneUsesTheReceipt' BY DEF EssIInv, EssOneUsesTheReceipt
<1>4. EssObservationsFollow' BY DEF EssIInv, EssObservationsFollow
<1>5. QED BY <1>1, <1>2, <1>3, <1>4 DEF EssIInv

LEMMA EssPlanKeeps == ASSUME EssIInv, Ess!Plan PROVE EssIInv'
<1>1. op \in EssOps /\ op.at = "chosen" /\ ess \in Ess!Devices /\ op.mode \in Ess!Modes
  BY DEF Ess!Plan, EssIInv, EssTypes, EssWritesStand
<1>2. Ess!Writes(op.mode) \in Seq(EssSettings) /\ Ess!Writes(op.mode) # <<>> BY <1>1, EssWritesAre
<1>3. op' \in EssOps /\ op'.at = "writing" /\ op'.mode = op.mode /\ op'.writes = Ess!Writes(op.mode)
      /\ op'.before = ess
  BY <1>1, <1>2 DEF Ess!Plan, EssOps
<1>4. EssWritesStand' BY <1>1, <1>2, <1>3 DEF Ess!Plan, EssWritesStand
<1>5. QED BY <1>1, <1>2, <1>3, <1>4, EssWriterBegins DEF Ess!Plan

LEMMA EssToggleLocksKeeps == ASSUME EssIInv, Ess!ToggleLocks PROVE EssIInv'
<1>1. op \in EssOps /\ op.at = "toggle" /\ op.writes # <<>> BY DEF Ess!ToggleLocks, EssIInv, EssTypes, EssWritesStand
<1>2. op' \in EssOps /\ op'.at = "toggling" /\ op'.writes = op.writes BY <1>1 DEF Ess!ToggleLocks, EssOps
<1>3. EssWritesStand' BY <1>1, <1>2 DEF EssWritesStand
<1>4. QED BY <1>1, <1>2, <1>3, EssWriterBegins DEF Ess!ToggleLocks

\* A write sets one setting, or none.
LEMMA EssAttemptType ==
  ASSUME ess \in Ess!Devices, NEW w \in EssSettings, NEW accepted \in BOOLEAN, Ess!Attempt(w, accepted)
  PROVE  ess' \in Ess!Devices
<1>1. CASE ess' = ess BY <1>1
<1>2. CASE ess' = [ess EXCEPT ![w[1]] = w[2]]
  <2>1. CASE w \in {"switch"} \X {"on", "off"} BY <1>2, <2>1 DEF Ess!Devices
  <2>2. CASE w \in {"hub"} \X {1, 3} BY <1>2, <2>2 DEF Ess!Devices
  <2>3. CASE w \in {"life"} \X Ess!Lives BY <1>2, <2>3 DEF Ess!Devices
  <2>4. QED BY <2>1, <2>2, <2>3 DEF EssSettings
<1>3. QED BY <1>1, <1>2 DEF Ess!Attempt

\* The first write of two, and what is left
LEMMA EssFirstWrite ==
  ASSUME NEW s \in Seq(EssSettings), s # <<>>
  PROVE  /\ Head(s) \in EssSettings
         /\ Len(s) > 1 => Tail(s) \in Seq(EssSettings) /\ Tail(s) # <<>>
<1>1. Len(s) \in Nat /\ Len(s) # 0 OBVIOUS
<1>2. Head(s) \in EssSettings BY <1>1
<1>3. Tail(s) \in Seq(EssSettings) /\ Len(Tail(s)) = Len(s) - 1 BY <1>1
<1>4. Len(<<>>) = 0 OBVIOUS
<1>5. ASSUME Len(s) > 1 PROVE Tail(s) # <<>>
  <2>1. ASSUME NEW n \in Nat, n > 1 PROVE n - 1 # 0 BY <2>1
  <2>2. Len(s) - 1 # 0 BY <1>1, <1>5, <2>1
  <2>3. QED BY <1>3, <1>4, <2>2
<1>6. QED BY <1>2, <1>3, <1>5

\* The last write is over: the locks are free and the cache is empty.
LEMMA EssWriterEnds ==
  ASSUME EssIInv, op.at \in {"writing", "toggling"}, Ess!WritesOver, op' = Ess!Resting, ess' \in Ess!Devices,
         UNCHANGED <<essReading, essLoop, published>>, essLoop # None => receipt' = receipt /\ essLock' = essLock,
         receipt' = receipt \/ receipt'.ended = ended + 1
  PROVE  EssIInv'
<1> USE DEF Ess!WritesOver, Ess!Forget
<1>1. op' \in EssOps /\ op'.at = "idle" BY DEF Ess!Resting, EssOps
<1>2. EssTypes' BY <1>1 DEF EssIInv, EssTypes
<1>3. EssOneUsesTheSettings' BY EssAssumption, <1>1 DEF EssIInv, EssOneUsesTheSettings
<1>4. EssOneUsesTheReceipt' BY <1>1 DEF EssIInv, EssOneUsesTheReceipt
<1>5. EssObservationsFollow' BY DEF EssIInv, EssObservationsFollow, EssOneUsesTheSettings
<1>6. EssWritesStand' BY <1>1 DEF EssWritesStand
<1>7. QED BY <1>2, <1>3, <1>4, <1>5, <1>6 DEF EssIInv

\* One write is accepted, and the writer goes on to the next.
LEMMA EssWriterGoesOn ==
  ASSUME EssIInv, op.at \in {"writing", "toggling"}, op' \in EssOps, op'.at = op.at, op'.writes # <<>>,
         ess' \in Ess!Devices, EssWritesStand',
         UNCHANGED <<receipt, essLock, selectLock, essCache, ended, essReading, essLoop, published>>
  PROVE  EssIInv'
<1>1. EssTypes' BY DEF EssIInv, EssTypes
<1>2. EssOneUsesTheSettings' BY DEF EssIInv, EssOneUsesTheSettings
<1>3. EssOneUsesTheReceipt' BY DEF EssIInv, EssOneUsesTheReceipt
<1>4. EssObservationsFollow' BY DEF EssIInv, EssObservationsFollow
<1>5. QED BY <1>1, <1>2, <1>3, <1>4 DEF EssIInv

LEMMA EssSelectWritesKeeps == ASSUME EssIInv, NEW accepted \in BOOLEAN, Ess!SelectWrites(accepted) PROVE EssIInv'
<1>1. op \in EssOps /\ op.at = "writing" /\ op.mode \in Ess!Modes /\ op.writes \in Seq(EssSettings)
      /\ op.writes # <<>>
      /\ ess \in Ess!Devices
  BY DEF Ess!SelectWrites, EssIInv, EssTypes, EssWritesStand, EssOps
<1>2. ess' \in Ess!Devices BY <1>1, EssFirstWrite, EssAttemptType DEF Ess!SelectWrites
<1>3. CASE accepted /\ Len(op.writes) > 1
  <2>1. op.mode \in Ess!Lives /\ op.writes = << <<"life", op.mode>>, <<"hub", 1>> >>
        /\ op.writes = Ess!Writes(op.mode)
    <3>1. CASE op.writes = << <<"hub", 1>> >> BY <1>3, <3>1
    <3>2. CASE op.writes = Ess!Writes(op.mode)
      <4>1. Len(<< <<"switch", op.mode>> >>) = 1 /\ Len(<< <<"hub", 3>> >>) = 1 OBVIOUS
      <4>2. op.mode \notin {"on", "off"} /\ op.mode # "external" BY <1>1, <1>3, <3>2, <4>1, EssWritesAre
      <4>3. op.mode \in Ess!Lives BY <1>1, <4>2 DEF Ess!Modes
      <4>4. QED BY <1>1, <3>2, <4>3, EssWritesAre
    <3>3. QED BY <1>1, <3>1, <3>2 DEF EssIInv, EssWritesStand
  <2>2. op' = [op EXCEPT !.writes = Tail(@)] BY <1>3 DEF Ess!SelectWrites
  <2>3. Tail(op.writes) \in Seq(EssSettings) /\ Tail(op.writes) = << <<"hub", 1>> >>
    BY <1>1, <1>3, <2>1, EssFirstWrite
  <2>4. op' \in EssOps /\ op'.at = op.at /\ op'.writes = << <<"hub", 1>> >> /\ op'.mode = op.mode
        /\ op'.before = op.before
    BY <1>1, <2>2, <2>3 DEF EssOps
  <2>5. << <<"hub", 1>> >> # <<>> OBVIOUS
  <2>6. ASSUME op.before # None PROVE op.before \in Ess!Devices /\ ess' = [op.before EXCEPT !.life = op.mode]
    <3>1. op.before = ess \/ (op.writes = << <<"hub", 1>> >>)
      BY <1>1, <2>6 DEF EssIInv, EssWritesStand
    <3>2. ASSUME op.writes = << <<"hub", 1>> >> PROVE FALSE
      <4>1. Len(op.writes) = 1 BY <3>2
      <4>2. ~(Len(op.writes) > 1) BY <4>1
      <4>3. QED BY <1>3, <4>2
    <3>3. op.before = ess BY <3>1, <3>2
    <3>4. Head(op.writes) = <<"life", op.mode>> BY <2>1
    <3>5. ess' = [ess EXCEPT !.life = op.mode] BY <1>3, <3>4 DEF Ess!SelectWrites, Ess!Attempt
    <3>6. QED BY <1>1, <3>3, <3>5
  <2>7. EssWritesStand' BY <1>1, <2>1, <2>4, <2>5, <2>6 DEF EssWritesStand
  <2>8. QED BY <1>1, <1>2, <1>3, <2>4, <2>5, <2>7, EssWriterGoesOn DEF Ess!SelectWrites
<1>4. CASE ~(accepted /\ Len(op.writes) > 1)
  <2>1. Ess!WritesOver /\ op' = Ess!Resting /\ receipt'.ended = ended + 1 BY <1>4 DEF Ess!SelectWrites, Ess!Answer
  <2>2. essLoop = None BY <1>1 DEF EssIInv, EssOneUsesTheReceipt
  <2>3. QED BY <1>1, <1>2, <2>1, <2>2, EssWriterEnds DEF Ess!SelectWrites
<1>5. QED BY <1>3, <1>4

LEMMA EssToggleWritesKeeps == ASSUME EssIInv, NEW accepted \in BOOLEAN, Ess!ToggleWrites(accepted) PROVE EssIInv'
<1>1. op \in EssOps /\ op.at = "toggling" /\ op.writes \in Seq(EssSettings) /\ op.writes # <<>> /\ ess \in Ess!Devices
  BY DEF Ess!ToggleWrites, EssIInv, EssTypes, EssWritesStand, EssOps
<1>2. ess' \in Ess!Devices BY <1>1, EssFirstWrite, EssAttemptType DEF Ess!ToggleWrites
<1>3. CASE Len(op.writes) > 1
  <2>1. Tail(op.writes) \in Seq(EssSettings) /\ Tail(op.writes) # <<>> BY <1>1, <1>3, EssFirstWrite
  <2>2. op' = [op EXCEPT !.writes = Tail(@)] BY <1>3 DEF Ess!ToggleWrites
  <2>3. op' \in EssOps /\ op'.at = "toggling" /\ op'.writes # <<>> BY <1>1, <2>1, <2>2 DEF EssOps
  <2>4. EssWritesStand' BY <2>3 DEF EssWritesStand
  <2>5. QED BY <1>1, <1>2, <1>3, <2>3, <2>4, EssWriterGoesOn DEF Ess!ToggleWrites
<1>4. CASE ~(Len(op.writes) > 1)
  <2>1. Ess!WritesOver /\ op' = Ess!Resting BY <1>4 DEF Ess!ToggleWrites
  <2>2. QED BY <1>1, <1>2, <2>1, EssWriterEnds DEF Ess!ToggleWrites
<1>5. QED BY <1>3, <1>4

-----------------------------------------------------------------------------
(* Observations *)

LEMMA EssReadBeginsKeeps == ASSUME EssIInv, NEW t \in Ess!Readers, Ess!ReadBegins(t) PROVE EssIInv'
<1>1. PICK external \in {ess.hub = 3, FALSE} : essReading' = [external |-> external, after |-> ended]
  BY DEF Ess!ReadBegins
<1>2. essReading' \in [external : BOOLEAN, after : Nat] /\ essReading'.after = ended BY <1>1 DEF EssIInv, EssTypes
<1>3. selectLock = None /\ selectLock' = t /\ t \in {"mqtt", "loop", "poll"}
  BY DEF Ess!ReadBegins, Ess!MayRead, Ess!Readers
<1>4. op.at \notin {"writing", "toggling"} BY EssAssumption, <1>3 DEF EssIInv, EssOneUsesTheSettings
<1>5. t = "loop" => essLock = None BY DEF Ess!ReadBegins
<1>6. EssTypes' BY <1>2 DEF Ess!ReadBegins, EssIInv, EssTypes
<1>7. EssOneUsesTheSettings'
  <2>1. ASSUME t = "loop" PROVE essLock' = "loop" /\ essLoop' = None
    <3>1. essLock' = (IF t = "loop" THEN t ELSE essLock) /\ essLoop' = essLoop BY DEF Ess!ReadBegins
    <3>2. essLoop = None BY EssAssumption, <1>5, <2>1 DEF EssIInv, EssOneUsesTheReceipt
    <3>3. QED BY <2>1, <3>1, <3>2
  <2>2. QED BY EssAssumption, <1>3, <1>4, <2>1 DEF Ess!ReadBegins, EssOneUsesTheSettings
<1>8. EssOneUsesTheReceipt'
  <2>1. op' = op /\ essLoop' = essLoop /\ essLock' = IF t = "loop" THEN t ELSE essLock BY DEF Ess!ReadBegins
  <2>2. QED BY EssAssumption, <1>5, <2>1 DEF EssIInv, EssOneUsesTheReceipt
<1>9. EssObservationsFollow' BY <1>2 DEF Ess!ReadBegins, EssIInv, EssObservationsFollow
<1>10. EssWritesStand' BY DEF Ess!ReadBegins, EssIInv, EssWritesStand
<1>11. QED BY <1>6, <1>7, <1>8, <1>9, <1>10 DEF EssIInv

LEMMA EssReadEndsKeeps == ASSUME EssIInv, Ess!ReadEnds PROVE EssIInv'
<1> USE DEF Ess!ReadEnds
<1>1. essReading \in [external : BOOLEAN, after : Nat] /\ essReading.after = ended
  BY DEF EssIInv, EssTypes, EssObservationsFollow
<1>2. op.at \notin {"writing", "toggling"} BY DEF EssIInv, EssOneUsesTheSettings
<1>3. EssTypes' BY <1>1 DEF EssIInv, EssTypes
<1>4. EssOneUsesTheSettings' BY EssAssumption, <1>2 DEF EssIInv, EssOneUsesTheSettings
<1>5. EssOneUsesTheReceipt' BY DEF EssIInv, EssOneUsesTheReceipt, EssOneUsesTheSettings
<1>6. EssObservationsFollow' BY <1>1 DEF EssIInv, EssObservationsFollow, EssTypes
<1>7. EssWritesStand' BY DEF EssIInv, EssWritesStand
<1>8. QED BY <1>3, <1>4, <1>5, <1>6, <1>7 DEF EssIInv

LEMMA EssObserveCachedKeeps == ASSUME EssIInv, Ess!ObserveCached PROVE EssIInv'
<1> USE DEF Ess!ObserveCached, Ess!MayObserve
<1>1. essCache.after = ended /\ ended \in Nat /\ receipt.ended <= ended
  BY DEF EssIInv, EssTypes, EssObservationsFollow
<1>2. EssTypes' BY DEF EssIInv, EssTypes
<1>3. EssOneUsesTheSettings' BY EssAssumption DEF EssIInv, EssOneUsesTheSettings
<1>4. EssOneUsesTheReceipt' BY EssAssumption DEF EssIInv, EssOneUsesTheReceipt
<1>5. EssObservationsFollow' BY <1>1 DEF EssIInv, EssObservationsFollow
<1>6. EssWritesStand' BY DEF EssIInv, EssWritesStand
<1>7. QED BY <1>2, <1>3, <1>4, <1>5, <1>6 DEF EssIInv

LEMMA EssObserveEndsKeeps == ASSUME EssIInv, Ess!ObserveEnds PROVE EssIInv'
<1> USE DEF Ess!ObserveEnds
<1>1. essLoop \in Nat /\ receipt.ended <= essLoop /\ essLock = "loop"
  BY DEF EssIInv, EssObservationsFollow, EssOneUsesTheReceipt
<1>2. selectLock # "loop" BY DEF EssIInv, EssOneUsesTheSettings
<1>3. EssTypes' BY <1>1 DEF EssIInv, EssTypes
<1>4. EssOneUsesTheSettings' BY <1>2 DEF EssIInv, EssOneUsesTheSettings
<1>5. EssOneUsesTheReceipt' BY <1>1 DEF EssIInv, EssOneUsesTheReceipt
<1>6. EssObservationsFollow' BY <1>1 DEF EssIInv, EssObservationsFollow
<1>7. EssWritesStand' BY DEF EssIInv, EssWritesStand
<1>8. QED BY <1>3, <1>4, <1>5, <1>6, <1>7 DEF EssIInv

LEMMA EssOthersChangeKeeps == ASSUME EssIInv, NEW new \in Ess!Devices, Ess!OthersChange(new) PROVE EssIInv'
<1>1. op \in EssOps BY DEF EssIInv, EssTypes
<1>2. op' \in EssOps /\ op'.at = op.at /\ op'.mode = op.mode /\ op'.writes = op.writes /\ op'.before = None
  BY <1>1 DEF Ess!OthersChange, EssOps
<1>3. EssTypes' BY <1>2 DEF Ess!OthersChange, EssIInv, EssTypes
<1>4. EssOneUsesTheSettings' BY <1>2 DEF Ess!OthersChange, EssIInv, EssOneUsesTheSettings
<1>5. EssOneUsesTheReceipt' BY <1>2 DEF Ess!OthersChange, EssIInv, EssOneUsesTheReceipt
<1>6. EssObservationsFollow' BY DEF Ess!OthersChange, EssIInv, EssObservationsFollow
<1>7. EssWritesStand' BY <1>2 DEF EssIInv, EssWritesStand
<1>8. QED BY <1>3, <1>4, <1>5, <1>6, <1>7 DEF EssIInv

LEMMA EssStutterKeeps == ASSUME EssIInv, UNCHANGED Ess!evars PROVE EssIInv'
BY DEF EssIInv, Ess!evars, EssTypes, EssOneUsesTheSettings, EssOneUsesTheReceipt, EssObservationsFollow,
  EssWritesStand

\* The invariant of the choice holds in every reachable state, whichever of the
\* three threads holds which lock, and whatever writes fail and others change
\* (EssSelection.apply and observe, ess_modes.py; select_ess_mode, victron.py).
THEOREM EssInductive == Ess!Spec => []EssIInv
<1>1. Ess!Init => EssIInv BY EssInitIInv
<1>2. EssIInv /\ [Ess!Next]_Ess!evars => EssIInv'
  BY EssTakeKeeps, EssRefuseKeeps, EssPlanKeeps, EssToggleSeesKeeps, EssToggleLocksKeeps, EssSelectWritesKeeps,
     EssToggleWritesKeeps, EssReadBeginsKeeps, EssReadEndsKeeps, EssObserveCachedKeeps, EssObserveEndsKeeps,
     EssOthersChangeKeeps, EssStutterKeeps
  DEF Ess!Next
<1>3. QED BY <1>1, <1>2, PTL DEF Ess!Spec

\* What is published with the receipt of a choice was observed after its writes,
\* for any requests and any number of choices and toggles (EssSelection.observe).
THEOREM EssReceiptMatches == Ess!Spec => []Ess!ReceiptMatchesObservation
<1>1. EssIInv => Ess!ReceiptMatchesObservation
  BY DEF EssIInv, EssTypes, EssObservationsFollow, Ess!ReceiptMatchesObservation
<1>2. QED BY <1>1, EssInductive, PTL

\* From a state of the invariant, what a choice writes is the old mode or the new.
LEMMA EssStepIsDirect ==
  ASSUME EssIInv, [Ess!Next]_Ess!evars, op.at = "writing", op.before # None, op' = Ess!Resting \/ op'.before # None
  PROVE  /\ ess'.switch \in {op.before.switch, op.mode}
         /\ Ess!Profile(ess') \in {Ess!Profile(op.before), op.mode}
<1>1. op.mode \in Ess!Modes /\ ess \in Ess!Devices BY DEF EssIInv, EssTypes, EssWritesStand
<1>2. \/ op.writes = Ess!Writes(op.mode) /\ op.before = ess
      \/ op.mode \in Ess!Lives /\ op.writes = << <<"hub", 1>> >> /\ op.before \in Ess!Devices
         /\ ess = [op.before EXCEPT !.life = op.mode]
  BY DEF EssIInv, EssWritesStand
<1>3. CASE ess' = ess
  BY <1>1, <1>2, <1>3 DEF Ess!Profile, Ess!Devices, Ess!Lives
<1>4. ASSUME NEW accepted \in BOOLEAN, Ess!SelectWrites(accepted), ess' # ess
      PROVE  /\ ess'.switch \in {op.before.switch, op.mode}
             /\ Ess!Profile(ess') \in {Ess!Profile(op.before), op.mode}
  <2>1. ess' = [ess EXCEPT ![Head(op.writes)[1]] = Head(op.writes)[2]]
    BY <1>4 DEF Ess!SelectWrites, Ess!Attempt
  <2>2. CASE op.writes = Ess!Writes(op.mode) /\ op.before = ess
    <3>1. CASE op.mode \in {"on", "off"}
      <4>1. Head(op.writes) = <<"switch", op.mode>> BY <1>1, <2>2, <3>1, EssWritesAre
      <4>2. ess' = [ess EXCEPT !.switch = op.mode]
        <5>1. Head(op.writes)[1] = "switch" /\ Head(op.writes)[2] = op.mode BY <4>1
        <5>2. QED BY <2>1, <5>1
      <4>3. QED BY <1>1, <2>2, <4>2 DEF Ess!Devices, Ess!Profile
    <3>2. CASE op.mode = "external"
      <4>1. Head(op.writes) = <<"hub", 3>> BY <1>1, <2>2, <3>2, EssWritesAre
      <4>2. ess' = [ess EXCEPT !.hub = 3]
        <5>1. Head(op.writes)[1] = "hub" /\ Head(op.writes)[2] = 3 BY <4>1
        <5>2. QED BY <2>1, <5>1
      <4>3. QED BY <1>1, <2>2, <3>2, <4>2 DEF Ess!Devices, Ess!Profile
    <3>3. CASE op.mode \in Ess!Lives
      <4>1. Head(op.writes) = <<"life", op.mode>> BY <1>1, <2>2, <3>3, EssWritesAre
      <4>2. ess' = [ess EXCEPT !.life = op.mode]
        <5>1. Head(op.writes)[1] = "life" /\ Head(op.writes)[2] = op.mode BY <4>1
        <5>2. QED BY <2>1, <5>1
      <4>3. QED BY <1>1, <2>2, <4>2 DEF Ess!Devices, Ess!Profile
    <3>4. QED BY <1>1, <3>1, <3>2, <3>3 DEF Ess!Modes
  <2>3. CASE op.mode \in Ess!Lives /\ op.writes = << <<"hub", 1>> >> /\ op.before \in Ess!Devices
             /\ ess = [op.before EXCEPT !.life = op.mode]
    <3>1. Head(op.writes) = <<"hub", 1>> BY <2>3
    <3>2. ess' = [ess EXCEPT !.hub = 1]
      <4>1. Head(op.writes)[1] = "hub" /\ Head(op.writes)[2] = 1 BY <3>1
      <4>2. QED BY <2>1, <4>1
    <3>3. ess'.switch = op.before.switch /\ ess'.hub = 1 /\ ess'.life = op.mode
      BY <1>1, <2>3, <3>2 DEF Ess!Devices
    <3>4. QED BY <3>3 DEF Ess!Profile
  <2>4. QED BY <1>2, <2>2, <2>3
<1>5. ASSUME NEW new \in Ess!Devices, Ess!OthersChange(new) PROVE ess' = ess
  <2>1. op \in EssOps BY DEF EssIInv, EssTypes
  <2>2. op'.at = "writing" /\ op'.before = None BY <1>5, <2>1 DEF Ess!OthersChange, EssOps
  <2>3. Ess!Resting.at = "idle" BY DEF Ess!Resting
  <2>4. QED BY <2>2, <2>3
<1>6. ASSUME ~\E accepted \in BOOLEAN : Ess!SelectWrites(accepted), ess' # ess PROVE FALSE
  <2>1. \A accepted \in BOOLEAN : ~Ess!ToggleWrites(accepted) BY DEF Ess!ToggleWrites
  <2>2. QED
    BY <1>5, <1>6, <2>1
    DEF Ess!Next, Ess!evars, Ess!Take, Ess!Refuse, Ess!Plan, Ess!ToggleSees, Ess!ToggleLocks, Ess!ReadBegins,
         Ess!ReadEnds, Ess!ObserveCached, Ess!ObserveEnds
<1>7. QED BY <1>3, <1>4, <1>6

\* A choice leads from the old mode to the chosen one and through no third,
\* whichever of its writes fails or goes unanswered, unless others change the
\* settings meanwhile (_ess_mode_writes and select_ess_mode, victron.py).
THEOREM EssChoiceIsDirect == Ess!Spec => Ess!SelectionIsDirect
<1>1. EssIInv /\ [Ess!Next]_Ess!evars
        => [op.at = "writing" /\ op.before # None /\ (op' = Ess!Resting \/ op'.before # None)
              => /\ ess'.switch \in {op.before.switch, op.mode}
                 /\ Ess!Profile(ess') \in {Ess!Profile(op.before), op.mode}]_Ess!evars
  BY EssStepIsDirect
<1>2. QED BY <1>1, EssInductive, PTL DEF Ess!Spec, Ess!SelectionIsDirect

\* What the client does is, as far as the part goes, what the part does.
LEMMA EssRuns == Spec => Ess!Spec
<1>1. Init => Ess!Init BY DEF Init
<1>2. [Next]_vars => [Ess!Next]_Ess!evars
  <2> SUFFICES ASSUME [Next]_vars PROVE Ess!Next \/ UNCHANGED essVars
    BY DEF Ess!evars, essVars
  <2>1. CASE UNCHANGED vars BY <2>1 DEF vars
  <2>2. ASSUME NEW p \in {"grid", "write", "bus", "shunt", "ess", "charge", "reader"}, p # "ess", Only(p)
        PROVE  UNCHANGED essVars
    BY <2>2 DEF Only
  <2>3. QED BY <2>1, <2>2 DEF Next
<1>3. QED BY <1>1, <1>2, PTL DEF Spec, Ess!Spec

\* A choice leads to its mode through no third, whichever of its writes fails, and
\* what is published with its receipt was read after them, for any requests,
\* readers and other clients (victron.py, ess_modes.py).
THEOREM ChoicesAreHonest == Spec => SelectionIsHonest
<1>1. QED BY EssRuns, EssChoiceIsDirect, EssReceiptMatches, PTL DEF SelectionIsHonest

-----------------------------------------------------------------------------
(* Finite sets, and the sum over one *)

\* A finite set of integers that is not empty has a greatest and a least element.
LEMMA MaxIs ==
  ASSUME NEW S \in SUBSET Int, IsFiniteSet(S), S # {}
  PROVE  Charge!Max(S) \in S /\ \A y \in S : Charge!Max(S) >= y
<1> DEFINE T == {X \in SUBSET S : X # {} /\ ~\E x \in X : \A y \in X : x >= y}
<1>1. IsWellFoundedOn(StrictSubsetOrdering(S), SUBSET S)
  BY FS_StrictSubsetOrderingWellFounded, FS_FiniteSubsetsOfFinite
<1>2. T = {}
  <2> SUFFICES ASSUME T # {} PROVE FALSE OBVIOUS
  <2>1. PICK X \in T : \A Y \in T : ~(<<Y, X>> \in StrictSubsetOrdering(S)) BY <1>1, WFMin
  <2>2. PICK x \in X : TRUE OBVIOUS
  <2>3. X \ {x} \notin T BY <2>1, <2>2 DEF StrictSubsetOrdering
  <2>4. CASE X \ {x} = {}
    <3>1. X = {x} /\ x \in Int BY <2>2, <2>4
    <3>2. x >= x BY <3>1
    <3>3. QED BY <3>1, <3>2
  <2>5. CASE X \ {x} # {}
    <3>1. PICK m \in X \ {x} : \A y \in X \ {x} : m >= y BY <2>3, <2>5
    <3>2. X \subseteq Int /\ m \in Int /\ x \in Int BY <2>2
    <3>3. CASE m >= x BY <3>1, <3>3
    <3>4. CASE x >= m
      <4>1. \A y \in X : x >= y BY <3>1, <3>2, <3>4
      <4>2. QED BY <2>2, <4>1
    <3>5. QED BY <3>2, <3>3, <3>4
  <2>6. QED BY <2>4, <2>5
<1>3. \E x \in S : \A y \in S : x >= y BY <1>2
<1>4. QED BY <1>3 DEF Charge!Max

LEMMA MinIs ==
  ASSUME NEW S \in SUBSET Int, IsFiniteSet(S), S # {}
  PROVE  Charge!Min(S) \in S /\ \A y \in S : Charge!Min(S) <= y
<1> DEFINE N == {-y : y \in S}
<1>1. N \in SUBSET Int /\ N # {} /\ IsFiniteSet(N)
  <2>1. IsFiniteSet(N)
    <3>1. [y \in S |-> -y] \in Surjection(S, N) BY DEF Surjection
    <3>2. QED BY <3>1, FS_Surjection
  <2>2. N \subseteq Int OBVIOUS
  <2>3. N # {} OBVIOUS
  <2>4. QED BY <2>1, <2>2, <2>3
<1>2. PICK m \in N : \A y \in N : m >= y BY <1>1, MaxIs
<1>3. PICK x \in S : m = -x BY <1>2
<1>4. ASSUME NEW y \in S PROVE x <= y
  <2>1. m >= -y BY <1>2
  <2>2. QED BY <1>3, <2>1
<1>5. QED BY <1>3, <1>4 DEF Charge!Min

-----------------------------------------------------------------------------
(* The sum over a finite set *)

SumStep(v, f, s) == IF s = {} THEN 0 ELSE v[CHOOSE x \in s : TRUE].soc + f[s \ {CHOOSE x \in s : TRUE}]

\* The fold has a value.
LEMMA SumExists ==
  ASSUME NEW S, IsFiniteSet(S), NEW v
  PROVE  \E f : f = [s \in SUBSET S |-> SumStep(v, f, s)]
<1> DEFINE Good(f, n) == \A s \in SUBSET S : Cardinality(s) <= n => f[s] = SumStep(v, f, s)
           T == {n \in Nat : ~\E f : f = [s \in SUBSET S |-> f[s]] /\ Good(f, n)}
<1>1. IsWellFoundedOn(OpToRel(<, Nat), Nat) BY NatLessThanWellFounded
<1>2. \A s \in SUBSET S : IsFiniteSet(s) /\ Cardinality(s) \in Nat /\ Cardinality(s) <= Cardinality(S)
  BY FS_Subset, FS_CardinalityType
<1>3. \A s \in SUBSET S : s # {} => s \ {CHOOSE x \in s : TRUE} \in SUBSET S
        /\ Cardinality(s \ {CHOOSE x \in s : TRUE}) = Cardinality(s) - 1
  <2> SUFFICES ASSUME NEW s \in SUBSET S, s # {} PROVE Cardinality(s \ {CHOOSE x \in s : TRUE}) = Cardinality(s) - 1
    OBVIOUS
  <2>1. PICK x \in s : x = CHOOSE y \in s : TRUE OBVIOUS
  <2>2. QED BY <1>2, <2>1, FS_RemoveElement
<1>4. T \subseteq Nat /\ \A n \in Nat : n \in T <=> ~\E f : f = [s \in SUBSET S |-> f[s]] /\ Good(f, n)
  OBVIOUS
<1> HIDE DEF T
<1>5. T = {}
  <2> SUFFICES ASSUME T # {} PROVE FALSE OBVIOUS
  <2>1. PICK n \in T : \A m \in T : ~(<<m, n>> \in OpToRel(<, Nat)) BY <1>1, <1>4, WFMin
  <2>2. CASE n = 0
    <3> DEFINE f == [s \in SUBSET S |-> 0]
    <3>1. \A s \in SUBSET S : Cardinality(s) <= 0 => s = {} BY <1>2, FS_EmptySet
    <3>2. Good(f, 0) BY <3>1 DEF SumStep
    <3>3. f = [s \in SUBSET S |-> f[s]] OBVIOUS
    <3> HIDE DEF f
    <3>4. QED BY <1>4, <2>1, <2>2, <3>2, <3>3
  <2>3. CASE n # 0
    <3>1. PICK m \in Nat : n = m + 1
      <4>1. n \in Nat BY <1>4, <2>1
      <4>2. n - 1 \in Nat /\ n = (n - 1) + 1 BY <2>3, <4>1
      <4>3. QED BY <4>2
    <3>2. m \notin T
      <4>1. n \in Nat /\ m < n BY <1>4, <3>1
      <4>2. <<m, n>> \in OpToRel(<, Nat) BY <4>1 DEF OpToRel
      <4>3. QED BY <2>1, <4>2
    <3>3. PICK f : f = [s \in SUBSET S |-> f[s]] /\ Good(f, m) BY <1>4, <3>2
    <3> DEFINE g == [s \in SUBSET S |-> SumStep(v, f, s)]
    <3>4. ASSUME NEW s \in SUBSET S, Cardinality(s) <= n PROVE g[s] = SumStep(v, g, s)
      <4>1. CASE s = {} BY <4>1 DEF SumStep
      <4>2. CASE s # {}
        <5>1. PICK t \in SUBSET S : t = s \ {CHOOSE x \in s : TRUE} /\ Cardinality(t) = Cardinality(s) - 1
          BY <1>3, <4>2
        <5>2. Cardinality(t) <= m BY <1>2, <3>1, <3>4, <5>1
        <5>3. g[t] = f[t] BY <3>3, <5>2
        <5>4. QED BY <4>2, <5>1, <5>3 DEF SumStep
      <4>3. QED BY <4>1, <4>2
    <3>5. g = [s \in SUBSET S |-> g[s]] OBVIOUS
    <3> HIDE DEF g
    <3>6. Good(g, n) BY <3>4
    <3>7. QED BY <1>4, <2>1, <3>5, <3>6
  <2>4. QED BY <2>2, <2>3
<1>6. Cardinality(S) \in Nat BY FS_CardinalityType
<1>7. PICK f : f = [s \in SUBSET S |-> f[s]] /\ Good(f, Cardinality(S)) BY <1>4, <1>5, <1>6
<1>8. \A s \in SUBSET S : f[s] = SumStep(v, f, s) BY <1>2, <1>7
<1>9. f = [s \in SUBSET S |-> SumStep(v, f, s)] BY <1>7, <1>8
<1>10. QED BY <1>9

\* The sum of integers is one.
LEMMA SumIsInt ==
  ASSUME NEW S, IsFiniteSet(S), NEW v, \A c \in S : v[c].soc \in Int
  PROVE  Charge!Levels(v, S) \in Int
<1> DEFINE f == CHOOSE g : g = [s \in SUBSET S |-> SumStep(v, g, s)]
           T == {s \in SUBSET S : f[s] \notin Int}
<1>1. f = [s \in SUBSET S |-> SumStep(v, f, s)] BY SumExists
<1>2. Charge!Levels(v, S) = f[S]
  BY DEF Charge!Levels, Charge!MapThenSumSet, Charge!MapThenFoldSet, SumStep
<1> HIDE DEF f
<1>3. IsWellFoundedOn(StrictSubsetOrdering(S), SUBSET S)
  BY FS_StrictSubsetOrderingWellFounded, FS_FiniteSubsetsOfFinite
<1>4. T = {}
  <2> SUFFICES ASSUME T # {} PROVE FALSE OBVIOUS
  <2>1. PICK s \in T : \A t \in T : ~(<<t, s>> \in StrictSubsetOrdering(S)) BY <1>3, WFMin
  <2>2. f[s] = SumStep(v, f, s) BY <1>1
  <2>3. s # {} BY <2>1, <2>2 DEF SumStep
  <2>4. PICK x \in s : x = CHOOSE y \in s : TRUE BY <2>3
  <2>5. s \ {x} \notin T
    <3>1. <<s \ {x}, s>> \in StrictSubsetOrdering(S) BY <2>1, <2>4 DEF StrictSubsetOrdering
    <3>2. QED BY <2>1, <3>1
  <2>6. f[s \ {x}] \in Int /\ v[x].soc \in Int BY <2>5
  <2>7. f[s] = v[x].soc + f[s \ {x}] BY <2>2, <2>3, <2>4 DEF SumStep
  <2>8. QED BY <2>1, <2>6, <2>7
<1>5. QED BY <1>2, <1>4

-----------------------------------------------------------------------------
(* The policy *)

LEMMA DivIs ==
  ASSUME NEW m \in Int, NEW n \in Nat \ {0}
  PROVE  m \div n \in Int /\ n * (m \div n) <= m /\ m < n * (m \div n) + n
OBVIOUS

\* A share of p, or of -p, is between it and zero.
LEMMA ShareIs ==
  ASSUME NEW p \in Nat, NEW n \in Nat \ {0}, NEW k \in 0 .. n
  PROVE  (p * k) \div n \in 0 .. p /\ ((-p) * k) \div n \in -p .. 0
<1>1. PICK m \in Int : m = p * k OBVIOUS
<1>2. m >= 0 /\ m <= n * p /\ (-p) * k = -m BY <1>1
<1>3. PICK q \in Int, r \in Int : q = m \div n /\ r = (-m) \div n BY DivIs
<1>4. n * q <= m /\ m < n * q + n /\ n * r <= -m /\ -m < n * r + n BY <1>3, DivIs
<1>5. n * q <= n * p /\ 0 < n * q + n BY <1>2, <1>4
<1>6. q <= p BY <1>5
<1>7. q >= 0 BY <1>5
<1>8. n * r <= 0 /\ n * (-p) < n * r + n BY <1>2, <1>4
<1>9. r <= 0 BY <1>8
<1>10. r >= -p BY <1>8
<1>11. QED BY <1>1, <1>2, <1>3, <1>6, <1>7, <1>9, <1>10

\* A line stays where its ends are.
LEMMA SlopeIs ==
  ASSUME NEW top \in Nat, NEW a \in Int, NEW b \in Int, a < b, NEW x \in a .. b,
         NEW u \in 0 .. top, NEW w \in 0 .. top
  PROVE  Charge!Slope(x, a, b, u, w) \in 0 .. top
<1>1. PICK n \in Nat \ {0} : n = b - a OBVIOUS
<1>2. PICK k \in 0 .. n : k = x - a BY <1>1
<1>3. Charge!Slope(x, a, b, u, w) = u + ((w - u) * k) \div n BY <1>1, <1>2 DEF Charge!Slope
<1>4. CASE u <= w
  <2>1. PICK p \in Nat : p = w - u BY <1>4
  <2>2. (p * k) \div n \in 0 .. p BY ShareIs
  <2>3. Charge!Slope(x, a, b, u, w) = u + (p * k) \div n BY <1>3, <2>1
  <2>4. QED BY <2>1, <2>2, <2>3
<1>5. CASE w <= u
  <2>1. PICK p \in Nat : p = u - w /\ -p = w - u BY <1>5
  <2>2. ((-p) * k) \div n \in -p .. 0 BY ShareIs
  <2>3. Charge!Slope(x, a, b, u, w) = u + ((-p) * k) \div n BY <1>3, <2>1
  <2>4. QED BY <2>1, <2>2, <2>3
<1>6. QED BY <1>4, <1>5

\* The larger of two stays where they are, and the smaller of numbers.
LEMMA LargerIs ==
  ASSUME NEW top \in Nat, NEW a \in 0 .. top, NEW b \in 0 .. top
  PROVE  Charge!Max({a, b}) \in 0 .. top
<1>1. \E x \in {a, b} : \A y \in {a, b} : x >= y OBVIOUS
<1>2. QED BY <1>1 DEF Charge!Max

LEMMA HalvesAre ==
  ASSUME NEW p \in Nat
  PROVE  p \div 2 \in 0 .. p /\ p \div 5 \in 0 .. p /\ p \div 10 \in 0 .. p /\ (3 * p) \div 10 \in 0 .. p
OBVIOUS

LEMMA ChargeShares ==
  /\ MaxCharge \in Nat /\ 0 \in 0 .. MaxCharge /\ MaxCharge \in 0 .. MaxCharge /\ MinCharge \in 0 .. MaxCharge
  /\ MaxCharge \div 2 \in 0 .. MaxCharge /\ MaxCharge \div 5 \in 0 .. MaxCharge
  /\ MaxCharge \div 10 \in 0 .. MaxCharge /\ (3 * MaxCharge) \div 10 \in 0 .. MaxCharge
BY ChargeAssumption, HalvesAre

LEMMA DischargeShares ==
  /\ MaxDischarge \in Nat /\ 0 \in 0 .. MaxDischarge /\ MaxDischarge \in 0 .. MaxDischarge
  /\ MaxDischarge \div 2 \in 0 .. MaxDischarge /\ (3 * MaxDischarge) \div 10 \in 0 .. MaxDischarge
BY ChargeAssumption, HalvesAre

LEMMA CclFromCellIs ==
  ASSUME NEW v \in {None} \cup Int
  PROVE  /\ Charge!CclFromCell(v) \in 0 .. MaxCharge
         /\ v # None /\ v >= 360 => Charge!CclFromCell(v) = 0
<1>1. ASSUME v \in 345 .. 349 PROVE Charge!Slope(v, 345, 350, MaxCharge, MaxCharge \div 5) \in 0 .. MaxCharge
  <2>1. PICK a \in Int, b \in Int : a = 345 /\ b = 350 OBVIOUS
  <2>2. a < b /\ v \in a .. b BY <1>1, <2>1
  <2>3. Charge!Slope(v, a, b, MaxCharge, MaxCharge \div 5) \in 0 .. MaxCharge BY <2>2, ChargeShares, SlopeIs, Zenon
  <2>4. QED BY <2>1, <2>3
<1>2. ASSUME v \in 350 .. 354 PROVE Charge!Slope(v, 350, 355, MaxCharge \div 5, MinCharge) \in 0 .. MaxCharge
  <2>1. PICK a \in Int, b \in Int : a = 350 /\ b = 355 OBVIOUS
  <2>2. a < b /\ v \in a .. b BY <1>2, <2>1
  <2>3. Charge!Slope(v, a, b, MaxCharge \div 5, MinCharge) \in 0 .. MaxCharge BY <2>2, ChargeShares, SlopeIs, Zenon
  <2>4. QED BY <2>1, <2>3
<1>3. ASSUME v \in 355 .. 359 PROVE Charge!Slope(v, 355, 360, MinCharge, 0) \in 0 .. MaxCharge
  <2>1. PICK a \in Int, b \in Int : a = 355 /\ b = 360 OBVIOUS
  <2>2. a < b /\ v \in a .. b BY <1>3, <2>1
  <2>3. Charge!Slope(v, a, b, MinCharge, 0) \in 0 .. MaxCharge BY <2>2, ChargeShares, SlopeIs, Zenon
  <2>4. QED BY <2>1, <2>3
<1>4. QED BY <1>1, <1>2, <1>3, ChargeShares, ChargeAssumption DEF Charge!CclFromCell

LEMMA CclFromImbalanceIs ==
  ASSUME NEW delta \in {None} \cup Int
  PROVE  Charge!CclFromImbalance(delta) \in 0 .. MaxCharge
<1>1. ASSUME delta \in 6 .. 9 PROVE Charge!Slope(delta, 5, 10, MaxCharge, (3 * MaxCharge) \div 10) \in 0 .. MaxCharge
  <2>1. 5 \in Int /\ 10 \in Int /\ 5 < 10 /\ delta \in 5 .. 10 BY <1>1
  <2>2. QED BY <2>1, ChargeShares, SlopeIs, Zenon
<1>2. ASSUME delta \in 10 .. 19
      PROVE  Charge!Slope(delta, 10, 20, (3 * MaxCharge) \div 10, MinCharge) \in 0 .. MaxCharge
  <2>1. 10 \in Int /\ 20 \in Int /\ 10 < 20 /\ delta \in 10 .. 20 BY <1>2
  <2>2. QED BY <2>1, ChargeShares, SlopeIs, Zenon
<1>3. QED BY <1>1, <1>2, ChargeShares DEF Charge!CclFromImbalance

LEMMA CclFromTemperatureIs ==
  ASSUME NEW cold \in {None} \cup Int, NEW hot \in {None} \cup Int
  PROVE  Charge!CclFromTemperature(cold, hot) \in 0 .. MaxCharge
<1> DEFINE t == IF hot = None THEN cold ELSE hot
<1>1. t \in {None} \cup Int OBVIOUS
<1> HIDE DEF t
<1>2. ASSUME t \in 1 .. 4 PROVE Charge!Max({Charge!Slope(t, 0, 5, 0, MaxCharge \div 2), MinCharge}) \in 0 .. MaxCharge
  <2>1. 0 \in Int /\ 5 \in Int /\ 0 < 5 /\ t \in 0 .. 5 BY <1>2
  <2>2. Charge!Slope(t, 0, 5, 0, MaxCharge \div 2) \in 0 .. MaxCharge
    BY <2>1, ChargeShares, SlopeIs, Zenon
  <2>3. QED BY <2>2, ChargeShares, LargerIs, Zenon
<1>3. ASSUME t \in 5 .. 9
      PROVE  Charge!Max({Charge!Slope(t, 5, 10, MaxCharge \div 10, MaxCharge \div 2), MinCharge}) \in 0 .. MaxCharge
  <2>1. 5 \in Int /\ 10 \in Int /\ 5 < 10 /\ t \in 5 .. 10 BY <1>3
  <2>2. Charge!Slope(t, 5, 10, MaxCharge \div 10, MaxCharge \div 2) \in 0 .. MaxCharge
    BY <2>1, ChargeShares, SlopeIs, Zenon
  <2>3. QED BY <2>2, ChargeShares, LargerIs, Zenon
<1>4. ASSUME t \in 41 .. 49
      PROVE  Charge!Max({Charge!Slope(t, 40, 50, MaxCharge, 0), MaxCharge \div 5}) \in 0 .. MaxCharge
  <2>1. 40 \in Int /\ 50 \in Int /\ 40 < 50 /\ t \in 40 .. 50 BY <1>4
  <2>2. Charge!Slope(t, 40, 50, MaxCharge, 0) \in 0 .. MaxCharge
    BY <2>1, ChargeShares, SlopeIs, Zenon
  <2>3. QED BY <2>2, ChargeShares, LargerIs, Zenon
<1>5. QED BY <1>1, <1>2, <1>3, <1>4, ChargeShares DEF Charge!CclFromTemperature, t

LEMMA SocCurrentsAre ==
  ASSUME NEW soc \in {None} \cup Int
  PROVE  Charge!CclFromSoc(soc) \in 0 .. MaxCharge /\ Charge!DclFromSoc(soc) \in 0 .. MaxDischarge
<1>1. ASSUME soc # None, soc >= 95 PROVE Charge!CclFromSoc(soc) \in 0 .. MaxCharge
  <2>1. PICK x \in 95 .. 100 : x = Charge!Min({soc, 100})
    <3>1. \E y \in {soc, 100} : \A z \in {soc, 100} : y <= z BY <1>1
    <3>2. Charge!Min({soc, 100}) \in {soc, 100} /\ Charge!Min({soc, 100}) <= 100 BY <3>1 DEF Charge!Min
    <3>3. QED BY <1>1, <3>2
  <2>2. 95 \in Int /\ 100 \in Int /\ 95 < 100 OBVIOUS
  <2>3. Charge!Slope(x, 95, 100, MaxCharge, MaxCharge \div 2) \in 0 .. MaxCharge
    BY <2>2, ChargeShares, SlopeIs, Zenon
  <2>4. QED BY <1>1, <2>1, <2>3 DEF Charge!CclFromSoc
<1>2. ASSUME soc # None, soc <= 15 PROVE Charge!DclFromSoc(soc) \in 0 .. MaxDischarge
  <2>1. PICK x \in 5 .. 15 : x = Charge!Max({soc, 5})
    <3>1. \E y \in {soc, 5} : \A z \in {soc, 5} : y >= z BY <1>2
    <3>2. Charge!Max({soc, 5}) \in {soc, 5} /\ Charge!Max({soc, 5}) >= 5 BY <3>1 DEF Charge!Max
    <3>3. QED BY <1>2, <3>2
  <2>2. 5 \in Int /\ 15 \in Int /\ 5 < 15 OBVIOUS
  <2>3. Charge!Slope(x, 5, 15, 0, MaxDischarge \div 2) \in 0 .. MaxDischarge
    BY <2>2, DischargeShares, SlopeIs, Zenon
  <2>4. QED BY <1>2, <2>1, <2>3 DEF Charge!DclFromSoc
<1>3. QED BY <1>1, <1>2, ChargeShares, DischargeShares DEF Charge!CclFromSoc, Charge!DclFromSoc

LEMMA DclFromCellIs ==
  ASSUME NEW v \in {None} \cup Int
  PROVE  /\ Charge!DclFromCell(v) \in 0 .. MaxDischarge
         /\ v # None /\ v <= 270 => Charge!DclFromCell(v) = 0
<1>1. ASSUME v \in 291 .. 299 PROVE Charge!Slope(v, 290, 300, MaxDischarge \div 2, MaxDischarge) \in 0 .. MaxDischarge
  <2>1. PICK a \in Int, b \in Int : a = 290 /\ b = 300 OBVIOUS
  <2>2. a < b /\ v \in a .. b BY <1>1, <2>1
  <2>3. Charge!Slope(v, a, b, MaxDischarge \div 2, MaxDischarge) \in 0 .. MaxDischarge
    BY <2>2, DischargeShares, SlopeIs, Zenon
  <2>4. QED BY <2>1, <2>3
<1>2. ASSUME v \in 271 .. 290 PROVE Charge!Slope(v, 270, 290, 0, MaxDischarge \div 2) \in 0 .. MaxDischarge
  <2>1. PICK a \in Int, b \in Int : a = 270 /\ b = 290 OBVIOUS
  <2>2. a < b /\ v \in a .. b BY <1>2, <2>1
  <2>3. Charge!Slope(v, a, b, 0, MaxDischarge \div 2) \in 0 .. MaxDischarge BY <2>2, DischargeShares, SlopeIs, Zenon
  <2>4. QED BY <2>1, <2>3
<1>3. QED BY <1>1, <1>2, DischargeShares, ChargeAssumption DEF Charge!DclFromCell

LEMMA DclFromTemperatureIs ==
  ASSUME NEW cold \in {None} \cup Int, NEW hot \in {None} \cup Int
  PROVE  Charge!DclFromTemperature(cold, hot) \in 0 .. MaxDischarge
<1> DEFINE t == IF cold = None THEN hot ELSE cold
<1>1. t \in {None} \cup Int OBVIOUS
<1> HIDE DEF t
<1>2. ASSUME t \in -19 .. -11 PROVE Charge!Slope(t, -20, -10, 0, (3 * MaxDischarge) \div 10) \in 0 .. MaxDischarge
  <2>1. -20 \in Int /\ -10 \in Int /\ -20 < -10 /\ t \in -20 .. -10 BY <1>2
  <2>2. QED BY <2>1, DischargeShares, SlopeIs, Zenon
<1>3. QED BY <1>1, <1>2, DischargeShares DEF Charge!DclFromTemperature, t

-----------------------------------------------------------------------------
(* What is known of the chains together *)

ChargeChains == [Chains -> Readings \cup {None}]
ChargeFields == {"high", "low", "hot", "cold"}

\* What the proofs use of a reading
LEMMA ReadingIs ==
  ASSUME NEW r \in Readings
  PROVE  /\ \A field \in ChargeFields : r[field] \in {None} \cup Int
         /\ r.high \in {None} \cup Int /\ r.low \in {None} \cup Int /\ r.soc \in {None} \cup Int
         /\ r["high"] = None <=> r["low"] = None
BY ChargeAssumption DEF ChargeFields

LEMMA EntriesAre ==
  ASSUME NEW ch \in ChargeChains
  PROVE  IsFiniteSet(Charge!Entries(ch)) /\ Charge!Entries(ch) \subseteq Readings
<1> DEFINE T == {ch[c] : c \in Chains}
<1>1. [c \in Chains |-> ch[c]] \in Surjection(Chains, T) BY DEF Surjection
<1>2. IsFiniteSet(T) BY <1>1, ChargeAssumption, FS_Surjection
<1>3. T \ {None} \in SUBSET T /\ T \ {None} \subseteq Readings BY DEF ChargeChains
<1>4. QED BY <1>2, <1>3, FS_Subset DEF Charge!Entries

\* What the chains are taken from is chains, and those that answer now if any is
\* measured or nothing polls.
LEMMA SourceIs ==
  ASSUME NEW ch \in ChargeChains, cells \in ChargeChains
  PROVE  /\ Charge!Source(ch) \in ChargeChains
         /\ Charge!Measured(cells) \/ ~polling => Charge!Source(cells) = cells
<1>1. Charge!Unread \in ChargeChains BY DEF Charge!Unread, ChargeChains
<1>2. QED BY <1>1 DEF Charge!Source

LEMMA KnownIs ==
  ASSUME NEW ch \in ChargeChains, NEW field \in ChargeFields
  PROVE  Charge!Known(Charge!Entries(ch), field) \in SUBSET Int
         /\ IsFiniteSet(Charge!Known(Charge!Entries(ch), field))
<1> DEFINE E == Charge!Entries(ch)
           T == {e[field] : e \in E}
<1>1. IsFiniteSet(E) /\ E \subseteq Readings BY EntriesAre
<1>2. [e \in E |-> e[field]] \in Surjection(E, T) BY DEF Surjection
<1>3. IsFiniteSet(T) BY <1>1, <1>2, FS_Surjection
<1>4. T \ {None} \in SUBSET T /\ T \ {None} \subseteq Int BY <1>1, ReadingIs
<1>5. QED BY <1>3, <1>4, FS_Subset DEF Charge!Known

LEMMA ExtremesAre ==
  ASSUME NEW S \in SUBSET Int, IsFiniteSet(S)
  PROVE  /\ Charge!Highest(S) \in {None} \cup Int /\ Charge!Lowest(S) \in {None} \cup Int
         /\ S # {} => Charge!Highest(S) \in Int /\ Charge!Lowest(S) \in Int
         /\ S = {} => Charge!Highest(S) = None /\ Charge!Lowest(S) = None
         /\ \A y \in S : Charge!Highest(S) >= y /\ Charge!Lowest(S) <= y
<1>1. CASE S = {} BY <1>1 DEF Charge!Highest, Charge!Lowest
<1>2. CASE S # {}
  <2>1. Charge!Max(S) \in S /\ Charge!Min(S) \in S /\ \A y \in S : Charge!Max(S) >= y /\ Charge!Min(S) <= y
    BY <1>2, MaxIs, MinIs
  <2>2. QED BY <1>2, <2>1 DEF Charge!Highest, Charge!Lowest
<1>3. QED BY <1>1, <1>2

\* The average of the charge levels is a number.
LEMMA SocIs ==
  ASSUME NEW ch \in ChargeChains
  PROVE  Charge!Together(ch).soc \in {None} \cup Int
<1> DEFINE S == {c \in Chains : ch[c] # None /\ ch[c].soc # None}
<1>1. IsFiniteSet(S) BY ChargeAssumption, FS_Subset
<1>2. Charge!Together(ch).soc = IF S = {} THEN None ELSE Charge!Levels(ch, S) \div Cardinality(S)
  <2>1. Charge!Together(ch).soc = IF S = {} THEN None ELSE Charge!Levels(ch, S) \div Charge!Cardinality(S)
    BY DEF Charge!Together
  <2>2. Charge!Cardinality(S) = Cardinality(S) BY DEF Charge!Cardinality, Cardinality
  <2>3. QED BY <2>1, <2>2
<1>3. \A c \in S : ch[c].soc \in Int
  <2> SUFFICES ASSUME NEW c \in S PROVE ch[c].soc \in Int OBVIOUS
  <2>1. ch[c] \in Readings /\ ch[c].soc # None BY DEF ChargeChains
  <2>2. QED BY <2>1, ReadingIs
<1>4. CASE S # {}
  <2>1. Charge!Levels(ch, S) \in Int BY <1>1, <1>3, SumIsInt, Zenon
  <2>2. PICK n \in Nat \ {0} : n = Cardinality(S) BY <1>1, <1>4, FS_CardinalityType, FS_EmptySet
  <2>3. Charge!Levels(ch, S) \div n \in Int BY <2>1, DivIs
  <2>4. QED BY <1>2, <1>4, <2>1, <2>2, <2>3
<1>5. QED BY <1>2, <1>4

LEMMA TogetherIs ==
  ASSUME NEW ch \in ChargeChains, NEW d, d = Charge!Together(ch)
  PROVE  /\ d.high \in {None} \cup Int /\ d.low \in {None} \cup Int /\ d.hot \in {None} \cup Int
         /\ d.cold \in {None} \cup Int /\ d.soc \in {None} \cup Int
         /\ d.charge \in BOOLEAN /\ d.discharge \in BOOLEAN
         /\ d.high # None => d.low # None
         /\ \A c \in Chains : ch[c] \in Readings /\ ch[c] # None =>
              /\ ch[c].charge = FALSE => d.charge = FALSE
              /\ ch[c].discharge = FALSE => d.discharge = FALSE
              /\ ch[c].high \in Int => d.high \in Int /\ d.high >= ch[c].high
              /\ ch[c].low \in Int => d.low \in Int /\ d.low <= ch[c].low
<1> DEFINE E == Charge!Entries(ch)
<1>1. E \subseteq Readings BY EntriesAre
<1>2. /\ d.high = Charge!Highest(Charge!Known(E, "high")) /\ d.low = Charge!Lowest(Charge!Known(E, "low"))
      /\ d.hot = Charge!Highest(Charge!Known(E, "hot")) /\ d.cold = Charge!Lowest(Charge!Known(E, "cold"))
      /\ d.charge = (FALSE \notin Charge!Known(E, "charge"))
      /\ d.discharge = (FALSE \notin Charge!Known(E, "discharge"))
  BY DEF Charge!Together, Charge!Allowed
<1>3. \A field \in ChargeFields : Charge!Known(E, field) \in SUBSET Int /\ IsFiniteSet(Charge!Known(E, field))
  BY KnownIs
<1>4. "high" \in ChargeFields /\ "low" \in ChargeFields /\ "hot" \in ChargeFields /\ "cold" \in ChargeFields
  BY DEF ChargeFields
<1>5. /\ d.high \in {None} \cup Int /\ d.low \in {None} \cup Int /\ d.hot \in {None} \cup Int
      /\ d.cold \in {None} \cup Int
  BY <1>2, <1>3, <1>4, ExtremesAre
<1>6. ASSUME NEW r \in E
      PROVE  /\ r["high"] # None => r["high"] \in Charge!Known(E, "high")
             /\ r["low"] # None => r["low"] \in Charge!Known(E, "low")
  BY DEF Charge!Known
<1>7. d.high # None => d.low # None
  <2> SUFFICES ASSUME d.high # None PROVE d.low # None OBVIOUS
  <2>1. Charge!Known(E, "high") # {} BY <1>2, <1>3, <1>4, ExtremesAre
  <2>2. PICK r \in E : r["high"] # None BY <2>1 DEF Charge!Known
  <2>3. Charge!Known(E, "low") # {} BY <1>1, <1>6, <2>2, ReadingIs
  <2>4. d.low \in Int BY <1>2, <1>3, <1>4, <2>3, ExtremesAre
  <2>5. QED BY <2>4, ChargeAssumption
<1>8. ASSUME NEW c \in Chains, ch[c] \in Readings, ch[c] # None
      PROVE  /\ ch[c].charge = FALSE => d.charge = FALSE
             /\ ch[c].discharge = FALSE => d.discharge = FALSE
             /\ ch[c].high \in Int => d.high \in Int /\ d.high >= ch[c].high
             /\ ch[c].low \in Int => d.low \in Int /\ d.low <= ch[c].low
  <2>1. PICK r \in E : r = ch[c] BY <1>8 DEF Charge!Entries
  <2>2. r["high"] = r.high /\ r["low"] = r.low OBVIOUS
  <2>3. /\ r.high \in Int => r.high \in Charge!Known(E, "high")
        /\ r.low \in Int => r.low \in Charge!Known(E, "low")
    BY <1>6, <2>2, ChargeAssumption
  <2>4. r.high \in Int => d.high \in Int /\ d.high >= r.high BY <1>2, <1>3, <1>4, <2>3, ExtremesAre
  <2>5. r.low \in Int => d.low \in Int /\ d.low <= r.low BY <1>2, <1>3, <1>4, <2>3, ExtremesAre
  <2>6. r.charge = FALSE => FALSE \in Charge!Known(E, "charge") BY ChargeAssumption DEF Charge!Known
  <2>7. r.discharge = FALSE => FALSE \in Charge!Known(E, "discharge") BY ChargeAssumption DEF Charge!Known
  <2>8. QED BY <1>2, <2>1, <2>4, <2>5, <2>6, <2>7
<1>9. d.soc \in {None} \cup Int BY SocIs
<1>10. d.charge \in BOOLEAN /\ d.discharge \in BOOLEAN BY <1>2
<1>11. QED BY <1>5, <1>7, <1>8, <1>9, <1>10

-----------------------------------------------------------------------------
(* The limits of the data *)

LEMMA CclIs ==
  ASSUME NEW ch \in ChargeChains, NEW d, d = Charge!Together(ch)
  PROVE  /\ Charge!Ccl(d) \in 0 .. MaxCharge
         /\ d.charge = FALSE \/ (d.high \in Int /\ d.high >= 360) => Charge!Ccl(d) = 0
<1>1. /\ d.high \in {None} \cup Int /\ d.low \in {None} \cup Int /\ d.hot \in {None} \cup Int
      /\ d.cold \in {None} \cup Int /\ d.soc \in {None} \cup Int /\ d.charge \in BOOLEAN
      /\ d.high # None => d.low # None
  BY TogetherIs
<1> DEFINE delta == IF d.high = None THEN None ELSE d.high - d.low
<1>2. delta \in {None} \cup Int BY <1>1
<1> HIDE DEF delta
<1>3. PICK w \in 0 .. MaxCharge, x \in 0 .. MaxCharge, y \in 0 .. MaxCharge, z \in 0 .. MaxCharge :
        /\ w = Charge!CclFromCell(d.high) /\ x = Charge!CclFromImbalance(delta)
        /\ y = Charge!CclFromTemperature(d.cold, d.hot) /\ z = Charge!CclFromSoc(d.soc)
  BY <1>1, <1>2, CclFromCellIs, CclFromImbalanceIs, CclFromTemperatureIs, SocCurrentsAre
<1>4. d.high \in Int /\ d.high >= 360 => w = 0 BY <1>3, CclFromCellIs, ChargeAssumption
<1>5. Charge!Ccl(d) = IF d.charge THEN Charge!Min({w, x, y, z}) ELSE 0 BY <1>3 DEF Charge!Ccl, delta
<1>6. MaxCharge \in Nat BY ChargeShares
<1>7. Charge!Min({w, x, y, z}) \in 0 .. MaxCharge /\ (w = 0 => Charge!Min({w, x, y, z}) = 0)
  <2>1. \E least \in {w, x, y, z} : \A v \in {w, x, y, z} : least <= v BY <1>6
  <2>2. Charge!Min({w, x, y, z}) \in {w, x, y, z} /\ Charge!Min({w, x, y, z}) <= w BY <2>1 DEF Charge!Min
  <2>3. QED BY <1>6, <2>2
<1>8. 0 \in 0 .. MaxCharge BY <1>6
<1>9. QED BY <1>1, <1>4, <1>5, <1>7, <1>8

LEMMA DclIs ==
  ASSUME NEW ch \in ChargeChains, NEW d, d = Charge!Together(ch)
  PROVE  /\ Charge!Dcl(d) \in 0 .. MaxDischarge
         /\ d.discharge = FALSE \/ (d.low \in Int /\ d.low <= 270) => Charge!Dcl(d) = 0
<1>1. /\ d.low \in {None} \cup Int /\ d.hot \in {None} \cup Int
      /\ d.cold \in {None} \cup Int /\ d.soc \in {None} \cup Int /\ d.discharge \in BOOLEAN
  BY TogetherIs
<1>2. PICK w \in 0 .. MaxDischarge, x \in 0 .. MaxDischarge, y \in 0 .. MaxDischarge :
        w = Charge!DclFromCell(d.low) /\ x = Charge!DclFromTemperature(d.cold, d.hot) /\ y = Charge!DclFromSoc(d.soc)
  BY <1>1, DclFromCellIs, DclFromTemperatureIs, SocCurrentsAre
<1>3. d.low \in Int /\ d.low <= 270 => w = 0 BY <1>2, DclFromCellIs, ChargeAssumption
<1>4. Charge!Dcl(d) = IF d.discharge THEN Charge!Min({w, x, y}) ELSE 0 BY <1>2 DEF Charge!Dcl
<1>5. MaxDischarge \in Nat BY DischargeShares
<1>6. Charge!Min({w, x, y}) \in 0 .. MaxDischarge /\ (w = 0 => Charge!Min({w, x, y}) = 0)
  <2>1. \E least \in {w, x, y} : \A v \in {w, x, y} : least <= v BY <1>5
  <2>2. Charge!Min({w, x, y}) \in {w, x, y} /\ Charge!Min({w, x, y}) <= w BY <2>1 DEF Charge!Min
  <2>3. QED BY <1>5, <2>2
<1>7. 0 \in 0 .. MaxDischarge BY <1>5
<1>8. QED BY <1>1, <1>3, <1>4, <1>6, <1>7

\* The rate limit keeps to the range, and lets a cutoff through.
LEMMA LimitedIs ==
  ASSUME NEW top \in Nat, NEW value \in 0 .. top, NEW last \in 0 .. top, NEW change \in Nat
  PROVE  Charge!Limited(value, last, change) \in 0 .. top
<1>1. value > last => Charge!Min({value, last + change}) \in last .. value
  <2>1. \E x \in {value, last + change} : \A y \in {value, last + change} : x <= y OBVIOUS
  <2>2. QED BY <2>1 DEF Charge!Min
<1>2. value < last => Charge!Max({value, last - 2 * change}) \in value .. last
  <2>1. PICK low \in Int : low = last - 2 * change /\ low <= last OBVIOUS
  <2>2. \E x \in {value, low} : \A y \in {value, low} : x >= y OBVIOUS
  <2>3. Charge!Max({value, low}) \in {value, low} /\ Charge!Max({value, low}) >= value BY <2>2 DEF Charge!Max
  <2>4. QED BY <2>1, <2>3
<1>3. QED BY <1>1, <1>2 DEF Charge!Limited

LEMMA CutoffIsNotLimited ==
  ASSUME NEW value \in Int, value = 0, NEW last \in Int, NEW change \in Int
  PROVE  Charge!Limited(value, last, change) = 0
BY DEF Charge!Limited

-----------------------------------------------------------------------------
(* The invariant *)

ChargeTypes ==
  /\ cells \in ChargeChains /\ cellCache \in ChargeChains /\ polling \in BOOLEAN
  /\ polled \in Int /\ fetched \in Int /\ elapsed \in Int /\ steady \in 0 .. Charge!Lag /\ back \in BOOLEAN

\* What the controller took, and what its currents rest on, are chains together.
ChargeData ==
  /\ taken = None \/ \E ch \in ChargeChains : taken = Charge!Together(ch)
  /\ currents = None \/ \E ch \in ChargeChains : currents.data = Charge!Together(ch)

ChargeClock == ~back => polled >= 0 /\ fetched >= 0 /\ elapsed >= 0

\* Time only counts while every chain answers.
ChargeDown == (\E c \in Chains : cells[c] = None) => steady = 0

\* Without the poll thread the controller reads the chains itself whenever it
\* takes them.
ChargeOwnRead == ~back /\ ~polling => fetched <= polled \/ polled >= CellInterval

\* A cache that is not what the chains answer has not been due for longer,
ChargeCacheLag ==
  ~back /\ cellCache # cells =>
    /\ polling => steady <= polled /\ steady <= CellInterval
    /\ ~polling => steady <= fetched /\ steady <= CellInterval + 1

\* nor has the controller's copy.
ChargeTakenLag ==
  ~back /\ taken # Charge!Together(Charge!Source(cells)) =>
    steady <= 2 * CellInterval + 1 /\ steady <= CellInterval + fetched

\* A current that is cut off is not let down by steps.
ChargeCut ==
  ~back /\ currents # None =>
    /\ Charge!Ccl(currents.data) = 0 => currents.ccl = 0
    /\ Charge!Dcl(currents.data) = 0 => currents.dcl = 0

ChargeIInv ==
  /\ ChargeTypes /\ ChargeData /\ ChargeClock /\ ChargeDown /\ ChargeOwnRead
  /\ ChargeCacheLag /\ ChargeTakenLag /\ ChargeCut /\ Charge!CurrentsInRange

LEMMA SmallerIs ==
  ASSUME NEW a \in Int, NEW b \in Int
  PROVE  Charge!Min({a, b}) = IF a <= b THEN a ELSE b
<1>1. \E x \in {a, b} : \A y \in {a, b} : x <= y OBVIOUS
<1>2. Charge!Min({a, b}) \in {a, b} /\ Charge!Min({a, b}) <= a /\ Charge!Min({a, b}) <= b BY <1>1 DEF Charge!Min
<1>3. QED BY <1>2

\* A pass over chains that all answer reads what they answer.
LEMMA PassIs ==
  ASSUME ChargeTypes, ChargeDown
  PROVE  Charge!Pass \in ChargeChains /\ (Charge!Pass # cells => steady = 0)
<1>1. Charge!Pass \in ChargeChains BY DEF ChargeTypes, ChargeChains, Charge!Pass
<1>2. ASSUME steady # 0 PROVE Charge!Pass = cells
  <2>1. \A c \in Chains : cells[c] # None BY <1>2 DEF ChargeDown
  <2>2. cells = [c \in Chains |-> cells[c]] BY DEF ChargeTypes, ChargeChains
  <2>3. QED BY <2>1, <2>2 DEF Charge!Pass
<1>3. QED BY <1>1, <1>2

LEMMA ChargeInit == ASSUME Charge!Init PROVE ChargeIInv
<1> USE DEF Charge!Init
<1>1. ChargeTypes
  <2>1. cells \in ChargeChains /\ cellCache \in ChargeChains BY DEF ChargeChains
  <2>2. CellInterval \in Int /\ CellInterval + 1 \in Int /\ 0 \in 0 .. 2 * CellInterval + 2
    BY ChargeAssumption
  <2>3. polling \in BOOLEAN /\ polled = CellInterval /\ fetched = CellInterval + 1 /\ elapsed = 0
        /\ steady = 0 /\ back = FALSE
    OBVIOUS
  <2> HIDE DEF Charge!Init
  <2>4. steady \in 0 .. Charge!Lag BY <2>2, <2>3 DEF Charge!Lag
  <2>5. polled \in Int /\ fetched \in Int /\ elapsed \in Int BY <2>2, <2>3
  <2>6. back \in BOOLEAN BY <2>3
  <2>7. QED BY <2>1, <2>3, <2>4, <2>5, <2>6 DEF ChargeTypes
<1>2. ChargeData /\ ChargeDown /\ ChargeCut /\ Charge!CurrentsInRange
  BY DEF ChargeData, ChargeDown, ChargeCut, Charge!CurrentsInRange
<1>3. ChargeClock /\ ChargeOwnRead /\ ChargeCacheLag /\ ChargeTakenLag
  BY ChargeAssumption DEF ChargeClock, ChargeOwnRead, ChargeCacheLag, ChargeTakenLag
<1>4. QED BY <1>1, <1>2, <1>3 DEF ChargeIInv

LEMMA PollKeeps == ASSUME ChargeIInv, Charge!Poll PROVE ChargeIInv'
<1> USE DEF ChargeIInv, Charge!Poll
<1>1. Charge!Pass \in ChargeChains /\ (Charge!Pass # cells => steady = 0) BY PassIs
<1>2. ChargeTypes' BY <1>1 DEF ChargeTypes
<1>3. ChargeData' /\ ChargeDown' /\ ChargeCut' /\ Charge!CurrentsInRange' /\ ChargeTakenLag'
  BY DEF ChargeData, ChargeDown, ChargeCut, Charge!CurrentsInRange, ChargeTakenLag, Charge!Source
<1>4. ChargeClock' /\ ChargeOwnRead' BY DEF ChargeClock, ChargeOwnRead
<1>5. ChargeCacheLag' BY <1>1, ChargeAssumption DEF ChargeCacheLag
<1>6. QED BY <1>2, <1>3, <1>4, <1>5

LEMMA FetchKeeps == ASSUME ChargeIInv, Charge!Fetch PROVE ChargeIInv'
<1> USE DEF ChargeIInv
<1>1. Charge!Pass \in ChargeChains /\ (Charge!Pass # cells => steady = 0) BY PassIs
<1>2. /\ fetched > CellInterval /\ fetched' = 0 /\ taken' = Charge!Together(Charge!Source(cellCache'))
      /\ UNCHANGED <<cells, polling, currents, elapsed, steady, back>>
  BY DEF Charge!Fetch
<1>3. \/ ~polling /\ polled >= CellInterval /\ cellCache' = Charge!Pass /\ polled' = 0
      \/ (polling \/ ~(polled >= CellInterval)) /\ cellCache' = cellCache /\ polled' = polled
  BY DEF Charge!Fetch
<1>4. ChargeTypes' BY <1>1, <1>2, <1>3 DEF ChargeTypes
<1>5. ChargeData'
  <2>1. cellCache' \in ChargeChains /\ cells \in ChargeChains BY <1>4 DEF ChargeTypes
  <2>2. Charge!Source(cellCache') \in ChargeChains BY <2>1, SourceIs
  <2>3. QED BY <1>2, <2>2 DEF ChargeData
<1>6. ChargeDown' /\ ChargeCut' /\ Charge!CurrentsInRange'
  BY <1>2 DEF ChargeDown, ChargeCut, Charge!CurrentsInRange
<1>7. ChargeClock' /\ ChargeOwnRead' BY <1>2, <1>3, ChargeAssumption DEF ChargeClock, ChargeOwnRead, ChargeTypes
<1>8. ~back /\ ~polling => polled >= CellInterval
  BY <1>2, ChargeAssumption DEF ChargeOwnRead, ChargeTypes
<1>9. ~back /\ cellCache' # cells => steady <= CellInterval /\ (polling => steady <= polled')
        /\ (~polling => steady = 0)
  BY <1>1, <1>3, <1>8, ChargeAssumption DEF ChargeCacheLag, ChargeTypes
<1>10. ChargeCacheLag' BY <1>2, <1>9, ChargeAssumption DEF ChargeCacheLag, ChargeTypes
<1>11. ChargeTakenLag'
  <2>1. taken' # Charge!Together(Charge!Source(cells)) => cellCache' # cells BY <1>2
  <2>2. Charge!Source(cells)' = Charge!Source(cells) BY <1>2 DEF Charge!Source
  <2>3. QED BY <1>2, <1>9, <2>1, <2>2, ChargeAssumption DEF ChargeTakenLag, ChargeTypes
<1>12. QED BY <1>4, <1>5, <1>6, <1>7, <1>10, <1>11

LEMMA CalculateKeeps == ASSUME ChargeIInv, Charge!Calculate PROVE ChargeIInv'
<1> USE DEF ChargeIInv
<1>1. taken # None /\ elapsed' = 0
      /\ UNCHANGED <<cells, cellCache, polling, polled, taken, fetched, steady, back>>
  BY DEF Charge!Calculate
<1>2. /\ currents'.data = taken
      /\ currents'.ccl = IF currents = None THEN Charge!Ccl(taken)
                         ELSE Charge!Limited(Charge!Ccl(taken), currents.ccl, ChargeRate * elapsed)
      /\ currents'.dcl = IF currents = None THEN Charge!Dcl(taken)
                         ELSE Charge!Limited(Charge!Dcl(taken), currents.dcl, DischargeRate * elapsed)
  BY DEF Charge!Calculate
<1>3. PICK ch \in ChargeChains : taken = Charge!Together(ch) BY <1>1 DEF ChargeData
<1>4. ChargeTypes' BY <1>1 DEF ChargeTypes
<1>5. ChargeData' BY <1>1, <1>2, <1>3 DEF ChargeData
<1>6. ChargeDown' /\ ChargeClock' /\ ChargeOwnRead' /\ ChargeCacheLag' /\ ChargeTakenLag'
  BY <1>1 DEF ChargeDown, ChargeClock, ChargeOwnRead, ChargeCacheLag, ChargeTakenLag, Charge!Source
<1>7. Charge!Ccl(taken) \in 0 .. MaxCharge /\ Charge!Dcl(taken) \in 0 .. MaxDischarge BY <1>3, CclIs, DclIs
<1>8. ASSUME ~back
      PROVE  /\ currents'.ccl \in 0 .. MaxCharge /\ currents'.dcl \in 0 .. MaxDischarge
             /\ Charge!Ccl(taken) = 0 => currents'.ccl = 0
             /\ Charge!Dcl(taken) = 0 => currents'.dcl = 0
  <2>1. CASE currents = None BY <1>2, <1>7, <2>1
  <2>2. CASE currents # None
    <3>1. currents.ccl \in 0 .. MaxCharge /\ currents.dcl \in 0 .. MaxDischarge
      BY <1>8, <2>2 DEF Charge!CurrentsInRange
    <3>2. elapsed \in Nat BY <1>8 DEF ChargeClock, ChargeTypes
    <3>3. PICK up \in Nat, down \in Nat : up = ChargeRate * elapsed /\ down = DischargeRate * elapsed
      BY <3>2, ChargeAssumption
    <3>4. currents'.ccl = Charge!Limited(Charge!Ccl(taken), currents.ccl, up)
          /\ currents'.dcl = Charge!Limited(Charge!Dcl(taken), currents.dcl, down)
      BY <1>2, <2>2, <3>3
    <3>5. currents'.ccl \in 0 .. MaxCharge /\ (Charge!Ccl(taken) = 0 => currents'.ccl = 0)
      <4>1. MaxCharge \in Nat BY ChargeAssumption
      <4>2. Charge!Limited(Charge!Ccl(taken), currents.ccl, up) \in 0 .. MaxCharge
        BY <1>7, <3>1, <4>1, LimitedIs
      <4>3. Charge!Ccl(taken) = 0 => Charge!Limited(Charge!Ccl(taken), currents.ccl, up) = 0
        BY <1>7, <3>1, <4>1, CutoffIsNotLimited
      <4>4. QED BY <3>4, <4>2, <4>3
    <3>6. currents'.dcl \in 0 .. MaxDischarge /\ (Charge!Dcl(taken) = 0 => currents'.dcl = 0)
      <4>1. MaxDischarge \in Nat BY ChargeAssumption
      <4>2. Charge!Limited(Charge!Dcl(taken), currents.dcl, down) \in 0 .. MaxDischarge
        BY <1>7, <3>1, <4>1, LimitedIs
      <4>3. Charge!Dcl(taken) = 0 => Charge!Limited(Charge!Dcl(taken), currents.dcl, down) = 0
        BY <1>7, <3>1, <4>1, CutoffIsNotLimited
      <4>4. QED BY <3>4, <4>2, <4>3
    <3>7. QED BY <3>5, <3>6
  <2>3. QED BY <2>1, <2>2
<1>9. ChargeCut' /\ Charge!CurrentsInRange' BY <1>1, <1>2, <1>8 DEF ChargeCut, Charge!CurrentsInRange
<1>10. QED BY <1>4, <1>5, <1>6, <1>9

LEMMA TickKeeps == ASSUME ChargeIInv, Charge!Tick PROVE ChargeIInv'
<1> USE DEF ChargeIInv
<1>1. /\ polling => polled < CellInterval
      /\ fetched <= CellInterval /\ elapsed <= 0
      /\ fetched' = fetched + 1 /\ elapsed' = elapsed + 1
      /\ UNCHANGED <<cells, cellCache, polling, taken, currents, back>>
  BY DEF Charge!Tick
<1>2. CellInterval \in Nat /\ Charge!Lag \in Nat /\ polled \in Int /\ fetched \in Int /\ elapsed \in Int
      /\ steady \in Nat /\ steady <= Charge!Lag /\ back \in BOOLEAN
  BY ChargeAssumption DEF ChargeTypes, Charge!Lag
<1>3. polled' = IF polled + 1 <= CellInterval THEN polled + 1 ELSE CellInterval
  BY <1>2, SmallerIs DEF Charge!Tick
<1>4. steady' \in 0 .. Charge!Lag /\ steady' <= steady + 1
      /\ ((\E c \in Chains : cells[c] = None) => steady' = 0)
  <2>1. steady' = IF None \in {cells[c] : c \in Chains} THEN 0
                  ELSE IF steady + 1 <= Charge!Lag THEN steady + 1 ELSE Charge!Lag
    BY <1>2, SmallerIs DEF Charge!Tick
  <2>2. QED BY <1>2, <2>1
<1>5. ChargeTypes' BY <1>1, <1>2, <1>3, <1>4 DEF ChargeTypes, Charge!Lag
<1>6. ChargeData' /\ ChargeDown' /\ ChargeCut' /\ Charge!CurrentsInRange'
  BY <1>1, <1>4 DEF ChargeData, ChargeDown, ChargeCut, Charge!CurrentsInRange
<1>7. ChargeClock' /\ ChargeOwnRead' BY <1>1, <1>2, <1>3 DEF ChargeClock, ChargeOwnRead
<1>8. ChargeCacheLag' BY <1>1, <1>2, <1>3, <1>4 DEF ChargeCacheLag
<1>9. ChargeTakenLag' BY <1>1, <1>2, <1>4 DEF ChargeTakenLag, Charge!Source
<1>10. QED BY <1>5, <1>6, <1>7, <1>8, <1>9

LEMMA ChangeKeeps ==
  ASSUME ChargeIInv, NEW c \in Chains, NEW r \in Readings \cup {None}, Charge!Change(c, r)
  PROVE  ChargeIInv'
<1> USE DEF ChargeIInv
<1>1. cells' = [cells EXCEPT ![c] = r] /\ steady' = 0
      /\ UNCHANGED <<cellCache, polling, polled, taken, fetched, currents, elapsed, back>>
  BY DEF Charge!Change
<1>2. CellInterval \in Nat /\ Charge!Lag \in Nat BY ChargeAssumption DEF Charge!Lag
<1>3. ChargeTypes' BY <1>1, <1>2 DEF ChargeTypes, ChargeChains, Charge!Lag
<1>4. ChargeData' /\ ChargeDown' /\ ChargeCut' /\ Charge!CurrentsInRange' /\ ChargeClock' /\ ChargeOwnRead'
  BY <1>1 DEF ChargeData, ChargeDown, ChargeCut, Charge!CurrentsInRange, ChargeClock, ChargeOwnRead
<1>5. ChargeCacheLag' /\ ChargeTakenLag'
  BY <1>1, <1>2 DEF ChargeCacheLag, ChargeTakenLag, ChargeClock, ChargeTypes
<1>6. QED BY <1>3, <1>4, <1>5

LEMMA StepKeeps == ASSUME ChargeIInv, NEW d \in {-2, 2}, Charge!Step(d) PROVE ChargeIInv'
<1> USE DEF ChargeIInv
<1>1. /\ back' = (back \/ d < 0) /\ polled' = polled + d /\ fetched' = fetched + d /\ elapsed' = elapsed + d
      /\ UNCHANGED <<cells, cellCache, polling, taken, currents, steady>>
  BY DEF Charge!Step
<1>2. CellInterval \in Nat /\ polled \in Int /\ fetched \in Int /\ elapsed \in Int /\ steady \in Int
  BY ChargeAssumption DEF ChargeTypes, Charge!Lag
<1>3. ~back' => ~back /\ d = 2
  <2>1. d = 2 \/ d < 0 OBVIOUS
  <2>2. CASE d = 2 BY <1>1, <2>2, Zenon
  <2>3. CASE d < 0 BY <1>1, <2>3, Zenon
  <2>4. QED BY <2>1, <2>2, <2>3
<1>4. ChargeTypes' BY <1>1 DEF ChargeTypes, Charge!Lag
<1>5. ChargeData' /\ ChargeDown' /\ ChargeCut' /\ Charge!CurrentsInRange'
  BY <1>1, <1>3 DEF ChargeData, ChargeDown, ChargeCut, Charge!CurrentsInRange
<1>6. ChargeClock' /\ ChargeOwnRead' BY <1>1, <1>2, <1>3 DEF ChargeClock, ChargeOwnRead
<1>7. ChargeCacheLag' /\ ChargeTakenLag' BY <1>1, <1>2, <1>3 DEF ChargeCacheLag, ChargeTakenLag, Charge!Source
<1>8. QED BY <1>4, <1>5, <1>6, <1>7

\* Every step keeps the invariant.
THEOREM ChargeInductive == Charge!Spec => []ChargeIInv
<1>1. Charge!Init => ChargeIInv BY ChargeInit
<1>2. ChargeIInv /\ [Charge!Next]_Charge!chargeVars => ChargeIInv'
  <2> SUFFICES ASSUME ChargeIInv, [Charge!Next]_Charge!chargeVars PROVE ChargeIInv' OBVIOUS
  <2>1. CASE Charge!Poll BY <2>1, PollKeeps
  <2>2. CASE Charge!Fetch BY <2>2, FetchKeeps
  <2>3. CASE Charge!Calculate BY <2>3, CalculateKeeps
  <2>4. CASE Charge!Tick BY <2>4, TickKeeps
  <2>5. CASE \E c \in Chains, r \in Readings \cup {None} : Charge!Change(c, r) BY <2>5, ChangeKeeps
  <2>6. CASE \E d \in {-2, 2} : Charge!Step(d) BY <2>6, StepKeeps
  <2>7. CASE UNCHANGED Charge!chargeVars
    BY <2>7 DEF Charge!chargeVars, ChargeIInv, ChargeTypes, ChargeData, ChargeClock, ChargeDown, ChargeOwnRead,
      ChargeCacheLag, ChargeTakenLag, ChargeCut, Charge!CurrentsInRange, Charge!Lag, Charge!Source
  <2>8. QED BY <2>1, <2>2, <2>3, <2>4, <2>5, <2>6, <2>7 DEF Charge!Next
<1>3. QED BY <1>1, <1>2, PTL DEF Charge!Spec

LEMMA CutoffFollows == ASSUME ChargeIInv PROVE Charge!CutoffArrives
<1> SUFFICES ASSUME ~back, steady = Charge!Lag, currents # None, currents.data = taken, NEW c \in Chains
             PROVE  /\ cells[c].high # None /\ cells[c].high >= 360 => currents.ccl = 0
                    /\ cells[c].low # None /\ cells[c].low <= 270 => currents.dcl = 0
                    /\ cells[c].charge = FALSE /\ (Charge!Measured(cells) \/ ~polling) => currents.ccl = 0
                    /\ cells[c].discharge = FALSE /\ (Charge!Measured(cells) \/ ~polling) => currents.dcl = 0
  BY DEF Charge!CutoffArrives, Charge!UpToDate
<1> USE DEF ChargeIInv
<1>1. steady = 2 * CellInterval + 2 /\ CellInterval \in Nat BY ChargeAssumption DEF Charge!Lag
<1>2. taken = Charge!Together(Charge!Source(cells)) BY <1>1 DEF ChargeTakenLag
<1>3. cells \in ChargeChains /\ cells[c] # None BY <1>1 DEF ChargeTypes, ChargeDown
<1>4. cells[c] \in Readings BY <1>3 DEF ChargeChains
<1>5. cells[c].high \in {None} \cup Int /\ cells[c].low \in {None} \cup Int
      /\ (cells[c].high = None <=> cells[c].low = None)
  <2>1. PICK r \in Readings : r = cells[c] BY <1>4
  <2>2. r["high"] = r.high /\ r["low"] = r.low OBVIOUS
  <2>3. r.high \in {None} \cup Int /\ r.low \in {None} \cup Int /\ (r.high = None <=> r.low = None)
    BY <2>2, ReadingIs
  <2>4. QED BY <2>1, <2>3
<1>6. cells[c].high # None \/ cells[c].low # None => Charge!Measured(cells)
  <2> SUFFICES ASSUME cells[c].high # None PROVE Charge!Measured(cells) BY <1>5
  <2>1. cells[c] \in Charge!Entries(cells) BY <1>3 DEF Charge!Entries
  <2>2. cells[c]["high"] # None OBVIOUS
  <2>3. QED BY <2>1, <2>2 DEF Charge!Measured
<1>7. SUFFICES ASSUME Charge!Measured(cells) \/ ~polling
      PROVE  /\ cells[c].charge = FALSE \/ (cells[c].high # None /\ cells[c].high >= 360) => currents.ccl = 0
             /\ cells[c].discharge = FALSE \/ (cells[c].low # None /\ cells[c].low <= 270) => currents.dcl = 0
  BY <1>6
<1>8. taken = Charge!Together(cells) BY <1>2, <1>3, <1>7, SourceIs
<1>9. PICK data : data = Charge!Together(cells) OBVIOUS
<1>10. /\ cells[c].charge = FALSE => data.charge = FALSE
       /\ cells[c].discharge = FALSE => data.discharge = FALSE
       /\ cells[c].high \in Int => data.high \in Int /\ data.high >= cells[c].high
       /\ cells[c].low \in Int => data.low \in Int /\ data.low <= cells[c].low
  BY <1>3, <1>4, <1>9, TogetherIs
<1>11. /\ data.charge = FALSE \/ (data.high \in Int /\ data.high >= 360) => Charge!Ccl(data) = 0
       /\ data.discharge = FALSE \/ (data.low \in Int /\ data.low <= 270) => Charge!Dcl(data) = 0
  BY <1>3, <1>9, CclIs, DclIs
<1>12. /\ Charge!Ccl(data) = 0 => currents.ccl = 0
       /\ Charge!Dcl(data) = 0 => currents.dcl = 0
  BY <1>8, <1>9 DEF ChargeCut
<1>13. cells[c].high # None /\ cells[c].high >= 360 => data.high \in Int /\ data.high >= 360
  BY <1>5, <1>10
<1>14. cells[c].low # None /\ cells[c].low <= 270 => data.low \in Int /\ data.low <= 270
  BY <1>5, <1>10
<1>15. QED BY <1>10, <1>11, <1>12, <1>13, <1>14

\* What the client does is, as far as the part goes, what the part does.
LEMMA ChargeRuns == Spec => Charge!Spec
<1>1. Init => Charge!Init BY DEF Init
<1>2. [Next]_vars => [Charge!Next]_Charge!chargeVars
  <2> SUFFICES ASSUME [Next]_vars PROVE Charge!Next \/ UNCHANGED chargeVars
    BY DEF Charge!chargeVars, chargeVars
  <2>1. CASE UNCHANGED vars BY <2>1 DEF vars
  <2>2. ASSUME NEW p \in {"grid", "write", "bus", "shunt", "ess", "charge", "reader"}, p # "charge", Only(p)
        PROVE  UNCHANGED chargeVars
    BY <2>2 DEF Only
  <2>3. QED BY <2>1, <2>2 DEF Next
<1>3. QED BY <1>1, <1>2, PTL DEF Spec, Charge!Spec

\* A cell beyond a cutoff for two intervals has the current stopped at once, whatever
\* the other chains say, and so has a chain that forbids it, if any chain is measured
\* or the control loop reads the bus itself; the limits stay in the battery's range,
\* for any chains and clock (dvcc.py, victron.py).
THEOREM CellsStayProtected == Spec => []CellsAreProtected
<1>1. ChargeIInv => CellsAreProtected BY CutoffFollows DEF CellsAreProtected, ChargeIInv
<1>2. QED BY <1>1, ChargeRuns, ChargeInductive, PTL

=============================================================================
