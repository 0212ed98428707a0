------------------------- MODULE GridSelection_proofs -------------------------
(***************************************************************************)
(* Theorems about GridSelection, for any ages, recovery times and changes. *)
(***************************************************************************)
EXTENDS GridSelection, FiniteSetTheorems, TLAPS

\* The ages are numbers.
ConstantsOK == MaxAge \in Nat /\ ReadLimit \in Nat

-----------------------------------------------------------------------------
(* The backup measurement: how old it is and who gave it *)

MeterTypes ==
  /\ backup \in [generation : Nat, fields : Measurements, read : 0 .. ReadLimit + 1, deadline : 0 .. MaxAge]
  /\ reading \in {None} \cup [generation : Nat, fields : {None} \cup Measurements]
  /\ meter \in Ages

\* What is left of the deadline is left of the measurement's own lifetime.
LifetimeBounded ==
  backup.fields.ok /\ backup.deadline > 0 => backup.fields.age + backup.deadline <= MaxAge

\* A value of a service that left waits for its signal, which raises the generation
\* and so drops what is being read from the service that left.
DepartureSignalled ==
  /\ backup.fields.ok /\ backup.fields.departed => gone
  /\ reading # None =>
       /\ reading.generation <= backup.generation
       /\ reading.fields # None /\ reading.fields.departed /\ reading.generation = backup.generation => gone

MeterInv == MeterTypes /\ LifetimeBounded /\ DepartureSignalled

LEMMA OlderAge ==
  ASSUME ConstantsOK, NEW limit \in Nat, NEW t \in 0 .. limit + 1
  PROVE  Older(t, limit) \in 0 .. limit + 1 /\ Older(t, limit) <= t + 1
BY DEF Older

LEMMA AgedFields ==
  ASSUME ConstantsOK, NEW f \in Measurements
  PROVE  /\ Aged(f) \in Measurements
         /\ Aged(f).ok = f.ok /\ Aged(f).departed = f.departed
         /\ Aged(f).age <= f.age + 1
<1>1. f.age \in 0 .. MaxAge + 1 BY DEF Measurements, Ages
<1>2. Older(f.age, MaxAge) \in Ages /\ Older(f.age, MaxAge) <= f.age + 1
  BY <1>1, OlderAge DEF ConstantsOK, Ages
<1>3. Aged(f) = [ok |-> f.ok, age |-> Older(f.age, MaxAge), departed |-> f.departed]
  BY DEF Aged, Measurements
<1>4. QED BY <1>2, <1>3 DEF Measurements

LEMMA NoFieldsType == ASSUME ConstantsOK PROVE NoFields \in Measurements /\ ~NoFields.ok /\ ~NoFields.departed
BY DEF NoFields, Measurements, Ages, ConstantsOK

LEMMA InitMeterInv == ASSUME ConstantsOK, Init PROVE MeterInv
<1>1. MeterTypes BY NoFieldsType DEF Init, MeterTypes, ConstantsOK, Ages
<1>2. LifetimeBounded BY NoFieldsType DEF Init, LifetimeBounded
<1>3. DepartureSignalled BY NoFieldsType DEF Init, DepartureSignalled
<1>4. QED BY <1>1, <1>2, <1>3 DEF MeterInv

LEMMA PollBeginsKeeps == ASSUME MeterInv, PollBegins PROVE MeterInv'
<1> USE DEF MeterInv, PollBegins
<1>1. MeterTypes' BY DEF MeterTypes
<1>2. LifetimeBounded' BY DEF LifetimeBounded
<1>3. DepartureSignalled' BY DEF DepartureSignalled, MeterTypes
<1>4. QED BY <1>1, <1>2, <1>3

LEMMA PollAnswersKeeps == ASSUME ConstantsOK, MeterInv, PollAnswers PROVE MeterInv'
<1> USE DEF MeterInv
<1>1. PICK f \in Measurements : reading' = [reading EXCEPT !.fields = f] /\ ~f.departed
  <2>1. CASE reading' = [reading EXCEPT !.fields = [ok |-> TRUE, age |-> meter, departed |-> FALSE]]
    <3> DEFINE f == [ok |-> TRUE, age |-> meter, departed |-> FALSE]
    <3>1. f \in Measurements /\ ~f.departed BY DEF MeterTypes, Measurements
    <3>2. QED BY <2>1, <3>1
  <2>2. CASE reading' = [reading EXCEPT !.fields = NoFields] BY <2>2, NoFieldsType
  <2>3. QED BY <2>1, <2>2 DEF PollAnswers
<1>2. reading \in [generation : Nat, fields : {None} \cup Measurements]
  BY DEF PollAnswers, MeterTypes
<1>3. reading' = [generation |-> reading.generation, fields |-> f] BY <1>1, <1>2
<1>4. MeterTypes' BY <1>2, <1>3 DEF PollAnswers, MeterTypes
<1>5. LifetimeBounded' BY DEF PollAnswers, LifetimeBounded
<1>6. DepartureSignalled' BY <1>1, <1>3 DEF PollAnswers, DepartureSignalled
<1>7. QED BY <1>4, <1>5, <1>6

LEMMA PollEndsKeeps == ASSUME ConstantsOK, MeterInv, PollEnds PROVE MeterInv'
<1> USE DEF MeterInv
<1>1. reading.generation \in Nat /\ reading.fields \in Measurements
  BY DEF PollEnds, MeterTypes
<1>2. CASE reading.generation # backup.generation
  <2>1. backup' = backup /\ reading' = None /\ gone' = gone /\ meter' = meter
    BY <1>2 DEF PollEnds, Replace
  <2>2. QED BY <2>1 DEF MeterTypes, LifetimeBounded, DepartureSignalled
<1>3. CASE reading.generation = backup.generation
  <2> DEFINE f == reading.fields
  <2>1. /\ backup' = [generation |-> backup.generation, fields |-> f, read |-> 0, deadline |-> Deadline(f)]
        /\ reading' = None /\ gone' = gone /\ meter' = meter
    BY <1>3 DEF PollEnds, Replace, MeterTypes
  <2>2. f.age \in Ages /\ Deadline(f) \in 0 .. MaxAge /\ (Deadline(f) > 0 => f.age + Deadline(f) <= MaxAge)
    BY <1>1 DEF Deadline, Measurements, Ages, ConstantsOK
  <2>3. MeterTypes' BY <1>1, <2>1, <2>2 DEF MeterTypes, ConstantsOK
  <2>4. LifetimeBounded' BY <2>1, <2>2 DEF LifetimeBounded
  <2>5. DepartureSignalled' BY <1>3, <2>1 DEF DepartureSignalled, PollEnds
  <2>6. QED BY <2>3, <2>4, <2>5
<1>4. QED BY <1>2, <1>3

LEMMA OwnerChangesKeeps == ASSUME ConstantsOK, MeterInv, OwnerChanges PROVE MeterInv'
<1> USE DEF MeterInv
<1>1. /\ backup' = [generation |-> backup.generation + 1, fields |-> NoFields, read |-> backup.read, deadline |-> 0]
      /\ reading' = reading /\ meter' = meter
  BY DEF OwnerChanges, Invalidate, MeterTypes
<1>2. MeterTypes' BY <1>1, NoFieldsType DEF MeterTypes, ConstantsOK
<1>3. LifetimeBounded' BY <1>1, NoFieldsType DEF LifetimeBounded
<1>4. DepartureSignalled'
  <2>1. ~backup'.fields.ok BY <1>1, NoFieldsType
  <2>2. reading' # None => reading'.generation < backup'.generation
    BY <1>1 DEF DepartureSignalled, MeterTypes
  <2>3. reading' # None => reading'.generation \in Nat /\ backup'.generation \in Nat
    BY <1>1 DEF MeterTypes
  <2>4. QED BY <2>1, <2>2, <2>3 DEF DepartureSignalled
<1>5. QED BY <1>2, <1>3, <1>4

LEMMA MeterRestartsKeeps == ASSUME ConstantsOK, MeterInv, MeterRestarts PROVE MeterInv'
<1> USE DEF MeterInv
<1>1. gone' = TRUE /\ meter' = meter BY DEF MeterRestarts
<1>2. /\ backup' \in [generation : Nat, fields : Measurements, read : 0 .. ReadLimit + 1, deadline : 0 .. MaxAge]
      /\ backup'.generation = backup.generation /\ backup'.deadline = backup.deadline
      /\ backup'.fields.ok = backup.fields.ok /\ backup'.fields.age = backup.fields.age
  BY DEF MeterRestarts, MeterTypes, Measurements
<1>3. /\ reading' \in {None} \cup [generation : Nat, fields : {None} \cup Measurements]
      /\ reading' # None => reading # None /\ reading'.generation = reading.generation
  BY DEF MeterRestarts, MeterTypes, Measurements
<1>4. MeterTypes' BY <1>1, <1>2, <1>3 DEF MeterTypes
<1>5. LifetimeBounded' BY <1>2 DEF LifetimeBounded
<1>6. DepartureSignalled' BY <1>1, <1>2, <1>3 DEF DepartureSignalled
<1>7. QED BY <1>4, <1>5, <1>6

LEMMA TickKeeps == ASSUME ConstantsOK, MeterInv, Tick PROVE MeterInv'
<1> USE DEF MeterInv
<1> DEFINE left_ == IF backup.deadline = 0 THEN 0 ELSE backup.deadline - 1
<1>1. gone' = gone /\ meter' \in Ages
  <2>1. gone' = gone BY DEF Tick
  <2>2. meter' = Older(meter, MaxAge) BY DEF Tick
  <2>3. meter \in 0 .. MaxAge + 1 /\ MaxAge \in Nat BY DEF MeterTypes, Ages, ConstantsOK
  <2>4. QED BY <2>1, <2>2, <2>3, OlderAge DEF Ages
<1>2. backup.fields \in Measurements /\ Older(backup.read, ReadLimit) \in 0 .. ReadLimit + 1 /\ left_ \in 0 .. MaxAge
  <2>1. backup.fields \in Measurements /\ backup.read \in 0 .. ReadLimit + 1 /\ backup.deadline \in 0 .. MaxAge
    BY DEF MeterTypes
  <2>2. Older(backup.read, ReadLimit) \in 0 .. ReadLimit + 1 BY <2>1, OlderAge DEF ConstantsOK
  <2>3. left_ \in 0 .. MaxAge BY <2>1 DEF ConstantsOK
  <2>4. QED BY <2>1, <2>2, <2>3
<1>3. backup' = [generation |-> backup.generation, fields |-> Aged(backup.fields),
                 read |-> Older(backup.read, ReadLimit), deadline |-> left_]
  BY DEF Tick, MeterTypes
<1>4. \/ reading' = reading /\ (reading = None \/ reading.fields = None)
      \/ /\ reading # None /\ reading.fields # None /\ reading.fields \in Measurements
         /\ reading' = [generation |-> reading.generation, fields |-> Aged(reading.fields)]
  BY DEF Tick, MeterTypes
<1>5. MeterTypes' BY <1>1, <1>2, <1>3, <1>4, AgedFields DEF MeterTypes
<1>6. LifetimeBounded'
  <2>1. backup.fields.age \in Nat /\ Aged(backup.fields).age \in Nat /\ backup.deadline \in Nat /\ MaxAge \in Nat
    BY <1>2, AgedFields DEF Measurements, Ages, MeterTypes, ConstantsOK
  <2>2. Aged(backup.fields).ok = backup.fields.ok /\ Aged(backup.fields).age <= backup.fields.age + 1
    BY <1>2, AgedFields
  <2>3. backup'.fields.ok = backup.fields.ok /\ backup'.fields.age <= backup.fields.age + 1 /\ backup'.deadline = left_
    BY <1>3, <2>2
  <2>4. backup'.fields.age \in Nat BY <1>3, <2>1
  <2>5. QED BY <2>1, <2>3, <2>4 DEF LifetimeBounded
<1>7. DepartureSignalled'
  <2>1. backup'.generation = backup.generation /\ backup'.fields.ok = backup.fields.ok
        /\ backup'.fields.departed = backup.fields.departed
    BY <1>2, <1>3, AgedFields
  <2>2. reading' # None =>
          /\ reading # None /\ reading'.generation = reading.generation
          /\ reading'.fields # None => reading.fields # None /\ reading'.fields.departed = reading.fields.departed
    BY <1>4, AgedFields
  <2>3. QED BY <1>1, <2>1, <2>2 DEF DepartureSignalled
<1>8. QED BY <1>5, <1>6, <1>7

\* The filter's thread, the control cycle, the primary meter, and a stuttering step
LEMMA OthersKeepMeters ==
  ASSUME ConstantsOK, MeterInv, UNCHANGED <<gone, reading, backup>>, meter' \in {meter, 0}
  PROVE  MeterInv'
BY DEF MeterInv, MeterTypes, LifetimeBounded, DepartureSignalled, Ages, ConstantsOK

\* A backup value that select() accepts is younger than MaxAge and from a service
\* whose departure has not been signalled, for any ages and delays of the poll
\* thread (grid_backup.py, replace and invalidate).
THEOREM BackupIsTrusted == ASSUME ConstantsOK PROVE Spec => []BackupTrusted
<1>1. Init => MeterInv BY InitMeterInv
<1>2. MeterInv /\ [Next]_vars => MeterInv'
  <2> SUFFICES ASSUME MeterInv, [Next]_vars PROVE MeterInv'
    OBVIOUS
  <2>1. CASE PollBegins BY <2>1, PollBeginsKeeps
  <2>2. CASE PollAnswers BY <2>2, PollAnswersKeeps
  <2>3. CASE PollEnds BY <2>3, PollEndsKeeps
  <2>4. CASE OwnerChanges BY <2>4, OwnerChangesKeeps
  <2>5. CASE SampleReads \/ SampleEnds BY <2>5, OthersKeepMeters DEF SampleReads, SampleEnds
  <2>6. CASE CycleReads \/ CycleGate \/ CycleCalculates \/ CycleRechecks \/ CycleWrites
    BY <2>6, OthersKeepMeters DEF CycleReads, CycleGate, CycleCalculates, CycleRechecks, CycleWrites
  <2>7. CASE PrimaryChanges \/ MeterMeasures BY <2>7, OthersKeepMeters DEF PrimaryChanges, MeterMeasures
  <2>8. CASE MeterRestarts BY <2>8, MeterRestartsKeeps
  <2>9. CASE Tick BY <2>9, TickKeeps
  <2>10. CASE UNCHANGED vars BY <2>10, OthersKeepMeters DEF vars
  <2>11. QED BY <2>1, <2>2, <2>3, <2>4, <2>5, <2>6, <2>7, <2>8, <2>9, <2>10 DEF Next
<1>3. MeterInv => BackupTrusted
  <2> SUFFICES ASSUME MeterInv, Ready PROVE backup.fields.age < MaxAge /\ (backup.fields.departed => gone)
    BY DEF BackupTrusted
  <2>1. backup.fields.ok /\ backup.deadline > 0 BY DEF Ready
  <2>2. backup.fields.age \in Nat /\ backup.deadline \in Nat BY DEF MeterInv, MeterTypes, Measurements, Ages
  <2>3. backup.fields.age < MaxAge BY <2>1, <2>2 DEF MeterInv, LifetimeBounded, ConstantsOK
  <2>4. backup.fields.departed => gone BY <2>1 DEF MeterInv, DepartureSignalled
  <2>5. QED BY <2>3, <2>4
<1>4. QED BY <1>1, <1>2, <1>3, PTL DEF Spec

-----------------------------------------------------------------------------
(* The selections that a decision rests on *)

SourceTypes ==
  /\ choice \in [using : BOOLEAN, since : {None} \cup Nat, selection : Nat]
  /\ filter \in [generation : Nat, mixed : SUBSET Nat]
  /\ sampling \in {None} \cup [generation : Nat, raw : Nat]
  /\ loop \in [at : {"idle", "gate", "calculate", "recheck", "write"}, valid : BOOLEAN,
               selection : Nat, control : Nat, lost : BOOLEAN, used : SUBSET Nat]

\* A selection between the one control has accepted and the newest
Known(selection) == loop.control <= selection /\ selection <= choice.selection

\* Selections only grow, and a reset leaves nothing of those before the accepted
\* one, in the filter or in the sample being read.
HistoriesAreKnown ==
  /\ Known(loop.selection)
  /\ \A m \in filter.mixed : Known(m)
  /\ sampling # None =>
       /\ sampling.generation <= filter.generation
       /\ sampling.generation = filter.generation => Known(sampling.raw)

\* A cycle behind the gate works on the accepted selection.
CycleIsKnown ==
  /\ loop.at \in {"calculate", "recheck", "write"} => loop.selection = loop.control
  /\ loop.at = "recheck" => loop.selection \in loop.used /\ \A m \in loop.used : Known(m)
  /\ loop.at = "write" => loop.used = {loop.control}

SourceInv == SourceTypes /\ HistoriesAreKnown /\ CycleIsKnown

LEMMA InitSourceInv == ASSUME Init PROVE SourceInv
<1>1. SourceTypes BY DEF Init, SourceTypes
<1>2. HistoriesAreKnown BY DEF Init, HistoriesAreKnown, Known
<1>3. CycleIsKnown BY DEF Init, CycleIsKnown
<1>4. QED BY <1>1, <1>2, <1>3 DEF SourceInv

\* select() keeps the selection or takes the next one.
LEMMA Selects ==
  ASSUME SourceInv, Select
  PROVE  /\ choice' \in [using : BOOLEAN, since : {None} \cup Nat, selection : Nat]
         /\ choice'.selection \in {choice.selection, choice.selection + 1}
<1>1. UseBackup \in BOOLEAN BY DEF UseBackup
<1>2. Since \in {None} \cup Nat BY DEF Since, SourceInv, SourceTypes
<1>3. choice.selection + (IF UseBackup # choice.using THEN 1 ELSE 0) \in {choice.selection, choice.selection + 1}
  BY DEF SourceInv, SourceTypes
<1>4. choice.selection \in Nat BY DEF SourceInv, SourceTypes
<1>5. QED BY <1>1, <1>2, <1>3, <1>4 DEF Select

\* What was known stays known while control keeps the selection it accepted.
LEMMA KnownStays ==
  ASSUME SourceInv, NEW m \in Nat, Known(m),
         loop'.control = loop.control, choice'.selection \in {choice.selection, choice.selection + 1}
  PROVE  Known(m)'
BY DEF Known, SourceInv, SourceTypes

LEMMA SampleReadsKeeps == ASSUME SourceInv, SampleReads PROVE SourceInv'
<1>1. /\ choice' \in [using : BOOLEAN, since : {None} \cup Nat, selection : Nat]
      /\ choice'.selection \in {choice.selection, choice.selection + 1}
  BY Selects DEF SampleReads
<1>2. filter' = filter /\ loop' = loop BY DEF SampleReads
<1>3. sampling' \in {None, [generation |-> filter.generation, raw |-> choice'.selection]}
  BY DEF SampleReads
<1>4. SourceTypes' BY <1>1, <1>2, <1>3 DEF SourceInv, SourceTypes
<1>5. HistoriesAreKnown'
  <2>1. Known(loop.selection)' /\ \A m \in filter.mixed : Known(m)'
    BY <1>1, <1>2, KnownStays DEF SourceInv, SourceTypes, HistoriesAreKnown
  <2>2. sampling' # None => sampling'.generation = filter'.generation /\ sampling'.raw = choice'.selection
    BY <1>2, <1>3
  <2>3. Known(choice.selection)'
    BY <1>1, <1>2 DEF Known, SourceInv, SourceTypes, HistoriesAreKnown
  <2>4. QED BY <1>2, <1>4, <2>1, <2>2, <2>3 DEF HistoriesAreKnown, Known, SourceTypes
<1>6. CycleIsKnown'
  BY <1>1, <1>2, KnownStays DEF SourceInv, SourceTypes, CycleIsKnown
<1>7. QED BY <1>4, <1>5, <1>6 DEF SourceInv

LEMMA SampleEndsKeeps == ASSUME SourceInv, SampleEnds PROVE SourceInv'
<1>1. sampling \in [generation : Nat, raw : Nat] /\ sampling' = None /\ choice' = choice /\ loop' = loop
  BY DEF SampleEnds, SourceInv, SourceTypes
<1>2. \/ filter' = filter
      \/ /\ sampling.generation = filter.generation
         /\ filter' = [generation |-> filter.generation, mixed |-> filter.mixed \cup {sampling.raw}]
  BY DEF SampleEnds, Mix, SourceInv, SourceTypes
<1>3. SourceTypes' BY <1>1, <1>2 DEF SourceInv, SourceTypes
<1>4. HistoriesAreKnown'
  BY <1>1, <1>2 DEF SampleEnds, SourceInv, HistoriesAreKnown, Known
<1>5. CycleIsKnown' BY <1>1 DEF SourceInv, CycleIsKnown, Known
<1>6. QED BY <1>3, <1>4, <1>5 DEF SourceInv

LEMMA CycleReadsKeeps == ASSUME SourceInv, CycleReads PROVE SourceInv'
<1>1. /\ choice' \in [using : BOOLEAN, since : {None} \cup Nat, selection : Nat]
      /\ choice'.selection \in {choice.selection, choice.selection + 1}
  BY Selects DEF CycleReads
<1>2. Usable \in BOOLEAN BY DEF Usable
<1>3. /\ loop' \in [at : {"gate"}, valid : BOOLEAN, selection : {choice'.selection}, control : {loop.control},
                    lost : BOOLEAN, used : {loop.used}]
      /\ filter' = filter /\ sampling' = sampling
  BY <1>2 DEF CycleReads, SourceInv, SourceTypes
<1>4. SourceTypes' BY <1>1, <1>3 DEF SourceInv, SourceTypes
<1>5. HistoriesAreKnown'
  <2>1. \A m \in filter.mixed : Known(m)'
    BY <1>1, <1>3, KnownStays DEF SourceInv, SourceTypes, HistoriesAreKnown
  <2>2. sampling # None /\ sampling.generation = filter.generation => Known(sampling.raw)'
    BY <1>1, <1>3, KnownStays DEF SourceInv, SourceTypes, HistoriesAreKnown
  <2>3. Known(loop.selection)'
    BY <1>1, <1>3 DEF Known, SourceInv, SourceTypes, HistoriesAreKnown
  <2>4. QED BY <1>3, <2>1, <2>2, <2>3 DEF SourceInv, HistoriesAreKnown, Known
<1>6. CycleIsKnown' BY <1>3 DEF CycleIsKnown
<1>7. QED BY <1>4, <1>5, <1>6 DEF SourceInv

\* The gate ends the cycle, the histories with it when there is an outage or another
\* selection, or lets the cycle go on with the accepted one.
LEMMA GateKeeps ==
  ASSUME SourceInv, NEW valid \in BOOLEAN, NEW selection \in Nat, NEW next \in {"calculate", "write"},
         selection = loop.selection, Gate(valid, selection, next),
         next = "write" => loop.at = "recheck" /\ selection = choice'.selection,
         choice' \in [using : BOOLEAN, since : {None} \cup Nat, selection : Nat],
         choice'.selection \in {choice.selection, choice.selection + 1}, sampling' = sampling
  PROVE  SourceInv'
<1>0. /\ filter.generation \in Nat /\ filter.mixed \subseteq Nat /\ loop.used \subseteq Nat
      /\ choice.selection \in Nat /\ choice'.selection \in Nat /\ loop.selection \in Nat /\ loop.control \in Nat
      /\ loop.lost \in BOOLEAN /\ loop.valid \in BOOLEAN
  BY DEF SourceInv, SourceTypes
<1>1. CASE /\ ~valid
           /\ filter' = IF loop.lost THEN filter ELSE Reset(filter)
           /\ loop' = [loop EXCEPT !.at = "idle", !.lost = TRUE, !.used = {}]
  <2>1. loop' = [at |-> "idle", valid |-> loop.valid, selection |-> loop.selection, control |-> loop.control,
                 lost |-> TRUE, used |-> {}]
    BY <1>1 DEF SourceInv, SourceTypes
  <2>2. filter' \in {filter, [generation |-> filter.generation + 1, mixed |-> {}]} BY <1>1 DEF Reset
  <2>3. SourceTypes' BY <1>0, <2>1, <2>2 DEF SourceInv, SourceTypes
  <2>4. Known(loop.selection)' BY <1>0, <2>1 DEF SourceInv, HistoriesAreKnown, Known
  <2>5. \A m \in filter'.mixed : Known(m)'
    BY <1>0, <2>1, <2>2 DEF SourceInv, HistoriesAreKnown, Known
  <2>6. sampling # None =>
          /\ sampling.generation <= filter'.generation
          /\ sampling.generation = filter'.generation => Known(sampling.raw)'
    BY <1>0, <2>1, <2>2 DEF SourceInv, SourceTypes, HistoriesAreKnown, Known
  <2>7. CycleIsKnown' BY <2>1 DEF CycleIsKnown
  <2>8. QED BY <2>3, <2>4, <2>5, <2>6, <2>7 DEF SourceInv, HistoriesAreKnown
<1>2. CASE /\ valid /\ selection # loop.control
           /\ filter' = Reset(filter)
           /\ loop' = [loop EXCEPT !.at = "idle", !.control = selection, !.used = {}]
  <2>1. loop' = [at |-> "idle", valid |-> loop.valid, selection |-> loop.selection, control |-> selection,
                 lost |-> loop.lost, used |-> {}]
    BY <1>2 DEF SourceInv, SourceTypes
  <2>2. filter' = [generation |-> filter.generation + 1, mixed |-> {}] BY <1>2 DEF Reset
  <2>3. SourceTypes' BY <1>0, <2>1, <2>2 DEF SourceInv, SourceTypes
  <2>4. Known(loop.selection)' BY <1>0, <2>1 DEF SourceInv, HistoriesAreKnown, Known
  <2>5. sampling # None => sampling.generation < filter'.generation
    BY <1>0, <2>2 DEF SourceInv, SourceTypes, HistoriesAreKnown
  <2>6. sampling # None => sampling.generation \in Nat /\ filter'.generation \in Nat
    BY <1>0, <2>2 DEF SourceInv, SourceTypes
  <2>7. HistoriesAreKnown' BY <2>2, <2>4, <2>5, <2>6 DEF HistoriesAreKnown
  <2>8. CycleIsKnown' BY <2>1 DEF CycleIsKnown
  <2>9. QED BY <2>3, <2>7, <2>8 DEF SourceInv
<1>3. CASE /\ valid /\ selection = loop.control
           /\ loop' = [loop EXCEPT !.at = next, !.lost = FALSE]
           /\ UNCHANGED filter
  <2>1. loop' = [at |-> next, valid |-> loop.valid, selection |-> loop.selection, control |-> loop.control,
                 lost |-> FALSE, used |-> loop.used]
    BY <1>3 DEF SourceInv, SourceTypes
  <2>2. SourceTypes' BY <1>0, <1>3, <2>1 DEF SourceInv, SourceTypes
  <2>3. HistoriesAreKnown'
    <3>1. Known(loop.selection)' BY <1>0, <2>1 DEF SourceInv, HistoriesAreKnown, Known
    <3>2. \A m \in filter'.mixed : Known(m)'
      BY <1>0, <1>3, <2>1 DEF SourceInv, HistoriesAreKnown, Known
    <3>3. sampling # None =>
            /\ sampling.generation <= filter'.generation
            /\ sampling.generation = filter'.generation => Known(sampling.raw)'
      BY <1>0, <1>3, <2>1 DEF SourceInv, SourceTypes, HistoriesAreKnown, Known
    <3>4. QED BY <3>1, <3>2, <3>3 DEF HistoriesAreKnown
  <2>4. CycleIsKnown'
    <3>1. CASE next = "calculate" BY <1>3, <2>1, <3>1 DEF CycleIsKnown
    <3>2. CASE next = "write"
      <4>1. loop.at = "recheck" /\ loop.control = choice'.selection BY <1>3, <3>2
      <4>2. loop.selection \in loop.used /\ \A m \in loop.used : Known(m)
        BY <4>1 DEF SourceInv, CycleIsKnown
      <4>3. \A m \in loop.used : m = loop.control
        BY <1>0, <4>1, <4>2 DEF Known
      <4>4. loop.used = {loop.control} BY <4>2, <4>3
      <4>5. QED BY <1>3, <2>1, <3>2, <4>4 DEF CycleIsKnown
    <3>3. QED BY <3>1, <3>2
  <2>5. QED BY <2>2, <2>3, <2>4 DEF SourceInv
<1>4. QED BY <1>1, <1>2, <1>3 DEF Gate

LEMMA CycleGateKeeps == ASSUME SourceInv, CycleGate PROVE SourceInv'
<1>1. loop.valid \in BOOLEAN /\ loop.selection \in Nat /\ choice' = choice /\ sampling' = sampling
  BY DEF CycleGate, SourceInv, SourceTypes
<1>2. Gate(loop.valid, loop.selection, "calculate") BY DEF CycleGate
<1>3. choice \in [using : BOOLEAN, since : {None} \cup Nat, selection : Nat] BY DEF SourceInv, SourceTypes
<1>4. QED BY <1>1, <1>2, <1>3, GateKeeps

LEMMA CycleCalculatesKeeps == ASSUME SourceInv, CycleCalculates PROVE SourceInv'
<1>1. /\ loop' = [loop EXCEPT !.at = "recheck", !.used = filter.mixed \cup {loop.selection}]
      /\ choice' = choice /\ filter' = filter /\ sampling' = sampling
  BY DEF CycleCalculates
<1>2. SourceTypes' BY <1>1 DEF SourceInv, SourceTypes
<1>3. loop'.control = loop.control /\ loop'.selection = loop.selection /\ loop'.at = "recheck"
      /\ loop'.used = filter.mixed \cup {loop.selection}
  BY <1>1 DEF SourceInv, SourceTypes
<1>4. HistoriesAreKnown' BY <1>1, <1>3 DEF SourceInv, HistoriesAreKnown, Known
<1>5. CycleIsKnown'
  BY <1>1, <1>3 DEF CycleCalculates, SourceInv, CycleIsKnown, HistoriesAreKnown, Known
<1>6. QED BY <1>2, <1>4, <1>5 DEF SourceInv

LEMMA CycleRechecksKeeps == ASSUME SourceInv, CycleRechecks PROVE SourceInv'
<1>1. /\ choice' \in [using : BOOLEAN, since : {None} \cup Nat, selection : Nat]
      /\ choice'.selection \in {choice.selection, choice.selection + 1}
  BY Selects DEF CycleRechecks
<1>2. sampling' = sampling /\ loop.at = "recheck" BY DEF CycleRechecks
<1>3. CASE choice'.selection # loop.selection
  <2>1. loop' = [loop EXCEPT !.at = "idle", !.used = {}] /\ filter' = filter
    BY <1>3 DEF CycleRechecks
  <2>2. SourceTypes' BY <1>1, <1>2, <2>1 DEF SourceInv, SourceTypes
  <2>3. loop'.control = loop.control /\ loop'.selection = loop.selection /\ loop'.at = "idle"
    BY <2>1 DEF SourceInv, SourceTypes
  <2>4. Known(loop.selection)' /\ \A m \in filter.mixed : Known(m)'
    BY <1>1, <2>3, KnownStays DEF SourceInv, SourceTypes, HistoriesAreKnown
  <2>5. sampling # None /\ sampling.generation = filter.generation => Known(sampling.raw)'
    BY <1>1, <1>2, <2>3, KnownStays DEF SourceInv, SourceTypes, HistoriesAreKnown
  <2>6. HistoriesAreKnown' BY <1>2, <2>1, <2>3, <2>4, <2>5 DEF SourceInv, HistoriesAreKnown, Known
  <2>7. CycleIsKnown' BY <2>3 DEF CycleIsKnown
  <2>8. QED BY <2>2, <2>6, <2>7 DEF SourceInv
<1>4. CASE choice'.selection = loop.selection
  <2>1. Gate(Usable, choice'.selection, "write") BY <1>4 DEF CycleRechecks
  <2>2. Usable \in BOOLEAN BY DEF Usable
  <2>3. loop.selection \in Nat BY DEF SourceInv, SourceTypes
  <2>4. QED BY <1>1, <1>2, <1>4, <2>1, <2>2, <2>3, GateKeeps
<1>5. QED BY <1>3, <1>4

LEMMA CycleWritesKeeps == ASSUME SourceInv, CycleWrites PROVE SourceInv'
<1>1. /\ loop' = [loop EXCEPT !.at = "idle", !.used = {}]
      /\ choice' = choice /\ filter' = filter /\ sampling' = sampling
  BY DEF CycleWrites
<1>2. SourceTypes' BY <1>1 DEF SourceInv, SourceTypes
<1>3. loop'.control = loop.control /\ loop'.selection = loop.selection /\ loop'.at = "idle"
  BY <1>1 DEF SourceInv, SourceTypes
<1>4. HistoriesAreKnown' BY <1>1, <1>3 DEF SourceInv, HistoriesAreKnown, Known
<1>5. CycleIsKnown' BY <1>3 DEF CycleIsKnown
<1>6. QED BY <1>2, <1>4, <1>5 DEF SourceInv

\* The poll thread, the D-Bus loop, the meters, time, and a stuttering step
LEMMA OthersKeepSources ==
  ASSUME SourceInv, UNCHANGED <<filter, sampling, loop>>,
         choice' \in [using : BOOLEAN, since : {None} \cup Nat, selection : {choice.selection}]
  PROVE  SourceInv'
<1>1. choice'.selection = choice.selection OBVIOUS
<1>2. SourceTypes' BY DEF SourceInv, SourceTypes
<1>3. HistoriesAreKnown' BY <1>1 DEF SourceInv, HistoriesAreKnown, Known
<1>4. CycleIsKnown' BY <1>1 DEF SourceInv, CycleIsKnown, Known
<1>5. QED BY <1>2, <1>3, <1>4 DEF SourceInv

\* A setpoint is written only from measurements of one selection, for any number of
\* switches and any interleaving with the filter's thread (_skip_changed_grid and
\* the generations of grid_filter.py).
THEOREM DecisionHasOneSource == Spec => []OneSourcePerDecision
<1>1. Init => SourceInv BY InitSourceInv
<1>2. SourceInv /\ [Next]_vars => SourceInv'
  <2> SUFFICES ASSUME SourceInv, [Next]_vars PROVE SourceInv'
    OBVIOUS
  <2>0. choice \in [using : BOOLEAN, since : {None} \cup Nat, selection : {choice.selection}]
    BY DEF SourceInv, SourceTypes
  <2>1. CASE PollBegins \/ PollAnswers \/ PollEnds \/ OwnerChanges
    BY <2>0, <2>1, OthersKeepSources DEF PollBegins, PollAnswers, PollEnds, OwnerChanges
  <2>2. CASE SampleReads BY <2>2, SampleReadsKeeps
  <2>3. CASE SampleEnds BY <2>3, SampleEndsKeeps
  <2>4. CASE CycleReads BY <2>4, CycleReadsKeeps
  <2>5. CASE CycleGate BY <2>5, CycleGateKeeps
  <2>6. CASE CycleCalculates BY <2>6, CycleCalculatesKeeps
  <2>7. CASE CycleRechecks BY <2>7, CycleRechecksKeeps
  <2>8. CASE CycleWrites BY <2>8, CycleWritesKeeps
  <2>9. CASE PrimaryChanges \/ MeterMeasures \/ MeterRestarts
    BY <2>0, <2>9, OthersKeepSources DEF PrimaryChanges, MeterMeasures, MeterRestarts
  <2>10. CASE Tick
    <3>1. Older(choice.since, Recovery) \in {None} \cup Nat
      BY DEF Older, SourceInv, SourceTypes
    <3>2. choice' \in [using : BOOLEAN, since : {None} \cup Nat, selection : {choice.selection}]
      BY <2>10, <3>1 DEF Tick, SourceInv, SourceTypes
    <3>3. QED BY <2>10, <3>2, OthersKeepSources DEF Tick
  <2>11. CASE UNCHANGED vars BY <2>0, <2>11, OthersKeepSources DEF vars
  <2>12. QED BY <2>1, <2>2, <2>3, <2>4, <2>5, <2>6, <2>7, <2>8, <2>9, <2>10, <2>11 DEF Next
<1>3. SourceInv => OneSourcePerDecision
  BY FS_Singleton DEF SourceInv, CycleIsKnown, OneSourcePerDecision
<1>4. QED BY <1>1, <1>2, <1>3, PTL DEF Spec

=============================================================================
