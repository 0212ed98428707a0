------------------------ MODULE GridTelemetry_proofs ------------------------
(***************************************************************************)
(* Theorems about GridTelemetry, for any meters, inputs, readers, ages and *)
(* number of disturbances that GridAssumption allows.                      *)
(*                                                                         *)
(* The token decides: an overtaken reader has lost it, and one that still  *)
(* has it finds the meter it asked selected.  With a configured source, a  *)
(* restart forgets the meters and no token leads back to one before the    *)
(* system service was read again.                                          *)
(***************************************************************************)
EXTENDS GridTelemetry, FiniteSetTheorems, TLAPS

\* What GridAssumption says, in the form the steps use.
LEMMA ConstantFacts ==
  /\ Inputs \subseteq {0, 1} /\ Numbers \subseteq Nat
  /\ None \notin Sources /\ None \notin Numbers /\ None \notin Nat
  /\ System \notin Sources /\ Meters \subseteq Sources /\ Natives \subseteq Sources
  /\ MaxAge \in Nat /\ Expired \in Nat /\ Expired = MaxAge + 1
  /\ Reconcile \in Nat \ {0} /\ Disturbances \in Nat
  /\ Phases = {1, 2}
BY GridAssumption DEF Numbers, Sources, Expired, Phases

------------------------------------------------------------------------------
(* Paths and values                                                          *)

\* A path is the phase count, a phase's power, or a name or instance of an input.
LEMMA PathKinds ==
  ASSUME NEW path \in Paths
  PROVE  \/ path = <<"count">>
         \/ \E n \in Phases : path = <<"power", n>>
         \/ \E i \in Inputs : path = <<"name", i>>
         \/ \E i \in Inputs : path = <<"inst", i>>
BY DEF Paths

\* A field replaced by a value that the service may show.
LEMMA WithoutTypes ==
  ASSUME NEW f \in SystemFields, NEW g \in SystemFields, NEW path \in Paths
  PROVE  Without(f, path, ValueAt(g, path)) \in SystemFields
<1>1. CASE path = <<"count">>
  BY <1>1 DEF Without, ValueAt, SystemFields
<1>2. CASE \E n \in Phases : path = <<"power", n>>
  BY <1>2 DEF Without, ValueAt, SystemFields
<1>3. CASE \E i \in Inputs : path = <<"name", i>>
  BY <1>3 DEF Without, ValueAt, SystemFields
<1>4. CASE \E i \in Inputs : path = <<"inst", i>>
  BY <1>4 DEF Without, ValueAt, SystemFields
<1>5. QED BY <1>1, <1>2, <1>3, <1>4, PathKinds

\* A value that repeats what is known, and a power, leave the identities alone.
LEMMA WithoutKeepsIdentity ==
  ASSUME NEW f \in SystemFields, NEW g \in SystemFields, NEW path \in Paths,
         path[1] = "power" \/ ValueAt(g, path) = ValueAt(f, path)
  PROVE  /\ Without(f, path, ValueAt(g, path)).name = f.name
         /\ Without(f, path, ValueAt(g, path)).inst = f.inst
<1>1. CASE path = <<"count">>
  BY <1>1 DEF Without, SystemFields
<1>2. CASE \E n \in Phases : path = <<"power", n>>
  BY <1>2 DEF Without, SystemFields
<1>3. CASE \E i \in Inputs : path = <<"name", i>>
  BY <1>3 DEF Without, ValueAt, SystemFields
<1>4. CASE \E i \in Inputs : path = <<"inst", i>>
  BY <1>4 DEF Without, ValueAt, SystemFields
<1>5. QED BY <1>1, <1>2, <1>3, <1>4, PathKinds

\* The largest of some phases, if there is one.
LEMMA CountTypes ==
  ASSUME NEW layout \in SUBSET Phases
  PROVE  Count(layout) \in Phases \cup {None}
<1>1. CASE layout = {}
  BY <1>1 DEF Count
<1>2. CASE layout # {}
  <2>1. \E n \in layout : \A m \in layout : m <= n
    <3>1. CASE 2 \in layout
      BY <3>1, ConstantFacts
    <3>2. CASE 2 \notin layout
      <4>1. \A m \in layout : m = 1
        BY <3>2, ConstantFacts
      <4>2. QED BY <1>2, <4>1
    <3>3. QED BY <3>1, <3>2
  <2>2. Count(layout) \in layout
    BY <1>2, <2>1 DEF Count
  <2>3. QED BY <2>2
<1>3. QED BY <1>1, <1>2

LEMMA TruthsTypes == Truths \subseteq SystemFields
<1> SUFFICES ASSUME NEW layout \in Layouts, NEW at \in [Inputs -> Identities]
             PROVE  TruthOf(layout, at) \in SystemFields
  BY DEF Truths
<1>1. layout \in SUBSET Phases
  BY GridAssumption
<1>2. \A i \in Inputs : at[i] # None => at[i][1] \in Sources /\ at[i][2] \in Numbers
  BY GridAssumption DEF Numbers
<1>3. Count(layout) \in Phases \cup {None}
  BY <1>1, CountTypes
<1>4. QED BY <1>1, <1>2, <1>3 DEF TruthOf, SystemFields

LEMMA NoFieldsTypes == NoFields \in SystemFields
BY DEF NoFields, SystemFields

------------------------------------------------------------------------------
(* The selected source                                                       *)

\* The first input with a name and an instance, if there is one.
LEMMA SelectedTypes ==
  ASSUME NEW f \in SystemFields
  PROVE  /\ Candidates(f) = {} => Selected(f) = <<None, None>>
         /\ Candidates(f) # {} => Selected(f) \in Sources \X Numbers
                                  /\ FirstOf(Candidates(f)) \in Candidates(f)
<1>1. CASE Candidates(f) = {}
  BY <1>1 DEF Selected
<1>2. CASE Candidates(f) # {}
  <2>1. Candidates(f) \subseteq {0, 1}
    BY ConstantFacts DEF Candidates
  <2>2. \E i \in Candidates(f) : \A j \in Candidates(f) : i <= j
    <3>1. CASE 0 \in Candidates(f)
      BY <2>1, <3>1
    <3>2. CASE 0 \notin Candidates(f)
      BY <1>2, <2>1, <3>2
    <3>3. QED BY <3>1, <3>2
  <2>3. FirstOf(Candidates(f)) \in Candidates(f)
    BY <2>2 DEF FirstOf
  <2>4. \A i \in Candidates(f) : f.name[i] \in Sources /\ f.inst[i] \in Numbers
    BY DEF Candidates, SystemFields
  <2>5. QED BY <1>2, <2>3, <2>4 DEF Selected
<1>3. QED BY <1>1, <1>2

\* The selected meter is the selected source.
LEMMA SelectedMeterTypes ==
  ASSUME NEW f \in SystemFields
  PROVE  /\ SelectedMeter(f) \in Meters \cup {None}
         /\ SelectedMeter(f) # None => SelectedMeter(f) = Selected(f)[1]
BY DEF SelectedMeter

\* The selection is a matter of the names and instances alone.
LEMMA SameSelected ==
  ASSUME NEW f \in SystemFields, NEW g \in SystemFields, f.name = g.name, f.inst = g.inst
  PROVE  Selected(f) = Selected(g) /\ SelectedMeter(f) = SelectedMeter(g)
<1>1. Candidates(f) = Candidates(g)
  BY DEF Candidates
<1>2. Selected(f) = Selected(g)
  BY <1>1 DEF Selected
<1>3. QED BY <1>2 DEF SelectedMeter

\* A valid measurement has a source with an instance, and phases.
LEMMA ValidFacts ==
  ASSUME TypeOK, Valid
  PROVE  /\ Selected(fields) \in Sources \X Numbers
         /\ fields.count \in Phases /\ fields.count >= reqPhases
         /\ 1 .. fields.count \subseteq fields.power
         /\ source \in {None, Selected(fields)[1]}
         /\ sourceInst \in {None, Selected(fields)[2]}
         /\ ~ownerError
<1>1. fields \in SystemFields
  BY DEF TypeOK
<1>2. Candidates(fields) # {}
  <2> SUFFICES ASSUME Candidates(fields) = {} PROVE FALSE
    OBVIOUS
  <2>1. {<<fields.name[i], fields.inst[i]>> : i \in Candidates(fields)} = {}
    OBVIOUS
  <2>2. QED BY <2>1, FS_EmptySet DEF Valid, SourceOK
<1>3. QED BY <1>1, <1>2, SelectedTypes DEF Valid, PowerOK, SourceOK

------------------------------------------------------------------------------
(* Type correctness, one lemma per actor.                                    *)

StageTypes == {"idle", "asked", "answered", "meterAsked", "meterAnswered", "finishing"}
MeterTypes == [connected : SUBSET Meters, declared : [Meters -> Declarations \cup {None}],
               ready : SUBSET Meters, required : SUBSET Meters,
               age : [Meters -> 0 .. Expired]]
ReplyTypes(r) == CASE stage[r] = "answered" -> reply[r] \in SystemFields \cup {None}
                   [] stage[r] = "meterAsked" -> reply[r] \in Meters
                   [] stage[r] = "meterAnswered" -> reply[r] \in MeterHealth \cup {None}
                   [] OTHER -> reply[r] = None

LEMMA NoMeterTypes == NoMeter \in MeterTypes
BY ConstantFacts DEF NoMeter, MeterTypes

LEMMA InitTypeOK == Init => TypeOK
<1> SUFFICES ASSUME Init PROVE TypeOK
  OBVIOUS
<1>1. truth \in SystemFields /\ fields \in SystemFields /\ meter \in MeterTypes
  BY TruthsTypes, NoFieldsTypes, NoMeterTypes DEF Init
<1>2. age \in [Paths -> 0 .. Expired] /\ sinceRec \in 0 .. Reconcile /\ disturbances \in 0 .. Disturbances
  BY ConstantFacts DEF Init
<1>3. /\ reqPhases \in 0 .. 2 /\ source \in Sources \cup {None}
      /\ contract \in [id : (Sources \X Numbers) \cup {None}, phases : 0 .. 2]
  BY GridAssumption DEF Init
<1>4. signals \in Seq(SUBSET Messages)
  BY DEF Init
<1>5. QED BY <1>1, <1>2, <1>3, <1>4 DEF Init, TypeOK, MeterTypes

\* A snapshot that is valid pins what it shows.
LEMMA PinTypes ==
  ASSUME TypeOK, PinContract, NoteContract
  PROVE  /\ reqPhases' \in 0 .. 2 /\ source' \in Sources \cup {None}
         /\ sourceInst' \in Numbers \cup {None}
         /\ contract' \in [id : (Sources \X Numbers) \cup {None}, phases : 0 .. 2]
<1>1. CASE Valid
  <2>1. Selected(fields) \in Sources \X Numbers /\ fields.count \in 0 .. 2
    BY <1>1, ValidFacts, ConstantFacts
  <2>2. QED BY <1>1, <2>1 DEF TypeOK, PinContract, NoteContract
<1>2. CASE ~Valid
  BY <1>2 DEF TypeOK, PinContract, NoteContract
<1>3. QED BY <1>1, <1>2

\* Without a declared value, nothing stays of a meter but what it must declare.
LEMMA ForgetTypes ==
  ASSUME TypeOK, Forget
  PROVE  /\ fields' \in SystemFields /\ age' \in [Paths -> 0 .. Expired]
         /\ meter' \in MeterTypes /\ ownerError' \in BOOLEAN
<1>1. meter' \in MeterTypes
  BY NoMeterTypes DEF TypeOK, Forget, MeterTypes
<1>2. QED BY <1>1, NoFieldsTypes, ConstantFacts DEF Forget

\* A new generation leaves the token current for those it is given to.
LEMMA BumpTypes ==
  ASSUME NEW keep, BumpFor(keep)
  PROVE  /\ current' \in [Readers -> BOOLEAN]
         /\ \A r \in Readers : current'[r] <=> r \in keep
<1>1. \A r \in Readers : (r \in keep) \in BOOLEAN
  OBVIOUS
<1>2. current' \in [Readers -> BOOLEAN]
  BY <1>1, Zenon DEF BumpFor
<1>3. \A r \in Readers : current'[r] = (r \in keep)
  BY Zenon DEF BumpFor
<1>4. QED BY <1>2, <1>3

\* Who is overtaken was before, or is reading.
LEMMA OvertakeTypes ==
  ASSUME TypeOK, NEW them, Overtake(them)
  PROVE  /\ overtaken' \in [Readers -> BOOLEAN]
         /\ \A r \in Readers : overtaken'[r] <=> overtaken[r] \/ (r \in them /\ stage[r] # "idle")
BY DEF Overtake, TypeOK

\* A field signal keeps the types of what it changes.
LEMMA UpdateTypes ==
  ASSUME TypeOK, NEW path \in Paths, NEW f \in SystemFields, Update(path, ValueAt(f, path))
  PROVE  /\ fields' \in SystemFields /\ age' \in [Paths -> 0 .. Expired]
         /\ current' \in [Readers -> BOOLEAN] /\ rescan' \in BOOLEAN
         /\ UNCHANGED <<meter, ownerError>>
<1>1. fields' \in SystemFields
  BY WithoutTypes DEF TypeOK, Update
<1>2. age' \in [Paths -> 0 .. Expired]
  BY ConstantFacts DEF TypeOK, Update
<1>3. current' \in [Readers -> BOOLEAN] /\ rescan' \in BOOLEAN
  BY BumpTypes DEF TypeOK, Update
<1>4. QED BY <1>1, <1>2, <1>3 DEF Update

\* So does a signal of a meter.
LEMMA UpdateMeterTypes ==
  ASSUME TypeOK, NEW m \in Meters,
         NEW path, NEW value,
         \/ path = <<"connected">> /\ value \in BOOLEAN
         \/ path = <<"declared">> /\ value \in Declarations,
         UpdateMeter(m, path, value)
  PROVE  /\ meter' \in MeterTypes /\ current' \in [Readers -> BOOLEAN]
         /\ UNCHANGED <<fields, age, ownerError, rescan>>
<1>1. CASE m # SelectedMeter(fields)
  BY <1>1 DEF TypeOK, UpdateMeter, MeterTypes
<1>2. CASE m = SelectedMeter(fields) /\ path = <<"connected">>
  <2>1. meter' \in MeterTypes
    <3>1. [meter.age EXCEPT ![m] = 0] \in [Meters -> 0 .. Expired]
      BY ConstantFacts DEF TypeOK
    <3>2. meter.connected \cup {m} \in SUBSET Meters /\ meter.connected \ {m} \in SUBSET Meters
      BY DEF TypeOK
    <3>3. meter' = [meter EXCEPT !.connected = IF value THEN @ \cup {m} ELSE @ \ {m},
                                 !.age = [@ EXCEPT ![m] = 0]]
      BY <1>2 DEF UpdateMeter
    <3>4. QED BY <3>1, <3>2, <3>3 DEF TypeOK, MeterTypes
  <2>2. current' \in [Readers -> BOOLEAN]
    BY <1>2, BumpTypes DEF TypeOK, UpdateMeter
  <2>3. QED BY <2>1, <2>2 DEF UpdateMeter
<1>3. CASE m = SelectedMeter(fields) /\ path = <<"declared">>
  <2>1. meter' \in MeterTypes
    <3>1. [meter.declared EXCEPT ![m] = value] \in [Meters -> Declarations \cup {None}]
      BY <1>3 DEF TypeOK
    <3>2. meter.required \cup {m} \in SUBSET Meters
      BY DEF TypeOK
    <3>3. meter' = [meter EXCEPT !.declared = [@ EXCEPT ![m] = value],
                                 !.required = @ \cup {m}]
      BY <1>3 DEF UpdateMeter
    <3>4. QED BY <3>1, <3>2, <3>3 DEF TypeOK, MeterTypes
  <2>2. current' \in [Readers -> BOOLEAN]
    BY <1>3, BumpTypes DEF TypeOK, UpdateMeter
  <2>3. QED BY <2>1, <2>2 DEF UpdateMeter
<1>4. QED BY <1>1, <1>2, <1>3

\* An announcement is one of a field, of a meter's health, or of an owner.
LEMMA MessageKinds ==
  ASSUME NEW msg \in Messages
  PROVE  \/ /\ msg.from = System /\ msg.path \in Paths
            /\ \E f \in SystemFields : msg.value = ValueAt(f, msg.path)
         \/ /\ msg.from \in Meters
            /\ \/ msg.path = <<"connected">> /\ msg.value \in BOOLEAN
               \/ msg.path = <<"declared">> /\ msg.value \in Declarations
         \/ msg.from \in Sources \cup {System} /\ msg.path = <<"owner">>
BY DEF Messages

LEMMA OwnerPath == <<"owner">> \notin Paths
BY DEF Paths

LEMMA DeliverTypeOK == TypeOK /\ Deliver => TypeOK'
<1> SUFFICES ASSUME TypeOK, Deliver PROVE TypeOK'
  OBVIOUS
<1>1. PICK msg \in Head(signals) :
        /\ signals' = IF Head(signals) = {msg} THEN Tail(signals)
                      ELSE <<Head(signals) \ {msg}>> \o Tail(signals)
        /\ IF msg.path = <<"owner">> THEN OwnerChanged(msg.from)
           ELSE IF msg.from = System THEN Update(msg.path, msg.value)
           ELSE UpdateMeter(msg.from, msg.path, msg.value)
        /\ IF Invalidating(msg) THEN Overtake(Readers) ELSE UNCHANGED overtaken
        /\ restarted' = IF msg.path = <<"owner">> /\ msg.from \in Meters \cup {System, source}
                        THEN restarted \cup {msg.from} ELSE restarted
  BY DEF Deliver
<1>2. Head(signals) \in SUBSET Messages /\ Tail(signals) \in Seq(SUBSET Messages)
  BY DEF TypeOK, Deliver
<1>3. signals' \in Seq(SUBSET Messages)
  <2>1. <<Head(signals) \ {msg}>> \in Seq(SUBSET Messages)
    BY <1>2
  <2>2. <<Head(signals) \ {msg}>> \o Tail(signals) \in Seq(SUBSET Messages)
    BY <1>2, <2>1
  <2>3. QED BY <1>1, <1>2, <2>2
<1>4. /\ fields' \in SystemFields /\ age' \in [Paths -> 0 .. Expired]
      /\ meter' \in MeterTypes /\ ownerError' \in BOOLEAN
      /\ current' \in [Readers -> BOOLEAN] /\ rescan' \in BOOLEAN
  <2>1. CASE msg.path = <<"owner">>
    <3>1. OwnerChanged(msg.from)
      BY <1>1, <2>1
    <3>2. CASE Concerns(msg.from)
      BY <3>1, <3>2, ForgetTypes, BumpTypes DEF OwnerChanged
    <3>3. CASE ~Concerns(msg.from)
      BY <3>1, <3>3 DEF OwnerChanged, cache, TypeOK, MeterTypes
    <3>4. QED BY <3>2, <3>3
  <2>2. CASE msg.from = System /\ msg.path \in Paths
    <3>1. PICK f \in SystemFields : msg.value = ValueAt(f, msg.path)
      BY <1>1, <1>2, <2>2, MessageKinds, OwnerPath, ConstantFacts
    <3>2. Update(msg.path, ValueAt(f, msg.path))
      BY <1>1, <2>2, <3>1, OwnerPath
    <3>3. QED BY <2>2, <3>2, UpdateTypes DEF TypeOK, MeterTypes
  <2>3. CASE /\ msg.from \in Meters /\ msg.path # <<"owner">>
             /\ \/ msg.path = <<"connected">> /\ msg.value \in BOOLEAN
                \/ msg.path = <<"declared">> /\ msg.value \in Declarations
    <3>1. UpdateMeter(msg.from, msg.path, msg.value)
      BY <1>1, <2>3, ConstantFacts
    <3>2. QED BY <2>3, <3>1, UpdateMeterTypes DEF TypeOK
  <2>4. QED BY <1>1, <1>2, <2>1, <2>2, <2>3, MessageKinds
<1>5. overtaken' \in [Readers -> BOOLEAN]
  BY <1>1 DEF TypeOK, Overtake
<1>6. restarted' \in SUBSET (Sources \cup {System})
  <2>1. msg.path = <<"owner">> /\ msg.from \in Meters \cup {System, source}
          => msg.from \in Sources \cup {System}
    BY <1>1, <1>2, MessageKinds, OwnerPath
  <2>2. QED BY <1>1, <2>1 DEF TypeOK
<1>7. QED
  BY <1>3, <1>4, <1>5, <1>6 DEF TypeOK, Deliver, MeterTypes, pins

\* A reader that goes on leaves the other readers where they are.
LEMMA StageTypesKept ==
  ASSUME TypeOK, NEW r \in Readers, NEW next \in StageTypes, NEW answer,
         stage' = [stage EXCEPT ![r] = next], reply' = [reply EXCEPT ![r] = answer],
         \/ next = "answered" /\ answer \in SystemFields \cup {None}
         \/ next = "meterAsked" /\ answer \in Meters
         \/ next = "meterAnswered" /\ answer \in MeterHealth \cup {None}
         \/ next \in {"idle", "asked", "finishing"} /\ answer = None
  PROVE  /\ stage' \in [Readers -> StageTypes]
         /\ reply' \in [Readers -> SystemFields \cup Meters \cup MeterHealth \cup {None}]
         /\ \A q \in Readers : ReplyTypes(q)'
<1>1. stage' \in [Readers -> StageTypes]
  BY DEF TypeOK, StageTypes
<1>2. reply' \in [Readers -> SystemFields \cup Meters \cup MeterHealth \cup {None}]
  BY DEF TypeOK
<1>3. ReplyTypes(r)'
  <2>1. stage'[r] = next /\ reply'[r] = answer
    BY DEF TypeOK
  <2>2. QED BY <2>1 DEF ReplyTypes
<1>4. ASSUME NEW q \in Readers, q # r PROVE ReplyTypes(q)'
  <2>1. stage'[q] = stage[q] /\ reply'[q] = reply[q]
    BY <1>4 DEF TypeOK
  <2>2. ReplyTypes(q)
    BY DEF TypeOK, ReplyTypes
  <2>3. QED BY <2>1, <2>2 DEF ReplyTypes
<1>5. QED BY <1>1, <1>2, <1>3, <1>4

\* A reader at rest has no reply, and starts without one.
LEMMA BeginTypes ==
  ASSUME TypeOK, NEW r \in Readers, Begin(r)
  PROVE  /\ stage' \in [Readers -> StageTypes]
         /\ reply' \in [Readers -> SystemFields \cup Meters \cup MeterHealth \cup {None}]
         /\ \A q \in Readers : ReplyTypes(q)'
         /\ current' \in [Readers -> BOOLEAN] /\ overtaken' \in [Readers -> BOOLEAN]
<1>1. reply[r] = None
  BY DEF TypeOK, Begin
<1>2. reply' = [reply EXCEPT ![r] = None]
  BY <1>1 DEF TypeOK, Begin
<1>3. stage' = [stage EXCEPT ![r] = "asked"] /\ "asked" \in StageTypes
  BY DEF Begin, StageTypes
<1>4. /\ stage' \in [Readers -> StageTypes]
      /\ reply' \in [Readers -> SystemFields \cup Meters \cup MeterHealth \cup {None}]
      /\ \A q \in Readers : ReplyTypes(q)'
  BY <1>2, <1>3, StageTypesKept
<1>5. QED BY <1>4 DEF TypeOK, Begin

\* A token that is still current belongs to the meter that is selected.
StillSelected ==
  \A r \in Readers : stage[r] \in {"meterAsked", "meterAnswered"} /\ current[r]
                       => SelectedMeter(fields) # None

LEMMA PollReadsTypeOK == TypeOK /\ PollReads => TypeOK'
<1> SUFFICES ASSUME TypeOK, PollReads PROVE TypeOK'
  OBVIOUS
<1>1. "poll" \in Readers
  BY GridAssumption
<1>2. sinceRec' \in {0, sinceRec} /\ rescan' \in {FALSE, rescan}
  BY DEF PollReads
<1>3. sinceRec' \in 0 .. Reconcile /\ rescan' \in BOOLEAN
  <2>1. sinceRec \in 0 .. Reconcile /\ rescan \in BOOLEAN /\ 0 \in 0 .. Reconcile
    BY ConstantFacts DEF TypeOK
  <2>2. QED BY <1>2, <2>1
<1>4. QED
  BY <1>1, <1>3, BeginTypes DEF PollReads, Begin, TypeOK, ReplyTypes, StageTypes, cache, pins

LEMMA ExtraReadsTypeOK ==
  ASSUME TypeOK, NEW r \in Readers, ExtraReads(r) PROVE TypeOK'
<1>1. sinceRec' \in 0 .. Reconcile /\ disturbances' \in 0 .. Disturbances
  BY ConstantFacts DEF ExtraReads, TypeOK
<1>2. QED
  BY <1>1, BeginTypes DEF ExtraReads, Begin, TypeOK, ReplyTypes, StageTypes, cache, pins

LEMMA AnsweredTypeOK ==
  ASSUME TypeOK, NEW r \in Readers, SystemAnswers(r) \/ MeterAnswers(r) PROVE TypeOK'
<1>1. disturbances' \in 0 .. Disturbances
  BY ConstantFacts DEF SystemAnswers, MeterAnswers, Answered, TypeOK
<1>2. /\ stage' \in [Readers -> StageTypes]
      /\ reply' \in [Readers -> SystemFields \cup Meters \cup MeterHealth \cup {None}]
      /\ \A q \in Readers : ReplyTypes(q)'
  <2>1. CASE SystemAnswers(r)
    <3>1. PICK answer \in SystemFields \cup {None} : reply' = [reply EXCEPT ![r] = answer]
      BY <2>1 DEF SystemAnswers, Answered, TypeOK
    <3>2. stage' = [stage EXCEPT ![r] = "answered"] /\ "answered" \in StageTypes
      BY <2>1 DEF SystemAnswers, Answered, StageTypes
    <3>3. QED BY <3>1, <3>2, StageTypesKept
  <2>2. CASE MeterAnswers(r)
    <3>1. health[reply[r]] \in MeterHealth
      BY <2>2 DEF MeterAnswers, TypeOK
    <3>2. PICK answer \in MeterHealth \cup {None} : reply' = [reply EXCEPT ![r] = answer]
      BY <2>2, <3>1 DEF MeterAnswers, Answered
    <3>3. stage' = [stage EXCEPT ![r] = "meterAnswered"] /\ "meterAnswered" \in StageTypes
      BY <2>2 DEF MeterAnswers, Answered, StageTypes
    <3>4. QED BY <3>2, <3>3, StageTypesKept
  <2>3. QED BY <2>1, <2>2
<1>3. QED
  BY <1>1, <1>2
  DEF SystemAnswers, MeterAnswers, Answered, TypeOK, ReplyTypes, StageTypes, cache, pins, polling

\* A reader that discards, or has applied, what it read is about to finish.
LEMMA DiscardTypes ==
  ASSUME TypeOK, NEW r \in Readers, Discard(r)
  PROVE  /\ stage' \in [Readers -> StageTypes]
         /\ reply' \in [Readers -> SystemFields \cup Meters \cup MeterHealth \cup {None}]
         /\ \A q \in Readers : ReplyTypes(q)'
<1>1. "finishing" \in StageTypes
  BY DEF StageTypes
<1>2. QED BY <1>1, StageTypesKept DEF Discard

LEMMA ApplySystemTypeOK ==
  ASSUME TypeOK, NEW r \in Readers, ApplySystem(r) PROVE TypeOK'
<1> USE DEF TypeOK, bus, pins, polling
<1>1. CASE ~current[r]
  BY <1>1, DiscardTypes DEF ApplySystem, cache, ReplyTypes, StageTypes
<1>2. CASE current[r] /\ reply[r] = None
  <2>1. Discard(r) /\ Forget /\ BumpFor({r}) /\ Overtake(Readers \ {r}) /\ UNCHANGED restarted
    BY <1>2 DEF ApplySystem
  <2>2. QED
    BY <1>2, <2>1, DiscardTypes, ForgetTypes, BumpTypes, OvertakeTypes
    DEF ApplySystem, ReplyTypes, StageTypes, MeterTypes
<1>3. CASE current[r] /\ reply[r] # None
  <2>1. BumpFor({r}) /\ Replace(reply[r]) /\ UNCHANGED meter
    BY <1>3 DEF ApplySystem
  <2>2. reply[r] \in SystemFields
    BY <1>3 DEF ApplySystem
  <2>3. /\ fields' \in SystemFields /\ age' \in [Paths -> 0 .. Expired] /\ ownerError' \in BOOLEAN
    <3>1. 0 \in 0 .. Expired
      BY ConstantFacts
    <3>2. [path \in Paths |-> 0] \in [Paths -> 0 .. Expired]
      BY <3>1
    <3>3. QED BY <2>1, <2>2, <3>2 DEF Replace
  <2>4. /\ stage' \in [Readers -> StageTypes]
        /\ reply' \in [Readers -> SystemFields \cup Meters \cup MeterHealth \cup {None}]
        /\ \A q \in Readers : ReplyTypes(q)'
        /\ overtaken' \in [Readers -> BOOLEAN]
    <3>1. CASE SelectedMeter(reply[r]) = None
      BY <1>3, <3>1, DiscardTypes, OvertakeTypes DEF ApplySystem
    <3>2. CASE SelectedMeter(reply[r]) # None
      <4>1. /\ stage' = [stage EXCEPT ![r] = "meterAsked"] /\ "meterAsked" \in StageTypes
            /\ reply' = [reply EXCEPT ![r] = SelectedMeter(reply[r])]
            /\ overtaken' = [q \in Readers |-> q # r /\ (overtaken[q] \/ stage[q] # "idle")]
        BY <1>3, <3>2 DEF ApplySystem, StageTypes
      <4>2. SelectedMeter(reply[r]) \in Meters
        BY <2>2, <3>2, SelectedMeterTypes
      <4>3. QED BY <4>1, <4>2, StageTypesKept
    <3>3. QED BY <3>1, <3>2
  <2>5. restarted' \in SUBSET (Sources \cup {System})
    BY <1>3 DEF ApplySystem
  <2>6. QED
    BY <2>1, <2>3, <2>4, <2>5, BumpTypes DEF ApplySystem, ReplyTypes, StageTypes
<1>4. QED BY <1>1, <1>2, <1>3

LEMMA ApplyMeterTypeOK ==
  ASSUME TypeOK, StillSelected, NEW r \in Readers, ApplyMeter(r) PROVE TypeOK'
<1> USE DEF TypeOK, bus, pins, polling
<1>1. Discard(r)
  BY DEF ApplyMeter
<1>2. CASE ~current[r]
  BY <1>1, <1>2, DiscardTypes DEF ApplyMeter, ReplyTypes, StageTypes
<1>3. CASE current[r]
  <2> DEFINE m == SelectedMeter(fields)
             h == reply[r]
  <2>1. m \in Meters
    BY <1>3, SelectedMeterTypes DEF ApplyMeter, StillSelected
  <2>2. h \in MeterHealth \cup {None}
    BY DEF ApplyMeter
  <2>3. BumpFor({r}) /\ Overtake(Readers \ {r})
    BY <1>3 DEF ApplyMeter
  <2>4. meter' \in MeterTypes /\ restarted' \in SUBSET (Sources \cup {System})
    <3>1. CASE h = None
      <4>1. meter.ready \ {m} \in SUBSET Meters
        OBVIOUS
      <4>2. meter' = [meter EXCEPT !.ready = @ \ {m}] /\ UNCHANGED restarted
        BY <1>3, <3>1 DEF ApplyMeter
      <4>3. QED BY <4>1, <4>2 DEF MeterTypes
    <3>2. CASE h # None
      <4>1. h.declared \in Declarations
        BY <2>2, <3>2 DEF MeterHealth
      <4>2. [meter.declared EXCEPT ![m] = h.declared] \in [Meters -> Declarations \cup {None}]
        BY <4>1
      <4>3. [meter.age EXCEPT ![m] = 0] \in [Meters -> 0 .. Expired]
        <5>1. meter.age \in [Meters -> 0 .. Expired] /\ 0 \in 0 .. Expired
          BY ConstantFacts
        <5>2. QED BY <5>1
      <4>4. meter' = [meter EXCEPT
                       !.connected = IF h.connected THEN @ \cup {m} ELSE @ \ {m},
                       !.declared = [@ EXCEPT ![m] = h.declared],
                       !.required = IF h.declared = None THEN @ ELSE @ \cup {m},
                       !.ready = @ \cup {m},
                       !.age = [@ EXCEPT ![m] = 0]]
        BY <1>3, <3>2 DEF ApplyMeter
      <4>5. /\ meter.connected \cup {m} \in SUBSET Meters /\ meter.connected \ {m} \in SUBSET Meters
            /\ meter.required \cup {m} \in SUBSET Meters /\ meter.ready \cup {m} \in SUBSET Meters
        BY <2>1
      <4>6. meter' \in MeterTypes
        BY <4>2, <4>3, <4>4, <4>5 DEF MeterTypes
      <4>7. QED BY <1>3, <3>2, <4>6 DEF ApplyMeter
    <3>3. QED BY <3>1, <3>2
  <2>5. QED
    BY <1>1, <2>3, <2>4, DiscardTypes, BumpTypes, OvertakeTypes
    DEF ApplyMeter, ReplyTypes, StageTypes, MeterTypes
<1>4. QED BY <1>2, <1>3

LEMMA FinishTypeOK ==
  ASSUME TypeOK, NEW r \in Readers, Finish(r) PROVE TypeOK'
<1>1. stage' = [stage EXCEPT ![r] = "idle"] /\ "idle" \in StageTypes
  BY DEF Finish, StageTypes
<1>2. reply[r] = None
  BY DEF TypeOK, Finish
<1>3. reply' = [reply EXCEPT ![r] = None]
  BY <1>2 DEF TypeOK, Finish
<1>4. /\ stage' \in [Readers -> StageTypes]
      /\ reply' \in [Readers -> SystemFields \cup Meters \cup MeterHealth \cup {None}]
      /\ \A q \in Readers : ReplyTypes(q)'
  BY <1>1, <1>3, StageTypesKept
<1>5. QED
  BY <1>4, PinTypes DEF Finish, TypeOK, ReplyTypes, StageTypes, bus, cache

LEMMA SnapshotTypeOK == TypeOK /\ Snapshot => TypeOK'
BY PinTypes DEF Snapshot, TypeOK, bus, cache, readers, polling

\* What the bus announces of a change.
LEMMA AnnounceTypes ==
  ASSUME TypeOK, NEW batch \in SUBSET Messages, Announce(batch)
  PROVE  signals' \in Seq(SUBSET Messages)
BY DEF TypeOK, Announce

LEMMA DisturbTypes ==
  ASSUME TypeOK, Disturb
  PROVE  disturbances' \in 0 .. Disturbances
BY ConstantFacts DEF TypeOK, Disturb

LEMMA GridChangesTypeOK == TypeOK /\ GridChanges => TypeOK'
<1> SUFFICES ASSUME TypeOK, GridChanges PROVE TypeOK'
  OBVIOUS
<1>1. PICK new \in Truths :
        /\ truth' = new
        /\ Announce({[from |-> System, path |-> path, value |-> ValueAt(new, path)] :
                      path \in {q \in Paths : ValueAt(new, q) # ValueAt(truth, q)}})
  BY DEF GridChanges
<1>2. new \in SystemFields
  BY TruthsTypes
<1>3. {[from |-> System, path |-> path, value |-> ValueAt(new, path)] :
         path \in {q \in Paths : ValueAt(new, q) # ValueAt(truth, q)}} \in SUBSET Messages
  BY <1>2 DEF Messages
<1>4. signals' \in Seq(SUBSET Messages) /\ disturbances' \in 0 .. Disturbances
  BY <1>1, <1>3, AnnounceTypes, DisturbTypes DEF GridChanges
<1>5. QED
  BY <1>1, <1>2, <1>4 DEF GridChanges, TypeOK, cache, pins, readers, polling

LEMMA MeterChangesTypeOK == TypeOK /\ MeterChanges => TypeOK'
<1> SUFFICES ASSUME TypeOK, MeterChanges PROVE TypeOK'
  OBVIOUS
<1>1. PICK m \in Meters, new \in MeterHealth :
        /\ health' = [health EXCEPT ![m] = new]
        /\ Announce({[from |-> m, path |-> <<f>>, value |-> new[f]] :
                      f \in {g \in DOMAIN new : new[g] # health[m][g]}})
  BY DEF MeterChanges
<1>2. DOMAIN new = {"connected", "declared"}
  BY DEF MeterHealth
<1>3. new["connected"] \in BOOLEAN /\ new["declared"] \in Declarations
  BY DEF MeterHealth
<1>4. \A f \in {"connected", "declared"} :
        [from |-> m, path |-> <<f>>, value |-> new[f]] \in Messages
  BY <1>3 DEF Messages
<1>5. {[from |-> m, path |-> <<f>>, value |-> new[f]] :
         f \in {g \in DOMAIN new : new[g] # health[m][g]}} \in SUBSET Messages
  BY <1>2, <1>4
<1>6. signals' \in Seq(SUBSET Messages) /\ disturbances' \in 0 .. Disturbances
  BY <1>1, <1>5, AnnounceTypes, DisturbTypes DEF MeterChanges
<1>7. health' \in [Meters -> MeterHealth]
  BY <1>1 DEF TypeOK
<1>8. QED
  BY <1>6, <1>7 DEF MeterChanges, TypeOK, cache, pins, readers, polling

LEMMA ServiceRestartsTypeOK == TypeOK /\ ServiceRestarts => TypeOK'
<1> SUFFICES ASSUME TypeOK, ServiceRestarts PROVE TypeOK'
  OBVIOUS
<1>1. PICK s \in Sources \cup {System} :
        Announce({[from |-> s, path |-> <<"owner">>, value |-> None]})
  BY DEF ServiceRestarts
<1>2. {[from |-> s, path |-> <<"owner">>, value |-> None]} \in SUBSET Messages
  BY DEF Messages
<1>3. signals' \in Seq(SUBSET Messages) /\ disturbances' \in 0 .. Disturbances
  BY <1>1, <1>2, AnnounceTypes, DisturbTypes DEF ServiceRestarts
<1>4. QED
  BY <1>3 DEF ServiceRestarts, TypeOK, cache, pins, readers, polling

LEMMA SignalsAreLostTypeOK == TypeOK /\ SignalsAreLost => TypeOK'
<1> SUFFICES ASSUME TypeOK, SignalsAreLost PROVE TypeOK'
  OBVIOUS
<1>1. signals' \in Seq(SUBSET Messages) /\ disturbances' \in 0 .. Disturbances
  BY DisturbTypes DEF SignalsAreLost, TypeOK
<1>2. QED
  BY <1>1 DEF SignalsAreLost, TypeOK, cache, pins, readers, polling

LEMMA RediscoveryFailsTypeOK == TypeOK /\ RediscoveryFails => TypeOK'
<1> SUFFICES ASSUME TypeOK, RediscoveryFails PROVE TypeOK'
  OBVIOUS
<1>1. disturbances' \in 0 .. Disturbances
  BY DisturbTypes DEF RediscoveryFails
<1>2. QED
  BY <1>1 DEF RediscoveryFails, TypeOK, cache, pins, readers

LEMMA TickTypeOK == TypeOK /\ Tick => TypeOK'
<1> SUFFICES ASSUME TypeOK, Tick PROVE TypeOK'
  OBVIOUS
<1>1. \A a \in 0 .. Expired : (IF a = Expired THEN Expired ELSE a + 1) \in 0 .. Expired
  BY ConstantFacts
<1>2. age' \in [Paths -> 0 .. Expired]
  BY <1>1 DEF Tick, TypeOK
<1>3. meter' \in MeterTypes
  <2>1. [m \in Meters |-> IF meter.age[m] = Expired THEN Expired ELSE meter.age[m] + 1]
          \in [Meters -> 0 .. Expired]
    BY <1>1 DEF TypeOK
  <2>2. meter' = [meter EXCEPT !.age =
          [m \in Meters |-> IF meter.age[m] = Expired THEN Expired ELSE meter.age[m] + 1]]
    BY DEF Tick, TypeOK
  <2>3. QED BY <2>1, <2>2 DEF MeterTypes, TypeOK
<1>4. sinceRec' \in 0 .. Reconcile /\ retry' \in {"none", "armed", "due"}
  BY ConstantFacts DEF Tick, TypeOK
<1>5. QED
  BY <1>2, <1>3, <1>4 DEF Tick, TypeOK, MeterTypes, bus, pins, readers

------------------------------------------------------------------------------
(* The inductive invariant                                                   *)

\* A reader whose answer was overtaken no longer holds the current token.
OvertakenIsStale == \A r \in Readers : overtaken[r] => ~current[r]

\* What the first valid snapshot established is what is pinned.
Pinned ==
  /\ contract.id # None => contract.id = <<source, sourceInst>>
                           /\ source # None /\ sourceInst # None
  /\ contract.phases <= reqPhases

IInv == TypeOK /\ StillSelected /\ OvertakenIsStale /\ Pinned

------------------------------------------------------------------------------
(* An invalidating message makes every token stale.                          *)

\* A message that makes a reader overtaken makes its token stale.
LEMMA DeliverOvertakes ==
  ASSUME IInv, Deliver PROVE OvertakenIsStale'
<1>1. PICK msg \in Head(signals) :
        /\ IF msg.path = <<"owner">> THEN OwnerChanged(msg.from)
           ELSE IF msg.from = System THEN Update(msg.path, msg.value)
           ELSE UpdateMeter(msg.from, msg.path, msg.value)
        /\ IF Invalidating(msg) THEN Overtake(Readers) ELSE UNCHANGED overtaken
  BY DEF Deliver
<1>2. TypeOK /\ msg \in Messages
  BY DEF IInv, TypeOK, Deliver
<1>3. \A r \in Readers : current'[r] => current[r]
  <2>1. ASSUME BumpFor({}) PROVE \A r \in Readers : ~current'[r]
    BY <2>1, BumpTypes
  <2>2. QED BY <1>1, <2>1 DEF OwnerChanged, Update, UpdateMeter
<1>4. CASE Invalidating(msg)
  <2>1. BumpFor({})
    <3>1. CASE msg.path = <<"owner">> /\ msg.from \in {System, source, SelectedMeter(fields)}
      BY <1>1, <3>1 DEF OwnerChanged, Concerns
    <3>2. CASE /\ msg.from = System /\ msg.path \in Paths
               /\ msg.path[1] = "power" => ~msg.value
               /\ msg.value # ValueAt(fields, msg.path)
      BY <1>1, <3>2, OwnerPath DEF Update, Bumps
    <3>3. CASE /\ msg.from \in Meters /\ msg.from = SelectedMeter(fields)
               /\ msg.path = <<"connected">> /\ ~msg.value
      BY <1>1, <3>3, ConstantFacts DEF UpdateMeter
    <3>4. QED BY <1>4, <3>1, <3>2, <3>3 DEF Invalidating
  <2>2. QED BY <2>1, BumpTypes DEF OvertakenIsStale
<1>5. CASE ~Invalidating(msg)
  BY <1>1, <1>3, <1>5 DEF OvertakenIsStale, IInv
<1>6. QED BY <1>4, <1>5

\* The selected meter changes only with the identities, and these only with a
\* message that makes every token stale.
LEMMA DeliverKeepsSelected ==
  ASSUME IInv, Deliver PROVE StillSelected'
<1>1. PICK msg \in Head(signals) :
        IF msg.path = <<"owner">> THEN OwnerChanged(msg.from)
        ELSE IF msg.from = System THEN Update(msg.path, msg.value)
        ELSE UpdateMeter(msg.from, msg.path, msg.value)
  BY DEF Deliver
<1>2. TypeOK /\ msg \in Messages /\ stage' = stage /\ fields \in SystemFields
  BY DEF IInv, TypeOK, Deliver
<1>3. ASSUME BumpFor({}) PROVE StillSelected'
  BY <1>3, BumpTypes DEF StillSelected
<1>4. ASSUME UNCHANGED current, fields'.name = fields.name, fields'.inst = fields.inst,
             fields' \in SystemFields
      PROVE  StillSelected'
  <2>1. SelectedMeter(fields)' = SelectedMeter(fields)
    <3>1. SelectedMeter(fields') = SelectedMeter(fields)
      BY <1>2, <1>4, SameSelected
    <3>2. QED BY <3>1 DEF SelectedMeter, Selected, Candidates
  <2>2. QED BY <1>2, <1>4, <2>1 DEF StillSelected, IInv
<1>5. CASE msg.path = <<"owner">>
  BY <1>1, <1>2, <1>3, <1>4, <1>5 DEF OwnerChanged, cache
<1>6. CASE msg.from = System /\ msg.path \in Paths
  <2>1. PICK f \in SystemFields : msg.value = ValueAt(f, msg.path)
    BY <1>2, <1>6, MessageKinds, OwnerPath, ConstantFacts
  <2>2. Update(msg.path, msg.value)
    BY <1>1, <1>6, OwnerPath
  <2>3. CASE Bumps(msg.path, msg.value)
    BY <1>3, <2>2, <2>3 DEF Update
  <2>4. CASE ~Bumps(msg.path, msg.value)
    <3>1. msg.path[1] = "power" \/ ValueAt(f, msg.path) = ValueAt(fields, msg.path)
      BY <2>1, <2>4 DEF Bumps
    <3>2. fields'.name = fields.name /\ fields'.inst = fields.inst
      BY <1>2, <1>6, <2>1, <2>2, <3>1, WithoutKeepsIdentity DEF Update
    <3>3. QED BY <1>2, <1>4, <1>6, <2>1, <2>2, <2>4, <3>2, WithoutTypes DEF Update
  <2>5. QED BY <2>3, <2>4
<1>7. CASE msg.path # <<"owner">> /\ msg.from # System
  BY <1>1, <1>2, <1>3, <1>4, <1>7 DEF UpdateMeter
<1>8. QED BY <1>2, <1>5, <1>6, <1>7, MessageKinds, ConstantFacts

------------------------------------------------------------------------------
(* The invariant holds initially and every action keeps it.                  *)

LEMMA InitInv == Init => IInv
<1> SUFFICES ASSUME Init PROVE IInv
  OBVIOUS
<1>1. StillSelected /\ OvertakenIsStale
  BY DEF Init, StillSelected, OvertakenIsStale
<1>2. Pinned
  BY GridAssumption DEF Init, Pinned
<1>3. QED BY <1>1, <1>2, InitTypeOK DEF IInv

\* A step that changes none of the readers, the fields and the pins.
LEMMA OutsideStep ==
  ASSUME IInv, UNCHANGED <<stage, current, overtaken, fields, pins>>
  PROVE  StillSelected' /\ OvertakenIsStale' /\ Pinned'
<1>1. StillSelected'
  BY DEF IInv, StillSelected, SelectedMeter, Selected, Candidates
<1>2. OvertakenIsStale' /\ Pinned'
  BY DEF IInv, OvertakenIsStale, Pinned, pins
<1>3. QED BY <1>1, <1>2

\* The valid snapshot agrees with what was pinned, so pinning it again keeps it.
LEMMA PinKeeps ==
  ASSUME TypeOK, Pinned, PinContract, NoteContract
  PROVE  Pinned'
<1>1. CASE Valid
  <2>1. PICK s \in Sources, n \in Numbers : Selected(fields) = <<s, n>>
    BY <1>1, ValidFacts
  <2>2. s # None /\ n # None
    BY ConstantFacts
  <2>3. source' = s /\ sourceInst' = n
    BY <1>1, <2>1 DEF PinContract
  <2>4. source \in {None, s} /\ sourceInst \in {None, n}
    BY <1>1, <2>1, ValidFacts
  <2>5. contract'.id = <<source', sourceInst'>>
    BY <1>1, <2>1, <2>3, <2>4 DEF NoteContract, Pinned, TypeOK
  <2>6. contract'.phases <= reqPhases'
    <3>1. fields.count \in 1 .. 2 /\ reqPhases \in 0 .. 2 /\ contract.phases \in 0 .. 2
      BY <1>1, ValidFacts DEF TypeOK, Phases
    <3>2. /\ contract'.phases = IF fields.count > contract.phases THEN fields.count
                                ELSE contract.phases
          /\ reqPhases' = IF fields.count > reqPhases THEN fields.count ELSE reqPhases
      BY <1>1 DEF NoteContract, PinContract
    <3>3. QED BY <3>1, <3>2 DEF Pinned
  <2>7. QED BY <2>2, <2>3, <2>5, <2>6 DEF Pinned
<1>2. CASE ~Valid
  BY <1>2 DEF PinContract, NoteContract, Pinned
<1>3. QED BY <1>1, <1>2

LEMMA DeliverInv == IInv /\ Deliver => IInv'
<1> SUFFICES ASSUME IInv, Deliver PROVE IInv'
  OBVIOUS
<1>1. Pinned'
  BY DEF IInv, Pinned, Deliver, pins
<1>2. QED BY <1>1, DeliverTypeOK, DeliverOvertakes, DeliverKeepsSelected DEF IInv

LEMMA BeginInv ==
  ASSUME IInv, NEW r \in Readers, Begin(r)
  PROVE  StillSelected' /\ OvertakenIsStale' /\ Pinned'
<1>1. /\ stage' = [stage EXCEPT ![r] = "asked"]
      /\ current' = [current EXCEPT ![r] = TRUE]
      /\ overtaken' = [overtaken EXCEPT ![r] = FALSE]
      /\ UNCHANGED <<fields, pins>>
  BY DEF Begin, cache
<1>2. TypeOK
  BY DEF IInv
<1>3. StillSelected'
  BY <1>1, <1>2 DEF IInv, TypeOK, StillSelected, SelectedMeter, Selected, Candidates
<1>4. OvertakenIsStale'
  BY <1>1, <1>2 DEF IInv, TypeOK, OvertakenIsStale
<1>5. Pinned'
  BY <1>1 DEF IInv, Pinned, pins
<1>6. QED BY <1>3, <1>4, <1>5

LEMMA ReadsInv ==
  ASSUME IInv, PollReads \/ \E r \in Readers : ExtraReads(r)
  PROVE  IInv'
<1>1. "poll" \in Readers
  BY GridAssumption
<1>2. QED
  BY <1>1, PollReadsTypeOK, ExtraReadsTypeOK, BeginInv DEF PollReads, ExtraReads, IInv

\* The bus answers: the token has selected a meter before it asks it.
LEMMA AnsweredInv ==
  ASSUME IInv, NEW r \in Readers, SystemAnswers(r) \/ MeterAnswers(r)
  PROVE  IInv'
<1>1. UNCHANGED <<fields, current, overtaken, pins>>
  BY DEF SystemAnswers, MeterAnswers, Answered, cache
<1>2. StillSelected'
  <2>1. \A q \in Readers : stage'[q] \in {"meterAsked", "meterAnswered"}
                              => stage[q] \in {"meterAsked", "meterAnswered"}
    BY DEF SystemAnswers, MeterAnswers, Answered, IInv, TypeOK
  <2>2. QED BY <1>1, <2>1 DEF IInv, StillSelected, SelectedMeter, Selected, Candidates
<1>3. OvertakenIsStale' /\ Pinned'
  BY <1>1 DEF IInv, OvertakenIsStale, Pinned, pins
<1>4. QED BY <1>2, <1>3, AnsweredTypeOK DEF IInv

LEMMA ApplySystemInv ==
  ASSUME IInv, NEW r \in Readers, ApplySystem(r)
  PROVE  IInv'
<1>1. TypeOK
  BY DEF IInv
<1>2. Pinned'
  BY DEF IInv, Pinned, ApplySystem, pins
<1>3. CASE ~current[r]
  <2>1. /\ stage' = [stage EXCEPT ![r] = "finishing"]
        /\ UNCHANGED <<fields, current, overtaken>>
    BY <1>3 DEF ApplySystem, Discard, cache
  <2>2. StillSelected'
    BY <1>1, <2>1 DEF IInv, TypeOK, StillSelected, SelectedMeter, Selected, Candidates
  <2>3. QED BY <1>2, <2>1, <2>2, ApplySystemTypeOK DEF IInv, OvertakenIsStale
<1>4. CASE current[r]
  <2>1. \A q \in Readers : current'[q] <=> q = r
    BY <1>4, BumpTypes DEF ApplySystem
  <2>2. ~overtaken[r]
    BY <1>4 DEF IInv, OvertakenIsStale
  <2>3. ~overtaken'[r]
    BY <1>1, <1>4, <2>2, OvertakeTypes DEF ApplySystem
  <2>4. stage'[r] = "meterAsked" => SelectedMeter(fields') # None
    BY <1>1, <1>4 DEF ApplySystem, Discard, Replace, TypeOK
  <2>5. stage'[r] \in {"finishing", "meterAsked"}
    BY <1>1, <1>4 DEF ApplySystem, Discard, TypeOK
  <2>6. SelectedMeter(fields') = SelectedMeter(fields)'
    BY DEF SelectedMeter, Selected, Candidates
  <2>7. QED
    BY <1>2, <2>1, <2>3, <2>4, <2>5, <2>6, ApplySystemTypeOK
    DEF IInv, StillSelected, OvertakenIsStale
<1>5. QED BY <1>3, <1>4

LEMMA ApplyMeterInv ==
  ASSUME IInv, NEW r \in Readers, ApplyMeter(r)
  PROVE  IInv'
<1>1. TypeOK
  BY DEF IInv
<1>2. Pinned'
  BY DEF IInv, Pinned, ApplyMeter, pins
<1>3. stage' = [stage EXCEPT ![r] = "finishing"] /\ UNCHANGED fields
  BY DEF ApplyMeter, Discard
<1>4. CASE ~current[r]
  <2>1. UNCHANGED <<current, overtaken>>
    BY <1>4 DEF ApplyMeter
  <2>2. StillSelected'
    BY <1>1, <1>3, <2>1 DEF IInv, TypeOK, StillSelected, SelectedMeter, Selected, Candidates
  <2>3. QED BY <1>2, <2>1, <2>2, ApplyMeterTypeOK DEF IInv, OvertakenIsStale
<1>5. CASE current[r]
  <2>1. \A q \in Readers : current'[q] <=> q = r
    BY <1>5, BumpTypes DEF ApplyMeter
  <2>2. ~overtaken[r]
    BY <1>5 DEF IInv, OvertakenIsStale
  <2>3. ~overtaken'[r]
    BY <1>1, <1>5, <2>2, OvertakeTypes DEF ApplyMeter
  <2>4. stage'[r] = "finishing"
    BY <1>1, <1>3 DEF TypeOK
  <2>5. QED
    BY <1>2, <2>1, <2>3, <2>4, ApplyMeterTypeOK DEF IInv, StillSelected, OvertakenIsStale
<1>6. QED BY <1>4, <1>5

LEMMA FinishInv ==
  ASSUME IInv, NEW r \in Readers, Finish(r)
  PROVE  IInv'
<1>1. TypeOK
  BY DEF IInv
<1>2. Pinned'
  BY PinKeeps DEF IInv, Finish
<1>3. /\ stage' = [stage EXCEPT ![r] = "idle"]
      /\ current' = [current EXCEPT ![r] = FALSE]
      /\ overtaken' = [overtaken EXCEPT ![r] = FALSE]
      /\ UNCHANGED fields
  BY DEF Finish, cache
<1>4. StillSelected'
  BY <1>1, <1>3 DEF IInv, TypeOK, StillSelected, SelectedMeter, Selected, Candidates
<1>5. OvertakenIsStale'
  BY <1>1, <1>3 DEF IInv, TypeOK, OvertakenIsStale
<1>6. QED BY <1>2, <1>4, <1>5, FinishTypeOK DEF IInv

LEMMA SnapshotInv == IInv /\ Snapshot => IInv'
<1> SUFFICES ASSUME IInv, Snapshot PROVE IInv'
  OBVIOUS
<1>1. Pinned'
  BY PinKeeps DEF IInv, Snapshot
<1>2. UNCHANGED <<stage, current, overtaken, fields>>
  BY DEF Snapshot, cache, readers
<1>3. StillSelected'
  BY <1>2 DEF IInv, StillSelected, SelectedMeter, Selected, Candidates
<1>4. OvertakenIsStale'
  BY <1>2 DEF IInv, OvertakenIsStale
<1>5. QED BY <1>1, <1>3, <1>4, SnapshotTypeOK DEF IInv

\* The bus and the time disturb neither a token nor a pin.
LEMMA EnvironmentInv ==
  ASSUME IInv,
         GridChanges \/ MeterChanges \/ ServiceRestarts \/ SignalsAreLost
           \/ RediscoveryFails \/ Tick
  PROVE  IInv'
<1>1. UNCHANGED <<stage, current, overtaken, fields, pins>>
  BY DEF GridChanges, MeterChanges, ServiceRestarts, SignalsAreLost, RediscoveryFails,
         Tick, readers, cache
<1>2. TypeOK'
  BY GridChangesTypeOK, MeterChangesTypeOK, ServiceRestartsTypeOK, SignalsAreLostTypeOK,
     RediscoveryFailsTypeOK, TickTypeOK DEF IInv
<1>3. QED BY <1>1, <1>2, OutsideStep DEF IInv

LEMMA StutterInv == IInv /\ UNCHANGED vars => IInv'
<1> SUFFICES ASSUME IInv, UNCHANGED vars PROVE IInv'
  OBVIOUS
<1>1. TypeOK'
  BY DEF IInv, TypeOK, vars, bus, cache, pins, readers, polling
<1>2. UNCHANGED <<stage, current, overtaken, fields, pins>>
  BY DEF vars, cache, readers
<1>3. QED BY <1>1, <1>2, OutsideStep DEF IInv

LEMMA NextInv == IInv /\ [Next]_vars => IInv'
<1> SUFFICES ASSUME IInv, [Next]_vars PROVE IInv'
  OBVIOUS
<1>1. CASE UNCHANGED vars
  BY <1>1, StutterInv
<1>2. CASE Deliver
  BY <1>2, DeliverInv
<1>3. CASE PollReads \/ \E r \in Readers : ExtraReads(r)
  BY <1>3, ReadsInv
<1>4. CASE \E r \in Readers : SystemAnswers(r) \/ MeterAnswers(r)
  BY <1>4, AnsweredInv
<1>5. CASE \E r \in Readers : ApplySystem(r)
  BY <1>5, ApplySystemInv
<1>6. CASE \E r \in Readers : ApplyMeter(r)
  BY <1>6, ApplyMeterInv
<1>7. CASE \E r \in Readers : Finish(r)
  BY <1>7, FinishInv
<1>8. CASE Snapshot
  BY <1>8, SnapshotInv
<1>9. CASE GridChanges \/ MeterChanges \/ ServiceRestarts \/ SignalsAreLost
             \/ RediscoveryFails \/ Tick
  BY <1>9, EnvironmentInv
<1>10. QED BY <1>1, <1>2, <1>3, <1>4, <1>5, <1>6, <1>7, <1>8, <1>9 DEF Next

\* The invariant holds in every reachable state, for any number of readers and any
\* order of signals, owner changes and replies (replace, update_meter, snapshot).
THEOREM Inductive == Spec => []IInv
<1>1. QED BY InitInv, NextInv, PTL DEF Spec

\* Every variable keeps its type; in particular a current reader applies health to
\* a meter that is selected, never to none (replace_meter).
THEOREM TypeCorrect == Spec => []TypeOK
<1>1. IInv => TypeOK
  BY DEF IInv
<1>2. QED BY <1>1, Inductive, PTL

------------------------------------------------------------------------------
(* The properties                                                            *)

\* What the first valid snapshots established stays the contract: a valid one is
\* of that source and instance, and of no fewer phases (snapshot, _source,
\* _source_instance, _required_phases).
THEOREM ContractStands == Spec => []ContractKept
<1>1. IInv => ContractKept
  <2> SUFFICES ASSUME IInv, Valid, contract.id # None
               PROVE  /\ Selected(fields) = contract.id
                      /\ 1 .. contract.phases \subseteq fields.power
                      /\ fields.count >= contract.phases
    BY DEF ContractKept
  <2>1. TypeOK /\ Pinned
    BY DEF IInv
  <2>2. PICK s \in Sources, n \in Numbers : Selected(fields) = <<s, n>>
    BY <2>1, ValidFacts
  <2>3. source = s /\ sourceInst = n
    BY <2>1, <2>2, ValidFacts DEF Pinned
  <2>4. Selected(fields) = contract.id
    BY <2>1, <2>2, <2>3 DEF Pinned
  <2>5. /\ fields.count \in 1 .. 2 /\ reqPhases \in 0 .. 2 /\ contract.phases \in 0 .. 2
        /\ fields.count >= reqPhases /\ contract.phases <= reqPhases
        /\ 1 .. fields.count \subseteq fields.power
    BY <2>1, ValidFacts DEF TypeOK, Pinned, Phases
  <2>6. QED BY <2>4, <2>5
<1>2. QED BY <1>1, Inductive, PTL

\* A reply that something newer overtook changes nothing when it is applied: the
\* token comparison of replace, replace_meter and unavailable is enough.
THEOREM OvertakenChangesNothing == Spec => NoRevival
<1>1. IInv /\ [Next]_vars =>
        [\A r \in Readers :
           overtaken[r] /\ stage[r] \in {"answered", "meterAnswered"} /\ stage'[r] # stage[r]
             => UNCHANGED cache]_vars
  <2> SUFFICES ASSUME IInv, Next, NEW r \in Readers,
                      overtaken[r], stage[r] \in {"answered", "meterAnswered"},
                      stage'[r] # stage[r]
               PROVE  UNCHANGED cache
    OBVIOUS
  <2>1. ~current[r] /\ TypeOK
    BY DEF IInv, OvertakenIsStale
  <2>2. \A q \in Readers : stage' = [stage EXCEPT ![q] = stage'[q]] => q = r
    BY <2>1 DEF TypeOK
  <2>3. CASE \E q \in Readers : ApplySystem(q)
    <3>1. PICK q \in Readers : ApplySystem(q)
      BY <2>3
    <3>2. q = r
      BY <2>1, <2>2, <3>1 DEF ApplySystem, Discard, TypeOK
    <3>3. QED BY <2>1, <3>1, <3>2 DEF ApplySystem
  <2>4. CASE \E q \in Readers : ApplyMeter(q)
    <3>1. PICK q \in Readers : ApplyMeter(q)
      BY <2>4
    <3>2. q = r
      BY <2>1, <2>2, <3>1 DEF ApplyMeter, Discard, TypeOK
    <3>3. QED BY <2>1, <3>1, <3>2 DEF ApplyMeter, cache
  <2>5. CASE PollReads \/ \E q \in Readers : ExtraReads(q) \/ SystemAnswers(q)
                                             \/ MeterAnswers(q) \/ Finish(q)
    BY <2>5 DEF PollReads, ExtraReads, Begin, SystemAnswers, MeterAnswers, Answered, Finish, cache
  <2>6. CASE Deliver \/ Snapshot \/ Tick \/ GridChanges \/ MeterChanges
               \/ ServiceRestarts \/ SignalsAreLost \/ RediscoveryFails
    BY <2>6 DEF Deliver, Snapshot, Tick, GridChanges, MeterChanges, ServiceRestarts,
                SignalsAreLost, RediscoveryFails, readers
  <2>7. QED BY <2>3, <2>4, <2>5, <2>6 DEF Next
<1>2. QED BY <1>1, Inductive, PTL DEF Spec, NoRevival

------------------------------------------------------------------------------
(* A restart with the service configured                                     *)

\* After an owner change no meter is ready, and no reader that asked one holds
\* the current token: only a read of the system service leads back to a meter.
Forgotten ==
  ownerError => /\ meter.ready = {}
                /\ \A r \in Readers : stage[r] \in {"meterAsked", "meterAnswered"}
                                        => ~current[r]

\* What was restarted and not read since cannot be valid: its restart has set
\* the owner error, which only a read of the system service clears, and has
\* forgotten the meter, which only its own read restores.
RestartedIsUnread ==
  /\ source = ExpectedService
  /\ System \in restarted => ownerError
  /\ source \in restarted \cap Natives => ownerError
  /\ source \in restarted => source \notin meter.ready

RInv == IInv /\ Forgotten /\ RestartedIsUnread

LEMMA InitRInv == Init => RInv
<1> SUFFICES ASSUME Init PROVE RInv
  OBVIOUS
<1>1. Forgotten /\ RestartedIsUnread
  BY DEF Init, Forgotten, RestartedIsUnread
<1>2. QED BY <1>1, InitInv DEF RInv

\* A step that leaves the cache's error and its ready meters alone.
LEMMA RestartOutside ==
  ASSUME RInv, UNCHANGED <<ownerError, restarted, source, stage, current>>,
         meter'.ready = meter.ready
  PROVE  Forgotten' /\ RestartedIsUnread'
BY DEF RInv, Forgotten, RestartedIsUnread

LEMMA DeliverRInv ==
  ASSUME RInv, ExpectedService # None, Deliver
  PROVE  Forgotten' /\ RestartedIsUnread'
<1>1. PICK msg \in Head(signals) :
        /\ IF msg.path = <<"owner">> THEN OwnerChanged(msg.from)
           ELSE IF msg.from = System THEN Update(msg.path, msg.value)
           ELSE UpdateMeter(msg.from, msg.path, msg.value)
        /\ restarted' = IF msg.path = <<"owner">> /\ msg.from \in Meters \cup {System, source}
                        THEN restarted \cup {msg.from} ELSE restarted
  BY DEF Deliver
<1>2. TypeOK /\ UNCHANGED <<stage, source>>
  BY DEF RInv, IInv, Deliver, pins
<1>3. CASE msg.path = <<"owner">> /\ Concerns(msg.from)
  <2>1. Forget /\ BumpFor({})
    BY <1>1, <1>3 DEF OwnerChanged
  <2>2. ownerError' = TRUE /\ meter'.ready = {} /\ \A r \in Readers : ~current'[r]
    BY <2>1, BumpTypes DEF Forget, NoMeter
  <2>3. QED BY <1>2, <2>2 DEF RInv, Forgotten, RestartedIsUnread
<1>4. CASE msg.path = <<"owner">> /\ ~Concerns(msg.from)
  <2>1. UNCHANGED <<cache, current>> /\ msg.from \notin {System, source}
    BY <1>1, <1>4 DEF OwnerChanged, Concerns
  <2>2. System \in restarted' <=> System \in restarted
    BY <1>1, <2>1
  <2>3. source \in restarted' <=> source \in restarted
    BY <1>1, <2>1
  <2>4. QED BY <1>2, <2>1, <2>2, <2>3 DEF RInv, Forgotten, RestartedIsUnread, cache
<1>5. CASE msg.path # <<"owner">>
  <2>1. /\ UNCHANGED <<ownerError, restarted>>
        /\ \A r \in Readers : current'[r] => current[r]
    <3>1. ASSUME BumpFor({}) PROVE \A r \in Readers : ~current'[r]
      BY <3>1, BumpTypes
    <3>2. QED BY <1>1, <1>5, <3>1 DEF Update, UpdateMeter
  <2>2. meter'.ready = meter.ready
    BY <1>1, <1>2, <1>5 DEF Update, UpdateMeter, TypeOK
  <2>3. QED BY <1>2, <2>1, <2>2 DEF RInv, Forgotten, RestartedIsUnread
<1>6. QED BY <1>3, <1>4, <1>5

LEMMA BeginRInv ==
  ASSUME RInv, NEW r \in Readers, Begin(r)
  PROVE  Forgotten' /\ RestartedIsUnread'
<1>1. /\ stage' = [stage EXCEPT ![r] = "asked"]
      /\ current' = [current EXCEPT ![r] = TRUE]
      /\ UNCHANGED <<ownerError, meter, restarted, source>>
  BY DEF Begin, cache, pins
<1>2. TypeOK
  BY DEF RInv, IInv
<1>3. Forgotten'
  BY <1>1, <1>2 DEF RInv, Forgotten, TypeOK
<1>4. RestartedIsUnread'
  BY <1>1 DEF RInv, RestartedIsUnread
<1>5. QED BY <1>3, <1>4

LEMMA AnsweredRInv ==
  ASSUME RInv, NEW r \in Readers, SystemAnswers(r) \/ MeterAnswers(r)
  PROVE  Forgotten' /\ RestartedIsUnread'
<1>1. UNCHANGED <<ownerError, meter, restarted, source, current>>
  BY DEF SystemAnswers, MeterAnswers, Answered, cache, pins
<1>2. \A q \in Readers : stage'[q] \in {"meterAsked", "meterAnswered"}
                           => stage[q] \in {"meterAsked", "meterAnswered"}
  BY DEF SystemAnswers, MeterAnswers, Answered, RInv, IInv, TypeOK
<1>3. QED BY <1>1, <1>2 DEF RInv, Forgotten, RestartedIsUnread

\* A read of the system service clears the error of all but the meters.
LEMMA ApplySystemRInv ==
  ASSUME RInv, NEW r \in Readers, ApplySystem(r)
  PROVE  Forgotten' /\ RestartedIsUnread'
<1>1. TypeOK /\ UNCHANGED source
  BY DEF RInv, IInv, ApplySystem, pins
<1>2. CASE ~current[r]
  <2>1. /\ stage' = [stage EXCEPT ![r] = "finishing"]
        /\ UNCHANGED <<cache, current, restarted>>
    BY <1>2 DEF ApplySystem, Discard
  <2>2. Forgotten'
    BY <1>1, <2>1 DEF RInv, Forgotten, TypeOK, cache
  <2>3. RestartedIsUnread'
    BY <1>1, <2>1 DEF RInv, RestartedIsUnread, cache
  <2>4. QED BY <2>2, <2>3
<1>3. CASE current[r] /\ reply[r] = None
  <2>1. /\ stage' = [stage EXCEPT ![r] = "finishing"] /\ BumpFor({r})
        /\ Forget /\ UNCHANGED restarted
    BY <1>3 DEF ApplySystem, Discard
  <2>2. ownerError' = TRUE /\ meter'.ready = {} /\ stage'[r] = "finishing"
    BY <1>1, <2>1 DEF Forget, NoMeter, TypeOK
  <2>3. \A q \in Readers : current'[q] => q = r
    BY <2>1, BumpTypes
  <2>4. QED BY <1>1, <2>1, <2>2, <2>3 DEF RInv, Forgotten, RestartedIsUnread
<1>4. CASE current[r] /\ reply[r] # None
  <2>1. /\ ownerError' = FALSE /\ UNCHANGED meter
        /\ restarted' = restarted \ ({System} \cup Natives)
    BY <1>4 DEF ApplySystem, Replace
  <2>2. QED BY <1>1, <2>1 DEF RInv, Forgotten, RestartedIsUnread
<1>5. QED BY <1>2, <1>3, <1>4

\* The selected meter becomes ready with its own read, which ends its restart.
LEMMA ApplyMeterRInv ==
  ASSUME RInv, NEW r \in Readers, ApplyMeter(r)
  PROVE  Forgotten' /\ RestartedIsUnread'
<1>1. TypeOK /\ UNCHANGED <<ownerError, source>>
  BY DEF RInv, IInv, ApplyMeter, pins
<1>2. CASE ~current[r]
  <2>1. /\ stage' = [stage EXCEPT ![r] = "finishing"]
        /\ UNCHANGED <<meter, current, restarted>>
    BY <1>2 DEF ApplyMeter, Discard
  <2>2. Forgotten'
    BY <1>1, <2>1 DEF RInv, Forgotten, TypeOK
  <2>3. QED BY <1>1, <2>1, <2>2 DEF RInv, RestartedIsUnread
<1>3. CASE current[r]
  <2>1. ~ownerError
    BY <1>3 DEF ApplyMeter, RInv, Forgotten
  <2>2. source \in restarted' => source \notin meter'.ready
    <3>1. CASE reply[r] = None
      <4>1. meter' = [meter EXCEPT !.ready = @ \ {SelectedMeter(fields)}] /\ UNCHANGED restarted
        BY <1>3, <3>1 DEF ApplyMeter
      <4>2. meter'.ready \subseteq meter.ready
        BY <1>1, <4>1 DEF TypeOK
      <4>3. QED BY <4>1, <4>2 DEF RInv, RestartedIsUnread
    <3>2. CASE reply[r] # None
      <4>1. /\ meter'.ready = meter.ready \cup {SelectedMeter(fields)}
            /\ restarted' = restarted \ {SelectedMeter(fields)}
        BY <1>1, <1>3, <3>2 DEF ApplyMeter, TypeOK
      <4>2. QED BY <4>1 DEF RInv, RestartedIsUnread
    <3>3. QED BY <3>1, <3>2
  <2>3. restarted' \subseteq restarted
    BY <1>3 DEF ApplyMeter
  <2>4. QED BY <1>1, <2>1, <2>2, <2>3 DEF RInv, Forgotten, RestartedIsUnread
<1>4. QED BY <1>2, <1>3

\* A configured source is never replaced by the one a snapshot shows.
LEMMA PinKeepsSource ==
  ASSUME TypeOK, PinContract, source # None
  PROVE  source' = source
BY ValidFacts DEF PinContract

LEMMA FinishRInv ==
  ASSUME RInv, ExpectedService # None, NEW r \in Readers, Finish(r)
  PROVE  Forgotten' /\ RestartedIsUnread'
<1>1. TypeOK /\ source # None
  BY DEF RInv, IInv, RestartedIsUnread
<1>2. /\ stage' = [stage EXCEPT ![r] = "idle"]
      /\ current' = [current EXCEPT ![r] = FALSE]
      /\ UNCHANGED <<ownerError, meter, restarted>> /\ source' = source
  BY <1>1, PinKeepsSource DEF Finish, cache
<1>3. Forgotten'
  BY <1>1, <1>2 DEF RInv, Forgotten, TypeOK
<1>4. QED BY <1>2, <1>3 DEF RInv, RestartedIsUnread

LEMMA OtherRInv ==
  ASSUME RInv, ExpectedService # None,
         Snapshot \/ GridChanges \/ MeterChanges \/ ServiceRestarts \/ SignalsAreLost
           \/ RediscoveryFails \/ Tick \/ UNCHANGED vars
  PROVE  Forgotten' /\ RestartedIsUnread'
<1>1. TypeOK /\ source # None
  BY DEF RInv, IInv, RestartedIsUnread
<1>2. source' = source
  BY <1>1, PinKeepsSource DEF Snapshot, GridChanges, MeterChanges, ServiceRestarts,
     SignalsAreLost, RediscoveryFails, Tick, vars, pins
<1>3. UNCHANGED <<ownerError, restarted, stage, current>>
  BY DEF Snapshot, GridChanges, MeterChanges, ServiceRestarts, SignalsAreLost,
     RediscoveryFails, Tick, vars, cache, readers
<1>4. meter'.ready = meter.ready
  BY <1>1 DEF Snapshot, GridChanges, MeterChanges, ServiceRestarts, SignalsAreLost,
     RediscoveryFails, Tick, vars, cache, TypeOK
<1>5. QED BY <1>2, <1>3, <1>4, RestartOutside

LEMMA NextRInv == ExpectedService # None /\ RInv /\ [Next]_vars => RInv'
<1> SUFFICES ASSUME ExpectedService # None, RInv, [Next]_vars PROVE RInv'
  OBVIOUS
<1>1. IInv'
  BY NextInv DEF RInv
<1>2. Forgotten' /\ RestartedIsUnread'
  <2>1. CASE Deliver
    BY <2>1, DeliverRInv
  <2>2. CASE PollReads \/ \E r \in Readers : ExtraReads(r)
    BY <2>2, BeginRInv, GridAssumption DEF PollReads, ExtraReads
  <2>3. CASE \E r \in Readers : SystemAnswers(r) \/ MeterAnswers(r)
    BY <2>3, AnsweredRInv
  <2>4. CASE \E r \in Readers : ApplySystem(r)
    BY <2>4, ApplySystemRInv
  <2>5. CASE \E r \in Readers : ApplyMeter(r)
    BY <2>5, ApplyMeterRInv
  <2>6. CASE \E r \in Readers : Finish(r)
    BY <2>6, FinishRInv
  <2>7. CASE Snapshot \/ GridChanges \/ MeterChanges \/ ServiceRestarts \/ SignalsAreLost
               \/ RediscoveryFails \/ Tick \/ UNCHANGED vars
    BY <2>7, OtherRInv
  <2>8. QED BY <2>1, <2>2, <2>3, <2>4, <2>5, <2>6, <2>7 DEF Next
<1>3. QED BY <1>1, <1>2 DEF RInv

\* After the system service or the configured source restarted, nothing is
\* valid until each was read again (owner_changed, replace, replace_meter):
\* the owner error stands until the system service is read, and the meter is not
\* ready until it is read itself.  GRID_EXPECTED_SERVICE must name the source, as
\* the restart of a meter that is neither selected nor pinned is ignored.
THEOREM RestartedIsRead == ExpectedService # None => (Spec => []FreshAfterRestart)
<1> SUFFICES ASSUME ExpectedService # None PROVE Spec => []FreshAfterRestart
  OBVIOUS
<1>1. Init => RInv
  BY InitRInv
<1>2. RInv /\ [Next]_vars => RInv'
  BY NextRInv
<1>3. RInv => FreshAfterRestart
  <2> SUFFICES ASSUME RInv, Valid
               PROVE  System \notin restarted /\ Selected(fields)[1] \notin restarted
    BY DEF FreshAfterRestart
  <2>1. TypeOK /\ source = ExpectedService
    BY DEF RInv, IInv, RestartedIsUnread
  <2>2. PICK s \in Sources, n \in Numbers : Selected(fields) = <<s, n>>
    BY <2>1, ValidFacts
  <2>3. source = s /\ ~ownerError
    BY <2>1, <2>2, ValidFacts
  <2>4. CASE s \in Natives
    BY <2>2, <2>3, <2>4 DEF RInv, RestartedIsUnread
  <2>5. CASE s \in Meters
    <3>1. SelectedMeter(fields) = s /\ s # None
      BY <2>2, <2>5, ConstantFacts DEF SelectedMeter
    <3>2. s \in meter.ready
      BY <3>1 DEF Valid, MeterOK
    <3>3. QED BY <2>2, <2>3, <3>2 DEF RInv, RestartedIsUnread
  <2>6. QED BY <2>4, <2>5 DEF Sources
<1>4. QED BY <1>1, <1>2, <1>3, PTL DEF Spec
==============================================================================
