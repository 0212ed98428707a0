------------------------- MODULE Subscriptions_proofs -------------------------
(***************************************************************************)
(* Theorems about Subscriptions, for any names, breaks, moves and refusals. *)
(***************************************************************************)
EXTENDS Subscriptions, TLAPS

\* The bounds are numbers, and the service has a name.
ConstantsOK == Breaks \in Nat /\ Moves \in Nat /\ Refusals \in Nat /\ Names # {}

\* The number the next connection would get
Newest == Breaks + 1 - budget.breaks

BusTypes ==
  /\ bus \in [id : Nat, up : BOOLEAN, cooldown : BOOLEAN]
  /\ thread \in [Threads -> [at : {"idle", "getting", "calling", "failed", "replied"}, bus : Nat]]
  /\ budget \in [breaks : 0 .. Breaks, moves : Int, refusals : Int]

\* A connection that stands has the newest number; one that broke, and what threads
\* remember of it, has an older one.
ConnectionsAreNumbered ==
  /\ IF bus.up THEN bus.id = Newest ELSE bus.id < Newest
  /\ \A t \in Threads : IF bus.up THEN thread[t].bus <= Newest ELSE thread[t].bus < Newest

\* Only a call on a connection that is gone gets to _mark_failure.
FailuresAreOld == \A t \in Threads : thread[t].at = "failed" /\ bus.up => thread[t].bus # bus.id

IInv == BusTypes /\ ConnectionsAreNumbered /\ FailuresAreOld

LEMMA InitIInv == ASSUME ConstantsOK, Init PROVE IInv
<1> USE DEF Init, ConstantsOK
<1>1. BusTypes BY DEF BusTypes
<1>2. ConnectionsAreNumbered BY DEF ConnectionsAreNumbered, Newest
<1>3. FailuresAreOld BY DEF FailuresAreOld
<1>4. QED BY <1>1, <1>2, <1>3 DEF IInv

\* A thread goes on with the connection it has found, or with none; a failure has
\* met another connection than the one that stands.
LEMMA ThreadKeeps ==
  ASSUME ConstantsOK, IInv, NEW t \in Threads,
         NEW at \in {"idle", "getting", "calling", "failed", "replied"}, NEW id \in {0, bus.id, thread[t].bus},
         thread' = [thread EXCEPT ![t] = [at |-> at, bus |-> id]],
         at = "failed" /\ bus.up => id # bus.id,
         bus' = bus, budget' = budget \/ Refused
  PROVE  IInv'
<1>1. id \in Nat /\ bus.id \in Nat /\ thread[t].bus \in Nat BY DEF IInv, BusTypes
<1>2. budget' \in [breaks : {budget.breaks}, moves : Int, refusals : Int] /\ budget.breaks \in 0 .. Breaks
  BY DEF IInv, BusTypes, Refused
<1>3. Newest' = Newest /\ Newest \in Nat /\ Newest > 0 BY <1>2 DEF Newest, ConstantsOK
<1>4. BusTypes' BY <1>1, <1>2 DEF IInv, BusTypes
<1>5. \A u \in Threads : thread'[u] = IF u = t THEN [at |-> at, bus |-> id] ELSE thread[u]
  BY DEF IInv, BusTypes
<1>6. ConnectionsAreNumbered'
  <2>1. IF bus'.up THEN bus'.id = Newest' ELSE bus'.id < Newest'
    BY <1>3 DEF IInv, ConnectionsAreNumbered
  <2>2. IF bus.up THEN id <= Newest ELSE id < Newest
    BY <1>1, <1>3 DEF IInv, ConnectionsAreNumbered
  <2>3. \A u \in Threads : IF bus'.up THEN thread'[u].bus <= Newest' ELSE thread'[u].bus < Newest'
    BY <1>3, <1>5, <2>2 DEF IInv, ConnectionsAreNumbered
  <2>4. QED BY <2>1, <2>3 DEF ConnectionsAreNumbered
<1>7. FailuresAreOld' BY <1>5 DEF IInv, FailuresAreOld
<1>8. QED BY <1>4, <1>6, <1>7 DEF IInv

LEMMA StartKeeps == ASSUME ConstantsOK, IInv, NEW t \in Threads, Start(t) PROVE IInv'
BY ThreadKeeps DEF Start, At

LEMMA ProceedKeeps ==
  ASSUME ConstantsOK, IInv, NEW t \in Threads, Proceed(t), bus' = bus, budget' = budget PROVE IInv'
BY ThreadKeeps DEF Proceed, At

LEMMA GetBusKeeps == ASSUME ConstantsOK, IInv, NEW t \in Threads, GetBus(t) PROVE IInv'
BY ThreadKeeps, ProceedKeeps DEF GetBus, At

LEMMA CallKeeps == ASSUME ConstantsOK, IInv, NEW t \in Threads, Call(t) PROVE IInv'
<1> DEFINE live == bus.up /\ bus.id = thread[t].bus
<1>1. bus' = bus BY DEF Call
<1>2. CASE live /\ At(t, IF t = "setup" THEN "replied" ELSE "idle", thread[t].bus) /\ budget' = budget
  BY <1>1, <1>2, ThreadKeeps DEF At
<1>3. CASE ~live /\ (IF t = "setup" THEN At(t, "idle", 0) ELSE At(t, "failed", thread[t].bus)) /\ budget' = budget
  BY <1>1, <1>3, ThreadKeeps DEF At
<1>4. CASE Refused /\ At(t, "idle", 0) BY <1>1, <1>4, ThreadKeeps DEF At
<1>5. QED BY <1>2, <1>3, <1>4 DEF Call

LEMMA SubscribedKeeps == ASSUME ConstantsOK, IInv, Subscribed PROVE IInv'
BY ThreadKeeps DEF Subscribed, At, Threads

LEMMA ConnectKeeps == ASSUME ConstantsOK, IInv, NEW t \in Threads, Connect(t) PROVE IInv'
<1>1. ~bus.up BY DEF Connect
<1>2. CASE Refused /\ bus' = [bus EXCEPT !.id = 0, !.cooldown = TRUE] /\ At(t, "idle", 0)
  <2>1. bus' = [id |-> 0, up |-> bus.up, cooldown |-> TRUE] BY <1>2 DEF IInv, BusTypes
  <2>2. budget' \in [breaks : {budget.breaks}, moves : Int, refusals : Int] /\ budget.breaks \in 0 .. Breaks
    BY <1>2 DEF IInv, BusTypes, Refused
  <2>3. Newest' = Newest /\ Newest \in Nat /\ Newest > 0 BY <2>2 DEF Newest, ConstantsOK
  <2>4. \A u \in Threads : thread'[u] = IF u = t THEN [at |-> "idle", bus |-> 0] ELSE thread[u]
    BY <1>2 DEF At, IInv, BusTypes
  <2>5. thread' \in [Threads -> [at : {"idle", "getting", "calling", "failed", "replied"}, bus : Nat]]
    BY <1>2 DEF At, IInv, BusTypes
  <2>6. BusTypes' BY <2>1, <2>2, <2>5 DEF IInv, BusTypes
  <2>7. ConnectionsAreNumbered' BY <1>1, <2>1, <2>3, <2>4 DEF IInv, ConnectionsAreNumbered
  <2>8. FailuresAreOld' BY <1>1, <2>1 DEF FailuresAreOld
  <2>9. QED BY <2>6, <2>7, <2>8 DEF IInv
<1>3. CASE bus' = [id |-> Breaks + 1 - budget.breaks, up |-> TRUE, cooldown |-> FALSE] /\ thread' = thread
      /\ budget' = budget
  <2>1. Newest' = Newest /\ Newest \in Nat /\ bus'.id = Newest /\ bus'.up
    BY <1>3 DEF Newest, IInv, BusTypes, ConstantsOK
  <2>2. BusTypes' BY <1>3, <2>1 DEF IInv, BusTypes
  <2>3. \A u \in Threads : thread[u].bus < Newest /\ thread[u].bus \in Nat
    BY <1>1 DEF IInv, ConnectionsAreNumbered, BusTypes
  <2>4. ConnectionsAreNumbered' BY <1>3, <2>1, <2>3 DEF ConnectionsAreNumbered
  <2>5. FailuresAreOld' BY <1>3, <2>1, <2>3 DEF FailuresAreOld
  <2>6. QED BY <2>2, <2>4, <2>5 DEF IInv
<1>4. QED BY <1>2, <1>3 DEF Connect

\* A failed thread drops only a connection that is down already.
LEMMA MarkFailureKeeps ==
  ASSUME ConstantsOK, IInv, NEW t \in Threads, MarkFailure(t)
  PROVE  IInv' /\ (bus.up => bus' = bus)
<1>1. thread[t].at = "failed" /\ bus' = Dropped(thread[t].bus) /\ At(t, "idle", 0) /\ budget' = budget
  BY DEF MarkFailure
<1>2. CASE bus' = bus BY <1>1, <1>2, ThreadKeeps DEF At
<1>3. CASE bus' # bus
  <2>1. ~bus.up /\ bus' = [id |-> 0, up |-> FALSE, cooldown |-> TRUE]
    BY <1>1, <1>3 DEF Dropped, IInv, FailuresAreOld, BusTypes
  <2>2. Newest' = Newest /\ Newest \in Nat /\ Newest > 0 BY <1>1 DEF Newest, IInv, BusTypes, ConstantsOK
  <2>3. \A u \in Threads : thread'[u] = IF u = t THEN [at |-> "idle", bus |-> 0] ELSE thread[u]
    BY <1>1 DEF At, IInv, BusTypes
  <2>4. thread' \in [Threads -> [at : {"idle", "getting", "calling", "failed", "replied"}, bus : Nat]]
    BY <1>1 DEF At, IInv, BusTypes
  <2>5. BusTypes' BY <1>1, <2>1, <2>4 DEF IInv, BusTypes
  <2>6. ConnectionsAreNumbered' BY <2>1, <2>2, <2>3 DEF IInv, ConnectionsAreNumbered
  <2>7. FailuresAreOld' BY <2>1 DEF FailuresAreOld
  <2>8. QED BY <2>1, <2>5, <2>6, <2>7 DEF IInv
<1>4. QED BY <1>2, <1>3

LEMMA BusBreaksKeeps == ASSUME ConstantsOK, IInv, BusBreaks PROVE IInv'
<1>1. /\ bus.up /\ budget.breaks > 0 /\ thread' = thread
      /\ bus' = [id |-> bus.id, up |-> FALSE, cooldown |-> bus.cooldown]
      /\ budget' = [breaks |-> budget.breaks - 1, moves |-> budget.moves, refusals |-> budget.refusals]
  BY DEF BusBreaks, IInv, BusTypes
<1>2. budget.breaks \in 0 .. Breaks /\ bus.id \in Nat /\ \A t \in Threads : thread[t].bus \in Nat
  BY DEF IInv, BusTypes
<1>3. Newest' = Newest + 1 /\ Newest \in Nat BY <1>1, <1>2 DEF Newest, ConstantsOK
<1>4. BusTypes' BY <1>1, <1>2 DEF IInv, BusTypes, ConstantsOK
<1>5. ConnectionsAreNumbered' BY <1>1, <1>2, <1>3 DEF IInv, ConnectionsAreNumbered
<1>6. FailuresAreOld' BY <1>1 DEF FailuresAreOld
<1>7. QED BY <1>4, <1>5, <1>6 DEF IInv

\* The replay, the loop, the daemon and the service leave the connection alone.
LEMMA OthersKeep ==
  ASSUME ConstantsOK, IInv, thread' = thread, bus' = bus \/ bus' = [bus EXCEPT !.cooldown = FALSE],
         \/ budget' = budget \/ Refused
         \/ budget' = [budget EXCEPT !.moves = @ - 1]
  PROVE  IInv'
<1>1. bus' \in [id : {bus.id}, up : {bus.up}, cooldown : BOOLEAN] BY DEF IInv, BusTypes
<1>2. budget' \in [breaks : {budget.breaks}, moves : Int, refusals : Int]
  BY DEF IInv, BusTypes, Refused
<1>3. BusTypes' BY <1>1, <1>2 DEF IInv, BusTypes
<1>4. Newest' = Newest BY <1>2 DEF Newest
<1>5. ConnectionsAreNumbered' BY <1>1, <1>4 DEF IInv, ConnectionsAreNumbered
<1>6. FailuresAreOld' BY <1>1 DEF IInv, FailuresAreOld
<1>7. QED BY <1>3, <1>5, <1>6 DEF IInv

LEMMA NextKeeps == ASSUME ConstantsOK, IInv, [Next]_svars PROVE IInv' /\ (bus.up => bus'.id = bus.id)
<1>1. CASE \E t \in Threads : Start(t) BY <1>1, StartKeeps DEF Start
<1>2. CASE \E t \in Threads : GetBus(t) BY <1>2, GetBusKeeps DEF GetBus
<1>3. CASE \E t \in Threads : Connect(t) BY <1>3, ConnectKeeps DEF Connect
<1>4. CASE \E t \in Threads : ReplayEnds(t) BY <1>4, ProceedKeeps DEF ReplayEnds
<1>5. CASE \E t \in Threads : Call(t) BY <1>5, CallKeeps DEF Call
<1>6. CASE \E t \in Threads : MarkFailure(t) BY <1>6, MarkFailureKeeps
<1>7. CASE \E t \in Threads : \E rule \in Rules : ReplayRule(t, rule) BY <1>7, OthersKeep DEF ReplayRule
<1>8. CASE Subscribed BY <1>8, SubscribedKeeps DEF Subscribed
<1>9. CASE ResolverEnds \/ ResolverFails \/ LoopHandles \/ DaemonAnswers \/ OwnerMoves \/ ServiceSignals
  BY <1>9, OthersKeep DEF ResolverEnds, ResolverFails, LoopHandles, DaemonAnswers, OwnerMoves, ServiceSignals
<1>10. CASE BusBreaks
  <2>1. bus'.id = bus.id BY <1>10 DEF BusBreaks, IInv, BusTypes
  <2>2. QED BY <1>10, <2>1, BusBreaksKeeps
<1>11. CASE CooldownEnds
  <2>1. bus'.id = bus.id BY <1>11 DEF CooldownEnds, IInv, BusTypes
  <2>2. QED BY <1>11, <2>1, OthersKeep DEF CooldownEnds
<1>12. CASE UNCHANGED svars BY <1>12, OthersKeep DEF svars
<1>13. QED BY <1>1, <1>2, <1>3, <1>4, <1>5, <1>6, <1>7, <1>8, <1>9, <1>10, <1>11, <1>12 DEF Next

\* A connection that stands is never replaced or dropped by a thread whose call
\* failed on an older one, for any number of reconnects (_mark_failure).
THEOREM FailuresDropOnlyTheirOwn ==
  ASSUME ConstantsOK PROVE Spec => LiveConnectionKept
<1>1. Init => IInv BY InitIInv
<1>2. IInv /\ [Next]_svars => IInv' /\ [bus.up => bus'.id = bus.id]_svars BY NextKeeps
<1>3. QED BY <1>1, <1>2, PTL DEF Spec, LiveConnectionKept

-----------------------------------------------------------------------------
(* The senders' names *)

Holders == Names \cup {None}
Mail == [kind : {"signal", "changed", "reply"}, old : Holders, owner : Holders]

SenderTypes ==
  /\ incoming \in Seq(Mail) /\ owner \in Holders
  /\ senders \subseteq Names /\ ownerVersion \in Nat
  /\ resolver # None => resolver \in [bus : Nat, version : Nat, owner : Holders \cup {Pending}]
  /\ missed \in BOOLEAN /\ tracked \in BOOLEAN

\* The service has the name, or the loop will hear that it lost it after the n-th
\* message.
Announced(n, name) ==
  name = owner \/ \E j \in n + 1 .. Len(incoming) : incoming[j].kind = "changed" /\ incoming[j].old = name

\* A lost connection announces nothing.
DownIsMissed == ~bus.up => missed

\* A question for a sender is of a tracked service, and not from the future.
QuestionsAreTracked ==
  resolver # None =>
    /\ tracked /\ resolver.version <= ownerVersion
    /\ IF bus.up THEN resolver.bus <= Newest ELSE resolver.bus < Newest

\* Whatever name the daemon has told is the service's, or its loss is announced
\* behind it.
MailIsInOrder == ~missed => \A i \in 1 .. Len(incoming) : Announced(i, incoming[i].owner)

\* So is the answer that is about to be bound.
AnswerIsCurrent ==
  ~missed /\ resolver # None =>
    (resolver.owner \notin {None, Pending} /\ ~Obsolete(resolver) => Announced(0, resolver.owner))

SendersAreCurrent == ~missed => \A n \in senders : Announced(0, n)

SInv == SenderTypes /\ DownIsMissed /\ QuestionsAreTracked /\ MailIsInOrder /\ AnswerIsCurrent /\ SendersAreCurrent

LEMMA InitSInv == ASSUME ConstantsOK, Init PROVE SInv
<1>1. (CHOOSE n \in Names : TRUE) \in Names BY DEF ConstantsOK
<1>2. SenderTypes
  <2>1. incoming \in Seq(Mail) BY DEF Init
  <2>2. missed \in BOOLEAN /\ tracked \in BOOLEAN BY DEF Init
  <2>3. QED BY <1>1, <2>1, <2>2 DEF Init, SenderTypes, Holders
<1>3. QED BY <1>2 DEF Init, SInv, DownIsMissed, QuestionsAreTracked, MailIsInOrder, AnswerIsCurrent, SendersAreCurrent

\* What was announced still is when a message is added; the loss of the name the
\* service had is what that message says.
LEMMA SendingKeeps ==
  ASSUME SenderTypes, NEW m \in Mail, incoming' = Append(incoming, m),
         owner' = owner \/ (m.kind = "changed" /\ m.old = owner),
         NEW n \in Nat, n <= Len(incoming), NEW name, Announced(n, name)
  PROVE  Announced(n, name)'
<1>1. /\ Len(incoming) \in Nat /\ Len(incoming') = Len(incoming) + 1 /\ incoming'[Len(incoming) + 1] = m
      /\ \A i \in 1 .. Len(incoming) : incoming'[i] = incoming[i]
  BY DEF SenderTypes
<1>2. CASE name = owner
  <2>1. Len(incoming) + 1 \in n + 1 .. Len(incoming') BY <1>1
  <2>2. QED BY <1>1, <1>2, <2>1 DEF Announced
<1>3. CASE name # owner
  <2>1. PICK j \in n + 1 .. Len(incoming) : incoming[j].kind = "changed" /\ incoming[j].old = name
    BY <1>3 DEF Announced
  <2>2. j \in 1 .. Len(incoming) /\ j \in n + 1 .. Len(incoming') BY <1>1, <2>1
  <2>3. incoming'[j] = incoming[j] BY <1>1, <2>2
  <2>4. QED BY <2>1, <2>2, <2>3 DEF Announced
<1>4. QED BY <1>2, <1>3

LEMMA FirstMail ==
  ASSUME SenderTypes, incoming # <<>>, incoming' = Tail(incoming)
  PROVE  /\ incoming' \in Seq(Mail) /\ Len(incoming) \in Nat \ {0} /\ Len(incoming') = Len(incoming) - 1
         /\ \A i \in 1 .. Len(incoming') : incoming'[i] = incoming[i + 1]
         /\ Head(incoming) = incoming[1] /\ Head(incoming) \in Mail
<1> DEFINE s == incoming
<1>1. s \in Seq(Mail) /\ s # <<>> BY DEF SenderTypes
<1> HIDE DEF s
<1>2. /\ Tail(s) \in Seq(Mail) /\ Len(s) \in Nat \ {0} /\ Len(Tail(s)) = Len(s) - 1
      /\ \A i \in 1 .. Len(Tail(s)) : Tail(s)[i] = s[i + 1]
  BY <1>1
<1>3. Head(s) = s[1] /\ Head(s) \in Mail BY <1>1
<1>4. QED BY <1>2, <1>3 DEF s

\* What was announced behind the first message is announced once that is taken.
LEMMA TakingKeeps ==
  ASSUME SenderTypes, incoming # <<>>, incoming' = Tail(incoming), owner' = owner,
         NEW n \in Nat \ {0}, NEW name, Announced(n, name)
  PROVE  Announced(n - 1, name)'
<1>1. /\ Len(incoming) \in Nat \ {0} /\ Len(incoming') = Len(incoming) - 1
      /\ \A i \in 1 .. Len(incoming') : incoming'[i] = incoming[i + 1]
  BY FirstMail
<1>2. CASE name = owner BY <1>2 DEF Announced
<1>3. CASE name # owner
  <2>1. PICK j \in n + 1 .. Len(incoming) : incoming[j].kind = "changed" /\ incoming[j].old = name
    BY <1>3 DEF Announced
  <2>2. j - 1 \in 1 .. Len(incoming') /\ j - 1 \in n - 1 + 1 .. Len(incoming') /\ j - 1 + 1 = j BY <1>1, <2>1
  <2>3. incoming'[j - 1] = incoming[j] BY <1>1, <2>2
  <2>4. QED BY <2>1, <2>2, <2>3 DEF Announced
<1>4. QED BY <1>2, <1>3

LEMMA OthersAnnounceNothing ==
  ASSUME SenderTypes, incoming # <<>>, NEW name, Announced(0, name),
         ~(Head(incoming).kind = "changed" /\ Head(incoming).old = name)
  PROVE  Announced(1, name)
<1>1. Len(incoming) \in Nat \ {0} /\ Head(incoming) = incoming[1] BY DEF SenderTypes
<1>2. ASSUME NEW j \in 0 + 1 .. Len(incoming), incoming[j].kind = "changed", incoming[j].old = name
      PROVE  j \in 1 + 1 .. Len(incoming)
  BY <1>1, <1>2
<1>3. QED BY <1>2 DEF Announced

\* Steps that bind nothing, say nothing and at most ask for a sender
LEMMA QuietKeeps ==
  ASSUME ConstantsOK, IInv, SInv, bus'.up = bus.up, bus.up => bus'.id = bus.id, Newest' = Newest,
         UNCHANGED <<incoming, owner, missed, senders, ownerVersion>>, tracked' \in {tracked, TRUE},
         \/ resolver' \in {resolver, None}
         \/ /\ tracked' /\ bus.up
            /\ resolver' = [bus |-> bus.id, version |-> ownerVersion, owner |-> Pending]
  PROVE  SInv'
<1>1. bus.id \in Nat /\ ownerVersion \in Nat BY DEF IInv, BusTypes, SInv, SenderTypes
<1>2. SenderTypes'
  <2>1. resolver' # None => resolver' \in [bus : Nat, version : Nat, owner : Holders \cup {Pending}]
    BY <1>1 DEF SInv, SenderTypes
  <2>2. missed' \in BOOLEAN /\ tracked' \in BOOLEAN BY Zenon DEF SInv, SenderTypes
  <2>3. QED BY <2>1, <2>2 DEF SInv, SenderTypes
<1>3. DownIsMissed' BY DEF SInv, DownIsMissed
<1>4. QuestionsAreTracked'
  <2>1. bus.up => bus.id = Newest BY DEF IInv, ConnectionsAreNumbered
  <2>2. Newest \in Int BY DEF Newest, IInv, BusTypes, ConstantsOK
  <2>3. CASE resolver' = [bus |-> bus.id, version |-> ownerVersion, owner |-> Pending] /\ tracked' /\ bus.up
    BY <1>1, <2>1, <2>2, <2>3 DEF QuestionsAreTracked
  <2>4. CASE resolver' \in {resolver, None}
    <3>1. tracked => tracked' BY Zenon
    <3>2. QED BY <2>4, <3>1 DEF SInv, QuestionsAreTracked
  <2>5. QED BY <2>3, <2>4
<1>5. MailIsInOrder' /\ SendersAreCurrent' BY DEF SInv, MailIsInOrder, SendersAreCurrent, Announced
<1>6. AnswerIsCurrent' BY DEF SInv, DownIsMissed, AnswerIsCurrent, Announced, Obsolete
<1>7. QED BY <1>2, <1>3, <1>4, <1>5, <1>6 DEF SInv

-----------------------------------------------------------------------------
(* The steps *)

\* A new connection knows no sender, and no question was asked on it.
LEMMA ConnectedSenders == ASSUME ConstantsOK, IInv, SInv, NEW t \in Threads, Connect(t) PROVE SInv'
<1>1. ~bus.up /\ missed BY DEF Connect, SInv, DownIsMissed
<1>2. CASE Refused /\ bus' = [bus EXCEPT !.id = 0, !.cooldown = TRUE] /\ UNCHANGED <<shared, loopvars, daemon>>
  <2>1. bus'.up = bus.up BY <1>2 DEF IInv, BusTypes
  <2>2. Newest' = Newest BY <1>2 DEF Newest, Refused, IInv, BusTypes
  <2>3. QED BY <1>1, <1>2, <2>1, <2>2, QuietKeeps DEF shared, loopvars, daemon, SInv, SenderTypes
<1>3. CASE /\ bus' = [id |-> Breaks + 1 - budget.breaks, up |-> TRUE, cooldown |-> FALSE]
           /\ senders' = {} /\ incoming' = <<>> /\ missed' = FALSE
           /\ UNCHANGED <<tracked, ownerVersion, resolver, owner, budget>>
  <2>1. Newest' = Newest /\ bus'.id = Newest /\ bus'.up /\ Newest \in Int
    BY <1>3 DEF Newest, IInv, BusTypes, ConstantsOK
  <2>2. incoming' \in Seq(Mail) /\ Len(incoming') = 0 BY <1>3
  <2>3. SenderTypes' BY <1>3, <2>2 DEF SInv, SenderTypes
  <2>4. resolver # None => resolver.bus < Newest /\ resolver.bus \in Nat
    BY <1>1 DEF SInv, SenderTypes, QuestionsAreTracked
  <2>5. QuestionsAreTracked' BY <1>3, <2>1, <2>4 DEF SInv, QuestionsAreTracked
  <2>6. MailIsInOrder' /\ SendersAreCurrent' BY <1>3, <2>2 DEF MailIsInOrder, SendersAreCurrent
  <2>7. AnswerIsCurrent' BY <1>3, <2>1, <2>4 DEF AnswerIsCurrent, Obsolete
  <2>8. DownIsMissed' BY <2>1 DEF DownIsMissed
  <2>9. QED BY <2>3, <2>5, <2>6, <2>7, <2>8 DEF SInv
<1>4. QED BY <1>2, <1>3 DEF Connect, shared

\* A broken connection: what changes now is missed.
LEMMA BrokenSenders == ASSUME ConstantsOK, IInv, SInv, BusBreaks PROVE SInv'
<1>1. /\ bus.up /\ budget.breaks > 0 /\ missed' = TRUE /\ incoming' = <<>>
      /\ budget' = [budget EXCEPT !.breaks = @ - 1]
      /\ UNCHANGED <<tracked, senders, ownerVersion, resolver, owner>>
  BY DEF BusBreaks, shared, loopvars
<1>2. bus'.up = FALSE BY DEF BusBreaks, IInv, BusTypes
<1>3. Newest' = Newest + 1 /\ Newest \in Int BY <1>1 DEF Newest, IInv, BusTypes, ConstantsOK
<1>4. SenderTypes'
  <2>1. incoming' \in Seq(Mail) BY <1>1
  <2>2. QED BY <1>1, <2>1 DEF SInv, SenderTypes
<1>5. QuestionsAreTracked'
  <2>1. resolver # None => resolver.bus \in Nat BY DEF SInv, SenderTypes
  <2>2. QED BY <1>1, <1>2, <1>3, <2>1 DEF SInv, QuestionsAreTracked
<1>6. QED BY <1>1, <1>4, <1>5 DEF SInv, DownIsMissed, MailIsInOrder, AnswerIsCurrent, SendersAreCurrent

\* The daemon or the service tells the name the service has.
LEMMA ToldSenders ==
  ASSUME ConstantsOK, IInv, SInv, NEW m \in Mail, Sends(m), m.owner = owner',
         owner' = owner \/ (m.kind = "changed" /\ m.old = owner), owner' \in Holders,
         missed' = missed, Newest' = Newest,
         UNCHANGED <<bus, tracked, senders, ownerVersion, resolver>>
  PROVE  SInv'
<1>1. SenderTypes BY DEF SInv
<1>2. SenderTypes'
  <2>1. Append(incoming, m) \in Seq(Mail) BY <1>1 DEF SenderTypes
  <2>2. QED BY <1>1, <2>1 DEF Sends, SenderTypes
<1>3. QuestionsAreTracked' /\ DownIsMissed' BY DEF SInv, QuestionsAreTracked, DownIsMissed
<1>4. CASE missed BY <1>2, <1>3, <1>4 DEF SInv, MailIsInOrder, AnswerIsCurrent, SendersAreCurrent
<1>5. CASE ~missed
  <2>1. incoming' = Append(incoming, m) BY <1>5 DEF Sends, SInv, DownIsMissed
  <2>2. /\ Len(incoming) \in Nat /\ Len(incoming') = Len(incoming) + 1 /\ incoming'[Len(incoming) + 1] = m
        /\ \A i \in 1 .. Len(incoming) : incoming'[i] = incoming[i]
    BY <1>1, <2>1 DEF SenderTypes
  <2>3. ASSUME NEW n \in 0 .. Len(incoming), NEW name, Announced(n, name) PROVE Announced(n, name)'
    BY <1>1, <2>1, <2>2, <2>3, SendingKeeps
  <2>4. MailIsInOrder'
    <3>1. ASSUME NEW i \in 1 .. Len(incoming) + 1 PROVE Announced(i, incoming[i].owner)'
      <4>1. CASE i = Len(incoming) + 1 BY <2>2, <4>1 DEF Announced
      <4>2. CASE i # Len(incoming) + 1
        <5>1. i \in 1 .. Len(incoming) /\ i \in 0 .. Len(incoming) BY <2>2, <4>2
        <5>2. PICK name : name = incoming[i].owner OBVIOUS
        <5>3. Announced(i, name) BY <1>5, <5>1, <5>2 DEF SInv, MailIsInOrder
        <5>4. Announced(i, name)' /\ incoming'[i].owner = name BY <2>2, <2>3, <5>1, <5>2, <5>3
        <5>5. QED BY <5>4 DEF Announced
      <4>3. QED BY <4>1, <4>2
    <3>2. QED BY <2>2, <3>1 DEF MailIsInOrder
  <2>5. SendersAreCurrent' BY <1>5, <2>2, <2>3 DEF SInv, SendersAreCurrent
  <2>6. AnswerIsCurrent'
    <3> SUFFICES ASSUME resolver # None, resolver.owner \notin {None, Pending}, ~Obsolete(resolver)
                 PROVE  Announced(0, resolver.owner)'
      BY DEF AnswerIsCurrent, Obsolete
    <3>1. PICK name : name = resolver.owner OBVIOUS
    <3>2. Announced(0, name) BY <1>5, <3>1 DEF SInv, AnswerIsCurrent
    <3>3. Announced(0, name)' BY <2>2, <2>3, <3>2
    <3>4. QED BY <3>1, <3>3 DEF Announced
  <2>7. QED BY <1>2, <1>3, <2>4, <2>5, <2>6 DEF SInv
<1>6. QED BY <1>4, <1>5 DEF SInv, SenderTypes

LEMMA DaemonSenders ==
  ASSUME ConstantsOK, IInv, SInv, DaemonAnswers \/ OwnerMoves \/ ServiceSignals PROVE SInv'
<1>1. owner \in Holders /\ None \in Holders BY DEF SInv, SenderTypes, Holders
<1>2. CASE DaemonAnswers \/ ServiceSignals
  <2>1. PICK kind \in {"reply", "signal"} : Sends(Message(kind, None, owner))
    BY <1>2 DEF DaemonAnswers, ServiceSignals
  <2>2. Message(kind, None, owner) \in Mail /\ Message(kind, None, owner).owner = owner BY <1>1 DEF Message, Mail
  <2>3. UNCHANGED <<bus, tracked, senders, ownerVersion, resolver, owner, missed, budget>>
    BY <1>2 DEF DaemonAnswers, ServiceSignals, shared, loopvars
  <2>4. Newest' = Newest BY <2>3 DEF Newest
  <2>5. QED BY <1>1, <2>1, <2>2, <2>3, <2>4, ToldSenders
<1>3. CASE OwnerMoves
  <2>1. owner' \in Holders /\ UNCHANGED <<bus, tracked, senders, ownerVersion, resolver>>
    BY <1>3 DEF OwnerMoves, Holders, shared, loopvars
  <2>2. Newest' = Newest BY <1>3 DEF OwnerMoves, Newest, IInv, BusTypes
  <2>3. CASE "owners" \in installed
    <3> DEFINE m == Message("changed", owner, owner')
    <3>1. m \in Mail /\ m.owner = owner' /\ m.kind = "changed" /\ m.old = owner BY <1>1, <2>1 DEF Message, Mail
    <3>2. Sends(m) /\ missed' = missed BY <1>3, <2>3 DEF OwnerMoves, SInv, SenderTypes
    <3> HIDE DEF m
    <3>3. QED BY <2>1, <2>2, <3>1, <3>2, ToldSenders
  <2>4. CASE "owners" \notin installed
    <3>1. missed' = TRUE /\ incoming' = incoming BY <1>3, <2>4 DEF OwnerMoves
    <3>2. SenderTypes' BY <2>1, <3>1 DEF SInv, SenderTypes
    <3>3. QuestionsAreTracked' BY <2>1, <2>2 DEF SInv, QuestionsAreTracked
    <3>4. QED BY <3>1, <3>2, <3>3 DEF SInv, DownIsMissed, MailIsInOrder, AnswerIsCurrent, SendersAreCurrent
  <2>5. QED BY <2>3, <2>4
<1>4. QED BY <1>2, <1>3

\* The answer to a question that nothing has overtaken is bound.
LEMMA ResolvedSenders == ASSUME ConstantsOK, IInv, SInv, ResolverEnds PROVE SInv'
<1>1. UNCHANGED <<bus, tracked, ownerVersion, incoming, owner, missed, budget>> /\ resolver' = None
  BY DEF ResolverEnds, shared, daemon
<1>2. CASE Obsolete(resolver) \/ resolver.owner = None
  <2>1. Newest' = Newest /\ senders' = senders BY <1>1, <1>2 DEF Newest, ResolverEnds
  <2>2. QED BY <1>1, <2>1, QuietKeeps
<1>3. CASE ~Obsolete(resolver) /\ resolver.owner # None
  <2>1. senders' = {resolver.owner} /\ resolver # None /\ resolver.owner # Pending BY <1>3 DEF ResolverEnds
  <2>2. ~missed => Announced(0, resolver.owner) BY <1>3, <2>1 DEF SInv, AnswerIsCurrent
  <2>3. SenderTypes' BY <1>1, <1>3, <2>1 DEF SInv, SenderTypes, Holders
  <2>4. SendersAreCurrent' BY <1>1, <2>1, <2>2 DEF SendersAreCurrent, Announced
  <2>5. QED
    BY <1>1, <2>3, <2>4 DEF SInv, DownIsMissed, QuestionsAreTracked, MailIsInOrder, AnswerIsCurrent, Announced
<1>4. QED BY <1>2, <1>3

\* The loop handles what was told, in order.
LEMMA HandledSenders == ASSUME ConstantsOK, IInv, SInv, LoopHandles PROVE SInv'
<1>1. PICK m : m = Head(incoming) OBVIOUS
<1>2. /\ incoming # <<>> /\ bus.up /\ incoming' = Tail(incoming)
      /\ UNCHANGED <<bus, tracked, owner, missed, budget>>
  BY DEF LoopHandles, shared
<1>3. /\ incoming' \in Seq(Mail) /\ Len(incoming) \in Nat \ {0} /\ Len(incoming') = Len(incoming) - 1
      /\ \A i \in 1 .. Len(incoming') : incoming'[i] = incoming[i + 1]
      /\ m = incoming[1] /\ m \in Mail
  BY <1>1, <1>2, FirstMail DEF SInv
<1>4. SenderTypes BY DEF SInv
<1>5. ASSUME NEW n \in Nat \ {0}, NEW name, Announced(n, name) PROVE Announced(n - 1, name)'
  BY <1>2, <1>4, <1>5, TakingKeeps
<1>6. ASSUME NEW name, Announced(0, name), ~(m.kind = "changed" /\ m.old = name) PROVE Announced(0, name)'
  <2>1. Announced(1, name) BY <1>1, <1>2, <1>4, <1>6, OthersAnnounceNothing
  <2>2. Announced(1 - 1, name)' BY <1>5, <2>1
  <2>3. QED BY <2>2
<1>7. MailIsInOrder'
  <2> SUFFICES ASSUME ~missed, NEW i \in 1 .. Len(incoming') PROVE Announced(i, incoming[i].owner)'
    BY <1>2 DEF MailIsInOrder
  <2>1. i + 1 \in 1 .. Len(incoming) /\ incoming'[i] = incoming[i + 1] /\ i + 1 \in Nat \ {0} BY <1>3
  <2>2. PICK name : name = incoming[i + 1].owner OBVIOUS
  <2>3. Announced(i + 1, name) BY <2>1, <2>2 DEF SInv, MailIsInOrder
  <2>4. Announced(i + 1 - 1, name)' BY <1>5, <2>1, <2>3
  <2>5. QED BY <2>1, <2>2, <2>4 DEF Announced
<1>8. ~missed => Announced(0, m.owner)'
  <2> SUFFICES ASSUME ~missed PROVE Announced(0, m.owner)'
    OBVIOUS
  <2>1. 1 \in 1 .. Len(incoming) BY <1>3
  <2>2. PICK name : name = m.owner OBVIOUS
  <2>3. Announced(1, name) BY <1>3, <2>1, <2>2 DEF SInv, MailIsInOrder
  <2>4. Announced(1 - 1, name)' BY <1>5, <2>3
  <2>5. QED BY <2>2, <2>4 DEF Announced
<1>9. Newest' = Newest /\ DownIsMissed' BY <1>2 DEF Newest, SInv, DownIsMissed
<1>10. CASE m.kind = "changed" /\ HandleOwnerChanged(m)
  <2>1. resolver' = resolver /\ (resolver # None => tracked)
    BY <1>10 DEF HandleOwnerChanged, SInv, QuestionsAreTracked
  <2>2. ownerVersion' \in Nat /\ (tracked => ownerVersion' = ownerVersion + 1)
        /\ (~tracked => ownerVersion' = ownerVersion)
    BY <1>4, <1>10 DEF HandleOwnerChanged, SenderTypes
  <2>3. senders' \subseteq (senders \ {m.old}) \cup ({m.owner} \ {None}) BY <1>10 DEF HandleOwnerChanged
  <2>4. SenderTypes' BY <1>2, <1>3, <1>4, <2>1, <2>2, <2>3 DEF SenderTypes, Mail, Holders
  <2>5. resolver # None => resolver.version \in Nat /\ resolver.version < ownerVersion'
    BY <1>4, <2>1, <2>2 DEF SInv, QuestionsAreTracked, SenderTypes
  <2>6. QuestionsAreTracked' BY <1>2, <1>9, <2>1, <2>2, <2>5 DEF SInv, QuestionsAreTracked
  <2>7. AnswerIsCurrent' BY <2>1, <2>2, <2>5 DEF AnswerIsCurrent, Obsolete
  <2>8. SendersAreCurrent' BY <1>2, <1>6, <1>8, <2>3 DEF SInv, SendersAreCurrent
  <2>9. QED BY <1>7, <1>9, <2>4, <2>6, <2>7, <2>8 DEF SInv
<1>11. CASE m.kind # "changed" /\ UNCHANGED <<senders, ownerVersion>>
            /\ (Resolve \/ resolver' = resolver \/ HandleReply(m))
  <2>1. SendersAreCurrent' BY <1>2, <1>6, <1>11 DEF SInv, SendersAreCurrent
  <2>2. CASE resolver' = resolver
    <3>1. SenderTypes' BY <1>2, <1>3, <1>4, <1>11, <2>2 DEF SenderTypes
    <3>2. QuestionsAreTracked' BY <1>2, <1>9, <1>11, <2>2 DEF SInv, QuestionsAreTracked
    <3>3. AnswerIsCurrent' BY <1>2, <1>6, <1>11, <2>2 DEF SInv, AnswerIsCurrent, Obsolete
    <3>4. QED BY <1>7, <1>9, <2>1, <3>1, <3>2, <3>3 DEF SInv
  <2>3. CASE tracked /\ resolver' = [bus |-> bus.id, version |-> ownerVersion, owner |-> Pending]
    <3>1. bus.id \in Nat /\ bus.id = Newest BY <1>2 DEF IInv, BusTypes, ConnectionsAreNumbered
    <3>2. SenderTypes' BY <1>2, <1>3, <1>4, <1>11, <2>3, <3>1 DEF SenderTypes
    <3>3. QuestionsAreTracked' BY <1>2, <1>4, <1>9, <1>11, <2>3, <3>1 DEF QuestionsAreTracked, SenderTypes
    <3>4. AnswerIsCurrent' BY <2>3 DEF AnswerIsCurrent
    <3>5. QED BY <1>7, <1>9, <2>1, <3>2, <3>3, <3>4 DEF SInv
  <2>4. CASE resolver # None /\ resolver' = [resolver EXCEPT !.owner = m.owner]
    <3>1. resolver \in [bus : Nat, version : Nat, owner : Holders \cup {Pending}] BY <1>4, <2>4 DEF SenderTypes
    <3>2. resolver' = [bus |-> resolver.bus, version |-> resolver.version, owner |-> m.owner] BY <2>4, <3>1
    <3>3. resolver' \in [bus : Nat, version : Nat, owner : Holders \cup {Pending}] BY <1>3, <3>1, <3>2 DEF Mail
    <3>4. SenderTypes' BY <1>2, <1>3, <1>4, <1>11, <3>3 DEF SenderTypes
    <3>5. QuestionsAreTracked' BY <1>2, <1>9, <1>11, <2>4, <3>2 DEF SInv, QuestionsAreTracked
    <3>6. AnswerIsCurrent' BY <1>2, <1>8, <3>2 DEF AnswerIsCurrent
    <3>7. QED BY <1>7, <1>9, <2>1, <3>4, <3>5, <3>6 DEF SInv
  <2>5. QED BY <1>11, <2>2, <2>3, <2>4 DEF Resolve, HandleReply
<1>12. QED BY <1>1, <1>10, <1>11 DEF LoopHandles, HandleSignal, HandleReply

LEMMA NextSenders == ASSUME ConstantsOK, IInv, SInv, [Next]_svars PROVE SInv'
<1>1. tracked \in BOOLEAN BY DEF SInv, SenderTypes
<1>2. CASE \E t \in Threads : Start(t) \/ GetBus(t) \/ ReplayEnds(t)
  <2>1. UNCHANGED <<bus, incoming, owner, missed, senders, ownerVersion, tracked, budget>>
    BY <1>2 DEF Start, GetBus, ReplayEnds, shared, loopvars, daemon
  <2>2. resolver' = resolver \/ Resolve BY <1>2 DEF Start, GetBus, ReplayEnds, loopvars
  <2>3. \/ resolver' \in {resolver, None}
        \/ /\ tracked' /\ bus.up
           /\ resolver' = [bus |-> bus.id, version |-> ownerVersion, owner |-> Pending]
    BY <2>1, <2>2 DEF Resolve
  <2>4. Newest' = Newest BY <2>1 DEF Newest
  <2>5. QED BY <1>1, <2>1, <2>3, <2>4, QuietKeeps
<1>3. CASE \E t \in Threads : Call(t) \/ \E rule \in Rules : ReplayRule(t, rule)
  <2>1. budget'.breaks = budget.breaks BY <1>3 DEF Call, ReplayRule, Refused, IInv, BusTypes
  <2>2. Newest' = Newest BY <2>1 DEF Newest
  <2>3. QED BY <1>1, <1>3, <2>2, QuietKeeps DEF Call, ReplayRule, shared, loopvars
<1>4. CASE \E t \in Threads : Connect(t) BY <1>4, ConnectedSenders
<1>5. CASE \E t \in Threads : MarkFailure(t)
  <2>1. UNCHANGED <<incoming, owner, missed, senders, ownerVersion, tracked, resolver, budget>>
    BY <1>5 DEF MarkFailure, shared, loopvars, daemon
  <2>2. bus.up => bus' = bus BY <1>5, MarkFailureKeeps
  <2>3. bus'.up = bus.up
    <3>1. \E id : bus' = Dropped(id) BY <1>5 DEF MarkFailure
    <3>2. QED BY <2>2, <3>1 DEF Dropped, IInv, BusTypes
  <2>4. Newest' = Newest BY <2>1 DEF Newest
  <2>5. QED BY <1>1, <2>1, <2>2, <2>3, <2>4, QuietKeeps
<1>6. CASE Subscribed \/ ResolverFails
  BY <1>1, <1>6, QuietKeeps DEF Subscribed, ResolverFails, Newest, shared, daemon
<1>7. CASE ResolverEnds \/ LoopHandles BY <1>7, ResolvedSenders, HandledSenders
<1>8. CASE DaemonAnswers \/ OwnerMoves \/ ServiceSignals BY <1>8, DaemonSenders
<1>9. CASE BusBreaks BY <1>9, BrokenSenders
<1>10. CASE CooldownEnds
  <2>1. bus'.up = bus.up /\ bus'.id = bus.id BY <1>10 DEF CooldownEnds, IInv, BusTypes
  <2>2. QED BY <1>1, <1>10, <2>1, QuietKeeps DEF CooldownEnds, Newest, shared, loopvars, daemon
<1>11. CASE UNCHANGED svars BY <1>1, <1>11, QuietKeeps DEF svars, Newest
<1>12. QED BY <1>2, <1>3, <1>4, <1>5, <1>6, <1>7, <1>8, <1>9, <1>10, <1>11 DEF Next

\* A name is bound to the service only if the service has it or its loss is still
\* to be handled, for any names, moves, reconnects and late answers
\* (_resolve_sender, _handle_name_owner_changed, _replay_subscriptions).
THEOREM BoundToTheirOwner == ASSUME ConstantsOK PROVE Spec => []BindingsAreCurrent
<1>1. Init => IInv /\ SInv BY InitIInv, InitSInv
<1>2. IInv /\ SInv /\ [Next]_svars => (IInv /\ SInv)' BY NextKeeps, NextSenders
<1>3. SInv => BindingsAreCurrent BY DEF SInv, SendersAreCurrent, Announced, BindingsAreCurrent
<1>4. QED BY <1>1, <1>2, <1>3, PTL DEF Spec

=============================================================================
