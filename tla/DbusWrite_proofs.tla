--------------------------- MODULE DbusWrite_proofs ---------------------------
(***************************************************************************)
(* Theorems about DbusWrite, for any callers, writes and failures of the   *)
(* native connection.                                                      *)
(***************************************************************************)
EXTENDS DbusWrite, TLAPS

\* The bounds are numbers, and None is neither a caller nor a reply.
ConstantsOK ==
  Writes \in Nat /\ Breaks \in Nat /\ None \notin Callers /\ None \notin {"zero", "error"}

Calls ==
  [at : {"idle", "lock", "queued", "sent", "cli", "spawned"},
   write : 0 .. Writes, bus : 0 .. Breaks + 1, reply : {None, "zero", "error"}]

Connections == [bus : 0 .. Breaks + 1, up : BOOLEAN, cooldown : BOOLEAN]

\* A caller between the lock and its release
Inside(c) == caller[c].at \in {"queued", "sent", "cli", "spawned"}

\* Both attempts run under the lock: the caller inside has the newest write.
LockHeld ==
  \A c \in Callers : Inside(c) => setLock = c /\ caller[c].write = issued /\ issued >= 1

\* Between bounds and in the order in which they were issued
Ordered(q, low, high) ==
  \A i \in 1 .. Len(q) :
    /\ low <= q[i].write /\ q[i].write <= high
    /\ \A j \in i .. Len(q) : q[i].write <= q[j].write

\* What reaches the service is never older than an acknowledged write.
InboxOrdered == Ordered(inbox, acknowledged, issued)

InverterBetween == acknowledged <= inverter /\ inverter <= issued

\* A zero answers the newest write, which the inverter holds and nothing on its
\* way to the service would replace by another one.
ReplyTrue ==
  \A c \in Callers :
    caller[c].reply = "zero" => Inside(c) /\ inverter = issued /\ Ordered(inbox, issued, issued)

IInv == TypeOK /\ LockHeld /\ InboxOrdered /\ InverterBetween /\ ReplyTrue

-----------------------------------------------------------------------------
(* The inbox *)

LEMMA AppendOrdered ==
  ASSUME NEW q \in Seq(Message), NEW low \in Nat, NEW high \in Nat, low <= high,
         Ordered(q, low, high), NEW m \in Message, m.write = high
  PROVE  Append(q, m) \in Seq(Message) /\ Ordered(Append(q, m), low, high)
<1> DEFINE s == Append(q, m)
<1>1. s \in Seq(Message) /\ Len(q) \in Nat /\ Len(s) = Len(q) + 1 OBVIOUS
<1>2. \A i \in 1 .. Len(s) : s[i] = IF i <= Len(q) THEN q[i] ELSE m OBVIOUS
<1> HIDE DEF s
<1>3. ASSUME NEW i \in 1 .. Len(s)
      PROVE  /\ low <= s[i].write /\ s[i].write <= high
             /\ \A j \in i .. Len(s) : s[i].write <= s[j].write
  <2>1. low <= s[i].write /\ s[i].write <= high
    BY <1>1, <1>2 DEF Ordered
  <2>2. ASSUME NEW j \in i .. Len(s) PROVE s[i].write <= s[j].write
    <3>1. CASE j <= Len(q) BY <1>1, <1>2, <3>1 DEF Ordered
    <3>2. CASE j > Len(q)
      <4>1. s[j] = m BY <1>1, <1>2, <3>2
      <4>2. QED BY <2>1, <4>1
    <3>3. QED BY <1>1, <3>1, <3>2
  <2>3. QED BY <2>1, <2>2
<1>4. QED BY <1>1, <1>3 DEF Ordered, s

LEMMA TailOrdered ==
  ASSUME NEW q \in Seq(Message), q # <<>>, NEW low \in Nat, NEW high \in Nat, Ordered(q, low, high)
  PROVE  /\ Tail(q) \in Seq(Message) /\ Head(q) \in Message
         /\ low <= Head(q).write /\ Head(q).write <= high
         /\ Ordered(Tail(q), low, high) /\ Ordered(Tail(q), Head(q).write, high)
<1>1. Tail(q) \in Seq(Message) /\ Head(q) = q[1] /\ Len(q) \in Nat \ {0} /\ Len(Tail(q)) = Len(q) - 1
      /\ \A i \in 1 .. Len(q) - 1 : Tail(q)[i] = q[i + 1]
  OBVIOUS
<1>2. 1 \in 1 .. Len(q) BY <1>1
<1>3. q[1] \in Message BY <1>2
<1>4. Head(q) \in Message /\ low <= Head(q).write /\ Head(q).write <= high
  BY <1>1, <1>2, <1>3 DEF Ordered
<1>5. ASSUME NEW i \in 1 .. Len(Tail(q))
      PROVE  /\ low <= Tail(q)[i].write /\ Tail(q)[i].write <= high /\ Head(q).write <= Tail(q)[i].write
             /\ \A j \in i .. Len(Tail(q)) : Tail(q)[i].write <= Tail(q)[j].write
  <2>1. i + 1 \in 1 .. Len(q) /\ Tail(q)[i] = q[i + 1] BY <1>1
  <2>2. low <= Tail(q)[i].write /\ Tail(q)[i].write <= high BY <2>1 DEF Ordered
  <2>3. i + 1 \in 1 .. Len(q) /\ Head(q).write <= Tail(q)[i].write
    BY <1>1, <1>2, <2>1 DEF Ordered
  <2>4. ASSUME NEW j \in i .. Len(Tail(q)) PROVE Tail(q)[i].write <= Tail(q)[j].write
    <3>1. j + 1 \in i + 1 .. Len(q) /\ Tail(q)[j] = q[j + 1] BY <1>1
    <3>2. QED BY <2>1, <3>1 DEF Ordered
  <2>5. QED BY <2>2, <2>3, <2>4
<1>6. Ordered(Tail(q), low, high) /\ Ordered(Tail(q), Head(q).write, high) BY <1>5 DEF Ordered
<1>7. QED BY <1>1, <1>4, <1>6

\* From a higher bound on
LEMMA NarrowOrdered ==
  ASSUME ConstantsOK, NEW q \in Seq(Message), NEW low \in Nat, NEW high \in Nat, NEW wide \in Nat,
         high <= wide, Ordered(q, low, high)
  PROVE  Ordered(q, low, wide)
<1>1. \A i \in 1 .. Len(q) : q[i] \in Message OBVIOUS
<1>2. \A i \in 1 .. Len(q) : q[i].write \in Nat BY <1>1 DEF Message, ConstantsOK
<1>3. QED BY <1>2 DEF Ordered

-----------------------------------------------------------------------------
(* The connection *)

LEMMA ConnectionTypes ==
  ASSUME ConstantsOK, NEW k \in Connections, NEW bus \in 0 .. Breaks + 1
  PROVE  Buses(k) \subseteq Connections /\ Failed(k, bus) \in Connections /\ Unanswered(k, bus) \in Connections
<1>1. \A v \in BOOLEAN : [k EXCEPT !.up = v] \in Connections /\ [k EXCEPT !.cooldown = v] \in Connections
  BY DEF Connections
<1>2. k.bus <= Breaks => [bus |-> k.bus + 1, up |-> TRUE, cooldown |-> FALSE] \in Connections
  BY DEF Connections, ConstantsOK
<1>3. Buses(k) \subseteq Connections BY <1>1, <1>2 DEF Buses
<1>4. [k EXCEPT !.up = FALSE, !.cooldown = TRUE] \in Connections BY DEF Connections
<1>5. QED BY <1>3, <1>4 DEF Failed, Unanswered

-----------------------------------------------------------------------------
(* The steps *)

\* The types the steps below need, with the caller's and the connection's records
\* by their names
LEMMA Types ==
  ASSUME ConstantsOK, IInv
  PROVE  /\ caller \in [Callers -> Calls] /\ conn \in Connections
         /\ issued \in Nat /\ inverter \in Nat /\ acknowledged \in Nat /\ Writes \in Nat
         /\ issued <= Writes /\ inverter <= Writes /\ acknowledged <= issued
         /\ inbox \in Seq(Message)
<1>1. caller \in [Callers -> Calls] BY DEF IInv, TypeOK, Calls
<1>2. conn \in Connections BY DEF IInv, TypeOK, Connections
<1>3. QED BY <1>1, <1>2 DEF IInv, TypeOK, InverterBetween, ConstantsOK

\* The newest write is sent: the inbox stays in order, and what it was behind an
\* answer it still is.
LEMMA InboxGrows ==
  ASSUME ConstantsOK, IInv, NEW m \in Message, m.write = issued,
         inbox' = Append(inbox, m), UNCHANGED <<issued, acknowledged>>
  PROVE  /\ inbox' \in Seq(Message) /\ InboxOrdered'
         /\ Ordered(inbox, issued, issued) => Ordered(inbox', issued', issued')
<1>1. inbox \in Seq(Message) /\ issued \in Nat /\ acknowledged \in Nat /\ acknowledged <= issued /\ issued <= issued
  BY Types
<1>2. Ordered(inbox, acknowledged, issued) BY DEF IInv, InboxOrdered
<1>3. Append(inbox, m) \in Seq(Message) /\ Ordered(Append(inbox, m), acknowledged, issued)
  BY <1>1, <1>2, AppendOrdered
<1>4. Ordered(inbox, issued, issued) => Ordered(Append(inbox, m), issued, issued)
  BY <1>1, AppendOrdered
<1>5. QED BY <1>3, <1>4 DEF InboxOrdered


LEMMA InitIInv == ASSUME ConstantsOK, Init PROVE IInv
<1> USE DEF Init, ConstantsOK
<1>1. caller \in [Callers -> Calls] BY DEF Idle, Calls
<1>2. conn \in Connections BY DEF Connections
<1>3. TypeOK BY <1>1, <1>2 DEF TypeOK, Calls, Connections
<1>4. LockHeld /\ ReplyTrue BY DEF LockHeld, ReplyTrue, Inside, Idle
<1>5. InboxOrdered /\ InverterBetween BY DEF InboxOrdered, InverterBetween, Ordered
<1>6. QED BY <1>3, <1>4, <1>5 DEF IInv

LEMMA RequestKeeps == ASSUME ConstantsOK, IInv, NEW c \in Callers, Request(c) PROVE IInv'
<1>1. caller \in [Callers -> Calls] BY Types
<1>2. /\ caller' = [caller EXCEPT ![c].at = "lock"]
      /\ UNCHANGED <<setLock, issued, conn, queued, inbox, inverter, acknowledged>>
  BY DEF Request
<1>3. caller' \in [Callers -> Calls] BY <1>1, <1>2 DEF Calls
<1>4. \A d \in Callers : (Inside(d)' <=> Inside(d)) /\ caller'[d].write = caller[d].write /\ caller'[d].reply = caller[d].reply
  BY <1>1, <1>2 DEF Request, Inside, Calls
<1>5. TypeOK' BY <1>2, <1>3 DEF IInv, TypeOK, Calls
<1>6. LockHeld' BY <1>2, <1>4 DEF IInv, LockHeld
<1>7. InboxOrdered' /\ InverterBetween' BY <1>2 DEF IInv, InboxOrdered, InverterBetween
<1>8. ReplyTrue' BY <1>2, <1>4 DEF IInv, ReplyTrue
<1>9. QED BY <1>5, <1>6, <1>7, <1>8 DEF IInv

LEMMA EnterKeeps == ASSUME ConstantsOK, IInv, NEW c \in Callers, Enter(c) PROVE IInv'
<1>1. PICK k \in Buses(conn) :
        /\ conn' = k
        /\ caller' = [caller EXCEPT ![c] =
             [at |-> IF k.up THEN "queued" ELSE "cli", write |-> issued + 1, bus |-> k.bus, reply |-> None]]
        /\ queued' = IF k.up THEN queued \cup {[write |-> issued + 1, bus |-> k.bus, from |-> c]} ELSE queued
  BY DEF Enter
<1>2. /\ setLock = None /\ setLock' = c /\ issued < Writes /\ issued' = issued + 1
      /\ UNCHANGED <<inbox, inverter, acknowledged>>
  BY DEF Enter, MayEnter
<1>3. conn \in Connections /\ 0 \in 0 .. Breaks + 1 /\ caller \in [Callers -> Calls]
      /\ issued \in Nat /\ inverter \in Nat /\ inverter <= issued /\ Writes \in Nat
  BY Types DEF ConstantsOK, IInv, InverterBetween
<1>4. k \in Connections /\ k.bus \in 0 .. Breaks + 1 BY <1>3, ConnectionTypes DEF Connections
<1>5. issued + 1 \in 1 .. Writes BY <1>2, <1>3
<1>6. \A d \in Callers : ~Inside(d) /\ caller[d].reply # "zero"
  BY <1>2 DEF IInv, LockHeld, ReplyTrue, ConstantsOK
<1>7. caller' \in [Callers -> Calls] BY <1>1, <1>3, <1>4, <1>5 DEF Calls
<1>8. queued' \subseteq Message BY <1>1, <1>4, <1>5 DEF IInv, TypeOK, Message
<1>9. TypeOK'
  <2>1. issued' \in 0 .. Writes /\ setLock' \in Callers \cup {None} BY <1>2, <1>5
  <2>2. conn' \in Connections BY <1>1, <1>4
  <2>3. QED BY <1>2, <1>7, <1>8, <2>1, <2>2 DEF IInv, TypeOK, Calls, Connections
<1>10. LockHeld'
  <2>1. \A d \in Callers : Inside(d)' => d = c BY <1>1, <1>3, <1>6 DEF Inside
  <2>2. caller'[c].write = issued' BY <1>1, <1>2, <1>3
  <2>3. QED BY <1>2, <1>3, <2>1, <2>2 DEF LockHeld
<1>11. InboxOrdered'
  BY <1>2, <1>3, NarrowOrdered, Types DEF IInv, InboxOrdered
<1>12. InverterBetween' BY <1>2, <1>3 DEF IInv, InverterBetween
<1>13. ReplyTrue'
  <2>1. \A d \in Callers : caller'[d].reply # "zero" BY <1>1, <1>3, <1>6 DEF ConstantsOK
  <2>2. QED BY <2>1 DEF ReplyTrue
<1>14. QED BY <1>9, <1>10, <1>11, <1>12, <1>13 DEF IInv

\* The caller leaves the lock, with an acknowledged write or with none.
LEMMA LeaveKeeps ==
  ASSUME ConstantsOK, IInv, NEW c \in Callers, Inside(c),
         (Accept(c) /\ caller[c].reply = "zero") \/ Refuse(c),
         UNCHANGED <<issued, conn, queued, inbox, inverter>>
  PROVE  IInv'
<1>1. caller \in [Callers -> Calls] BY Types
<1>2. caller' = [caller EXCEPT ![c] = Idle] /\ setLock' = None
  BY DEF Accept, Refuse, Leave
<1>3. \/ acknowledged' = acknowledged
      \/ /\ acknowledged' = issued /\ inverter = issued /\ Ordered(inbox, issued, issued)
  BY DEF Accept, Refuse, IInv, LockHeld, ReplyTrue
<1>4. \A d \in Callers : ~Inside(d)'
  BY <1>1, <1>2 DEF IInv, LockHeld, Inside, Idle
<1>5. \A d \in Callers : caller'[d].reply # "zero"
  BY <1>1, <1>2 DEF IInv, LockHeld, ReplyTrue, Idle, ConstantsOK
<1>6. caller' \in [Callers -> Calls] BY <1>1, <1>2 DEF Calls, Idle, ConstantsOK
<1>7. TypeOK' BY <1>2, <1>3, <1>6 DEF IInv, TypeOK, Calls
<1>8. LockHeld' /\ ReplyTrue' BY <1>4, <1>5 DEF LockHeld, ReplyTrue
<1>9. InboxOrdered' BY <1>3 DEF IInv, InboxOrdered
<1>10. InverterBetween' BY <1>3 DEF IInv, InverterBetween, TypeOK
<1>11. QED BY <1>7, <1>8, <1>9, <1>10 DEF IInv

\* The caller goes on to its fallback, or the fallback is sent.
LEMMA MoveKeeps ==
  ASSUME ConstantsOK, IInv, NEW c \in Callers, Inside(c), NEW at \in {"cli", "spawned"},
         \/ caller' = [caller EXCEPT ![c].at = at]
         \/ caller' = [caller EXCEPT ![c].at = at, ![c].reply = None],
         conn' \in Connections,
         \/ inbox' = inbox
         \/ \E m \in Message : m.write = issued /\ inbox' = Append(inbox, m),
         UNCHANGED <<setLock, issued, queued, inverter, acknowledged>>
  PROVE  IInv'
<1>1. caller \in [Callers -> Calls] BY Types
<1>2. caller' \in [Callers -> Calls] BY <1>1 DEF Calls
<1>3. \A d \in Callers :
        /\ Inside(d)' <=> Inside(d)
        /\ caller'[d].write = caller[d].write
        /\ caller'[d].reply = "zero" => caller[d].reply = "zero"
  <2> SUFFICES ASSUME NEW d \in Callers
               PROVE  /\ Inside(d)' <=> Inside(d)
                      /\ caller'[d].write = caller[d].write
                      /\ caller'[d].reply = "zero" => caller[d].reply = "zero"
    OBVIOUS
  <2>1. CASE caller' = [caller EXCEPT ![c].at = at] BY <1>1, <2>1 DEF Inside, Calls
  <2>2. CASE caller' = [caller EXCEPT ![c].at = at, ![c].reply = None]
    BY <1>1, <2>2 DEF Inside, Calls, ConstantsOK
  <2>3. QED BY <2>1, <2>2
<1>4. inbox' \in Seq(Message) /\ InboxOrdered' /\ (Ordered(inbox, issued, issued) => Ordered(inbox', issued', issued'))
  <2>1. CASE inbox' = inbox BY <2>1, Types DEF IInv, InboxOrdered
  <2>2. CASE \E m \in Message : m.write = issued /\ inbox' = Append(inbox, m) BY <2>2, InboxGrows
  <2>3. QED BY <2>1, <2>2
<1>5. TypeOK' BY <1>2, <1>4 DEF IInv, TypeOK, Calls, Connections
<1>6. LockHeld' BY <1>3 DEF IInv, LockHeld
<1>7. InverterBetween' BY DEF IInv, InverterBetween
<1>8. ReplyTrue' BY <1>3, <1>4 DEF IInv, ReplyTrue
<1>9. QED BY <1>4, <1>5, <1>6, <1>7, <1>8 DEF IInv

LEMMA TimesOutKeeps == ASSUME ConstantsOK, IInv, NEW c \in Callers, TimesOut(c) PROVE IInv'
<1>1. caller \in [Callers -> Calls] /\ conn \in Connections BY Types
<1>2. conn' \in Connections BY <1>1, ConnectionTypes DEF TimesOut, Calls
<1>3. QED BY <1>2, MoveKeeps DEF TimesOut, Inside

LEMMA NativeReplyKeeps == ASSUME ConstantsOK, IInv, NEW c \in Callers, NativeReply(c) PROVE IInv'
<1>1. conn' \in Connections /\ Inside(c) BY Types DEF NativeReply, Inside
<1>2. CASE caller[c].reply = "zero" BY <1>1, <1>2, LeaveKeeps DEF NativeReply
<1>3. CASE caller[c].reply # "zero" BY <1>1, <1>3, MoveKeeps DEF NativeReply
<1>4. QED BY <1>2, <1>3

LEMMA SpawnKeeps == ASSUME ConstantsOK, IInv, NEW c \in Callers, Spawn(c) PROVE IInv'
<1>1. conn' \in Connections /\ Inside(c) BY Types DEF Spawn, Inside
<1>2. Sent(c, 0) \in Message /\ Sent(c, 0).write = issued
  BY <1>1, Types DEF Sent, Message, Calls, IInv, LockHeld, ConstantsOK
<1>3. QED BY <1>1, <1>2, MoveKeeps DEF Spawn

LEMMA CliEndsKeeps == ASSUME ConstantsOK, IInv, NEW c \in Callers, CliReply(c) \/ CliFails(c) PROVE IInv'
BY LeaveKeeps DEF CliReply, CliFails, Inside

\* The loop sends what is still awaited, as the newest write, and nothing else.
LEMMA DispatchKeeps == ASSUME ConstantsOK, IInv, NEW m \in queued, Dispatch(m) PROVE IInv'
<1>1. m \in Message /\ m.from \in Callers /\ m.bus \in 0 .. Breaks + 1 BY DEF IInv, TypeOK, Message
<1>2. caller \in [Callers -> Calls] /\ conn \in Connections BY Types
<1>3. conn' \in Connections BY <1>1, <1>2, ConnectionTypes DEF Dispatch
<1>4. queued' \subseteq Message /\ UNCHANGED <<setLock, issued, inverter, acknowledged>>
  BY DEF Dispatch, IInv, TypeOK
<1>5. Awaited(m) => Inside(m.from) /\ m.write = issued
  BY <1>1 DEF Awaited, Inside, IInv, LockHeld
<1>6. inbox' = inbox \/ (m.write = issued /\ inbox' = Append(inbox, m))
  BY <1>5 DEF Dispatch, Expired
<1>7. inbox' \in Seq(Message) /\ InboxOrdered' /\ (Ordered(inbox, issued, issued) => Ordered(inbox', issued', issued'))
  <2>1. CASE inbox' = inbox BY <1>4, <2>1, Types DEF IInv, InboxOrdered
  <2>2. CASE m.write = issued /\ inbox' = Append(inbox, m) BY <1>1, <1>4, <2>2, InboxGrows
  <2>3. QED BY <1>6, <2>1, <2>2
<1>8. \/ caller' = caller
      \/ Awaited(m) /\ \E at \in {"sent", "cli"} : caller' = [caller EXCEPT ![m.from].at = at]
  BY DEF Dispatch
<1>9. caller' \in [Callers -> Calls] BY <1>1, <1>2, <1>8 DEF Calls
<1>10. \A d \in Callers :
        /\ Inside(d)' <=> Inside(d)
        /\ caller'[d].write = caller[d].write
        /\ caller'[d].reply = caller[d].reply
  BY <1>1, <1>2, <1>5, <1>8 DEF Inside, Calls
<1>11. TypeOK' BY <1>3, <1>4, <1>7, <1>9 DEF IInv, TypeOK, Calls, Connections
<1>12. LockHeld' BY <1>4, <1>10 DEF IInv, LockHeld
<1>13. InverterBetween' BY <1>4 DEF IInv, InverterBetween
<1>14. ReplyTrue' BY <1>4, <1>7, <1>10 DEF IInv, ReplyTrue
<1>15. QED BY <1>7, <1>11, <1>12, <1>13, <1>14 DEF IInv

\* The oldest message is handled: it is not older than what was acknowledged, and
\* what follows it is not older than it.
LEMMA ServiceHandlesKeeps == ASSUME ConstantsOK, IInv, ServiceHandles PROVE IInv'
<1> DEFINE m == Head(inbox)
<1>1. PICK answer \in {"zero", "error"} :
        /\ inverter' = IF answer = "zero" THEN m.write ELSE inverter
        /\ \/ caller' = caller
           \/ /\ caller[m.from].write = m.write /\ caller[m.from].at \in {"spawned", "sent"}
              /\ caller' = [caller EXCEPT ![m.from].reply = answer]
  BY DEF ServiceHandles
<1>2. inbox # <<>> /\ inbox' = Tail(inbox) /\ UNCHANGED <<setLock, issued, conn, queued, acknowledged>>
  BY DEF ServiceHandles
<1>3. /\ caller \in [Callers -> Calls] /\ issued \in Nat /\ acknowledged \in Nat /\ inverter \in Nat
      /\ issued <= Writes /\ inverter <= Writes /\ Writes \in Nat /\ inbox \in Seq(Message)
  BY Types
<1>4. /\ inbox' \in Seq(Message) /\ m \in Message
      /\ acknowledged <= m.write /\ m.write <= issued
      /\ Ordered(inbox', acknowledged, issued) /\ Ordered(inbox', m.write, issued)
      /\ Ordered(inbox, issued, issued) => m.write = issued /\ Ordered(inbox', issued, issued)
  <2>1. Ordered(inbox, acknowledged, issued) BY DEF IInv, InboxOrdered
  <2>2. /\ inbox' \in Seq(Message) /\ m \in Message
        /\ acknowledged <= m.write /\ m.write <= issued
        /\ Ordered(inbox', acknowledged, issued) /\ Ordered(inbox', m.write, issued)
    BY <1>2, <1>3, <2>1, TailOrdered
  <2>3. ASSUME Ordered(inbox, issued, issued) PROVE m.write = issued /\ Ordered(inbox', issued, issued)
    <3>1. issued <= m.write /\ m.write <= issued /\ Ordered(inbox', issued, issued)
      BY <1>2, <1>3, <2>3, TailOrdered
    <3>2. m.write \in Nat BY <2>2 DEF Message, ConstantsOK
    <3>3. QED BY <1>3, <3>1, <3>2
  <2>4. QED BY <2>2, <2>3
<1> HIDE DEF m
<1>5. m.write \in Nat /\ m.from \in Callers BY <1>4 DEF Message, ConstantsOK
<1>6. caller' \in [Callers -> Calls]
  <2>1. CASE caller' = caller BY <1>3, <2>1
  <2>2. CASE caller' = [caller EXCEPT ![m.from].reply = answer] BY <1>3, <1>5, <2>2 DEF Calls
  <2>3. QED BY <1>1, <2>1, <2>2
<1>7. \A d \in Callers : (Inside(d)' <=> Inside(d)) /\ caller'[d].write = caller[d].write
  <2>1. CASE caller' = caller BY <2>1 DEF Inside
  <2>2. CASE /\ caller[m.from].write = m.write /\ caller[m.from].at \in {"spawned", "sent"}
             /\ caller' = [caller EXCEPT ![m.from].reply = answer]
    BY <1>3, <1>5, <2>2 DEF Inside, Calls
  <2>3. QED BY <1>1, <2>1, <2>2
<1>8. InverterBetween' BY <1>1, <1>2, <1>3, <1>4, <1>5 DEF IInv, InverterBetween
<1>9. TypeOK'
  <2>1. inverter' \in 0 .. Writes BY <1>1, <1>3, <1>4, <1>5
  <2>2. QED BY <1>2, <1>4, <1>6, <2>1 DEF IInv, TypeOK, Calls
<1>10. LockHeld' BY <1>2, <1>7 DEF IInv, LockHeld
<1>11. InboxOrdered' BY <1>2, <1>4 DEF InboxOrdered
<1>12. ReplyTrue'
  <2> SUFFICES ASSUME NEW d \in Callers, caller'[d].reply = "zero"
               PROVE  Inside(d)' /\ inverter' = issued' /\ Ordered(inbox', issued', issued')
    BY DEF ReplyTrue
  <2>1. CASE caller[d].reply = "zero"
    BY <1>1, <1>2, <1>4, <1>7, <2>1 DEF IInv, ReplyTrue
  <2>2. CASE caller[d].reply # "zero"
    <3>1. d = m.from /\ answer = "zero" /\ caller[d].write = m.write /\ caller[d].at \in {"spawned", "sent"}
      BY <1>1, <1>3, <1>5, <2>2 DEF Calls
    <3>2. Inside(d) /\ m.write = issued BY <3>1 DEF IInv, LockHeld, Inside
    <3>3. QED BY <1>1, <1>2, <1>4, <1>7, <3>1, <3>2
  <2>3. QED BY <2>1, <2>2
<1>13. QED BY <1>8, <1>9, <1>10, <1>11, <1>12 DEF IInv

LEMMA ConnectionKeeps ==
  ASSUME ConstantsOK, IInv, ConnectionBreaks \/ CooldownEnds \/ UNCHANGED wvars PROVE IInv'
<1>1. UNCHANGED <<setLock, caller, issued, queued, inbox, inverter, acknowledged>>
  BY DEF ConnectionBreaks, CooldownEnds, wvars
<1>2. conn \in Connections BY Types
<1>3. conn' \in Connections BY <1>2 DEF ConnectionBreaks, CooldownEnds, wvars, Connections
<1>4. TypeOK' BY <1>1, <1>3 DEF IInv, TypeOK, Connections
<1>5. LockHeld' BY <1>1 DEF IInv, LockHeld, Inside
<1>6. InboxOrdered' /\ InverterBetween' BY <1>1 DEF IInv, InboxOrdered, InverterBetween
<1>7. ReplyTrue' BY <1>1 DEF IInv, ReplyTrue, Inside
<1>8. QED BY <1>4, <1>5, <1>6, <1>7 DEF IInv

\* Once a write is acknowledged the inverter holds it or a later one, for any
\* callers, timeouts and broken connections (_dbus_set, dbus_native.py).
THEOREM WritesStayOrdered == ASSUME ConstantsOK PROVE Spec => []NeverOlderThanAcknowledged
<1>1. Init => IInv BY InitIInv
<1>2. IInv /\ [Next]_wvars => IInv'
  <2> SUFFICES ASSUME IInv, [Next]_wvars PROVE IInv'
    OBVIOUS
  <2>1. CASE \E c \in Callers : Request(c) BY <2>1, RequestKeeps
  <2>2. CASE \E c \in Callers : Enter(c) BY <2>2, EnterKeeps
  <2>3. CASE \E c \in Callers : TimesOut(c) BY <2>3, TimesOutKeeps
  <2>4. CASE \E c \in Callers : NativeReply(c) BY <2>4, NativeReplyKeeps
  <2>5. CASE \E c \in Callers : Spawn(c) BY <2>5, SpawnKeeps
  <2>6. CASE \E c \in Callers : CliReply(c) \/ CliFails(c) BY <2>6, CliEndsKeeps
  <2>7. CASE \E m \in queued : Dispatch(m) BY <2>7, DispatchKeeps
  <2>8. CASE ServiceHandles BY <2>8, ServiceHandlesKeeps
  <2>9. CASE ConnectionBreaks \/ CooldownEnds \/ UNCHANGED wvars BY <2>9, ConnectionKeeps
  <2>10. QED BY <2>1, <2>2, <2>3, <2>4, <2>5, <2>6, <2>7, <2>8, <2>9 DEF Next
<1>3. IInv => NeverOlderThanAcknowledged
  BY DEF IInv, TypeOK, InverterBetween, NeverOlderThanAcknowledged
<1>4. QED BY <1>1, <1>2, <1>3, PTL DEF Spec

=============================================================================
