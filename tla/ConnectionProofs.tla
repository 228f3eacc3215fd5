---------------------------- MODULE ConnectionProofs ----------------------------
(***************************************************************************)
(* Proofs about a device connection on the server, for every number of     *)
(* turns and messages and every capacity of its queues.                    *)
(*                                                                         *)
(* The writer (ConnectionWriter): its types, and how late a waiting        *)
(* heartbeat can be at each of its selects (WriterInv).                    *)
(*                                                                         *)
(* The reader (ServerConnection): that the handler sees gap-free           *)
(* beginnings of turns is not inductive. ReaderInv says what is in flight  *)
(* between the socket and the handler while the connection lives: it is    *)
(* sorted (Sorted); of a turn that lost nothing it is all that was sent    *)
(* and not delivered (Lossless); a turn that lost something is the one the *)
(* receiver discards, or has nothing in flight any more (Charged).         *)
(*                                                                         *)
(* Both hold of the composition (Connection), where either pump can end    *)
(* the other.                                                              *)
(***************************************************************************)
EXTENDS Connection, TLAPS

-----------------------------------------------------------------------------
(* The writer.                                                             *)

Flags == tick \in BOOLEAN /\ cancelled \in BOOLEAN

Counts ==
  /\ pc \in {"control", "heartbeat", "any", "gone"}
  /\ send \in 0..SendCap /\ control \in 0..ControlCap /\ overdue \in 0..Counted

\* How late a waiting tick can be at each select: the third one is only
\* reached without a tick, so one that waits there has just come.
LatenessByPlace ==
  /\ tick = FALSE => overdue = 0
  /\ pc = "any" => overdue = 0
  /\ pc = "control" => overdue <= 1
  /\ overdue <= 2

WriterInv == Flags /\ Counts /\ LatenessByPlace

\* The writer starts with empty queues and no tick.
LEMMA InitWriterInv == WriterInit => WriterInv
<1>1. WriterInit => Flags
  BY DEF WriterInit, Flags
<1>2. WriterInit => Counts
  BY WriterAssumption DEF WriterAssumption, WriterInit, Counts, Counted
<1>3. WriterInit => LatenessByPlace
  BY DEF WriterInit, LatenessByPlace
<1> QED
  BY <1>1, <1>2, <1>3 DEF WriterInv

LEMMA NextFlags == WriterInv /\ [WriterNext]_writer => Flags'
  BY DEF WriterInv, Flags, WriterNext, writer, WritePump, ControlFirst, HeartbeatNext, AnyReady,
         WriteControl, WriteSend, WritePing, Write, Counted, Enqueue, PeerPing, Tick, Cancel

\* Each queue is tested before it grows and before it shrinks.
LEMMA NextCounts == WriterInv /\ [WriterNext]_writer => Counts'
  BY WriterAssumption
     DEF WriterAssumption, WriterInv, Counts, WriterNext, writer, WritePump, ControlFirst, HeartbeatNext,
         AnyReady, WriteControl, WriteSend, WritePing, Write, Counted, Enqueue, PeerPing, Tick, Cancel

\* A write at the third select is the first one a tick waits for; the next
\* select allows a second, and the pump then looks at the ticker.
LEMMA NextLateness == WriterInv /\ [WriterNext]_writer => LatenessByPlace'
<1> SUFFICES ASSUME Flags, Counts, LatenessByPlace, [WriterNext]_writer
             PROVE  LatenessByPlace'
  BY DEF WriterInv
<1> USE DEF Flags, Counts, Counted, LatenessByPlace
<1>1. CASE ControlFirst
  BY <1>1 DEF ControlFirst, WriteControl, Write, Counted
<1>2. CASE HeartbeatNext
  BY <1>2 DEF HeartbeatNext, WritePing
<1>3. CASE AnyReady
  BY <1>3 DEF AnyReady, WriteControl, WriteSend, WritePing, Write, Counted
<1>4. CASE Enqueue \/ PeerPing \/ Cancel
  BY <1>4 DEF Enqueue, PeerPing, Cancel
<1>5. CASE Tick
  BY <1>5 DEF Tick
<1>6. CASE UNCHANGED writer
  BY <1>6 DEF writer
<1> QED
  BY <1>1, <1>2, <1>3, <1>4, <1>5, <1>6 DEF WriterNext, WritePump

LEMMA NextWriterInv == WriterInv /\ [WriterNext]_writer => WriterInv'
  BY NextFlags, NextCounts, NextLateness DEF WriterInv

\* The inductive invariant holds in every behaviour.
LEMMA SpecWriterInv == WriterSpec => []WriterInv
<1> QED
  BY InitWriterInv, NextWriterInv, PTL DEF WriterSpec

LEMMA WriterMeaning == WriterInv => WriterTypeOK /\ HeartbeatOnTime
  BY DEF WriterInv, Flags, Counts, LatenessByPlace, WriterTypeOK, Places, Counted, HeartbeatOnTime

\* Types: neither queue ever exceeds its capacity (the ping handler ends the
\* connection instead).
THEOREM WriterTypes == WriterSpec => []WriterTypeOK
  BY WriterMeaning, SpecWriterInv, PTL

-----------------------------------------------------------------------------
(* The reader: types.                                                      *)

LEMMA InitTypes == Init => TypeOK
  BY ConnectionAssumption DEF ConnectionAssumption, Init, TypeOK, Message, NoMessage, Turns

LEMMA MessageParts ==
  /\ NoMessage \in Message
  /\ \A m \in Message : m.turn \in 0..MaxTurn /\ m.n \in 0..MaxMsg /\ m = [turn |-> m.turn, n |-> m.n]
  BY ConnectionAssumption DEF ConnectionAssumption, Message, NoMessage

\* What is taken off a queue, and what stays in it.
LEMMA HeadAndTail ==
  ASSUME NEW S, NEW s \in Seq(S), s # <<>>
  PROVE  Head(s) \in S /\ Tail(s) \in Seq(S) /\ Len(s) \in Nat /\ Len(Tail(s)) = Len(s) - 1
  OBVIOUS

\* What readPump takes off the socket goes into the queue, stays with the pump
\* or is discarded.
LEMMA ReadTypes == ASSUME NEW m \in Message, TypeOK, ReadMessage(m) PROVE TypeOK'
<1> USE ConnectionAssumption DEF ConnectionAssumption
<1>1. client' \in Message
  BY DEF ReadMessage, TypeOK
<1>2. pump' \in [at : {"read", "fence", "signal"}, msg : Message]
  <2>1. pump' \in {pump, [at |-> "fence", msg |-> m], [at |-> "signal", msg |-> m]}
    BY DEF ReadMessage, PumpAt
  <2> QED
    BY <2>1 DEF TypeOK
<1>3. receiveQueue' \in Seq(Message) /\ Len(receiveQueue') <= QueueCap
  <2>1. receiveQueue' = receiveQueue \/ (~Full /\ receiveQueue' = Append(receiveQueue, m))
    BY DEF ReadMessage
  <2> QED
    BY <2>1 DEF TypeOK, Full
<1> QED
  BY <1>1, <1>2, <1>3 DEF ReadMessage, TypeOK, history

LEMMA PumpTypes ==
  ASSUME TypeOK, PassFence \/ SignalTurnCongestion \/ ReadFails PROVE TypeOK'
<1> USE ConnectionAssumption, MessageParts DEF ConnectionAssumption
<1>1. CASE PassFence
  <2>1. receiveQueue' \in Seq(Message) /\ Len(receiveQueue') <= QueueCap
    BY <1>1 DEF PassFence, TypeOK, Full
  <2> QED
    BY <1>1, <2>1 DEF PassFence, TypeOK, AtRead, PumpAt, history
<1>2. CASE SignalTurnCongestion
  <2>1. Identified(pump.msg) => pump.msg.turn \in Turns
    BY DEF TypeOK, Identified, Turns
  <2> QED
    BY <1>2, <2>1 DEF SignalTurnCongestion, TypeOK, AtRead, PumpAt, Signalled, Turns
<1>3. CASE ReadFails
  BY <1>3 DEF ReadFails, TypeOK, history
<1> QED
  BY <1>1, <1>2, <1>3

LEMMA ReceiveTypes == ASSUME TypeOK, Receive PROVE TypeOK'
<1> USE ConnectionAssumption, MessageParts DEF ConnectionAssumption
<1>1. CASE CallReceive
  BY <1>1 DEF CallReceive, TypeOK, RxAt, Unread
<1>2. CASE TakeCongestion
  BY <1>2 DEF TakeCongestion, TypeOK, RxAt, Unread, Turns
<1>3. CASE NoCongestion
  BY <1>3 DEF NoCongestion, TypeOK, RxAt, Unread
<1>4. CASE TakeMessage
  <2>1. receiveQueue \in Seq(Message) /\ Len(receiveQueue) <= QueueCap /\ receiveQueue # <<>>
    BY <1>4 DEF TakeMessage, TypeOK
  <2>2. /\ Head(receiveQueue) \in Message /\ Tail(receiveQueue) \in Seq(Message)
        /\ Len(receiveQueue) \in Nat /\ Len(Tail(receiveQueue)) = Len(receiveQueue) - 1
    BY <2>1, HeadAndTail
  <2>3. Len(Tail(receiveQueue)) <= QueueCap
    BY <2>1, <2>2
  <2> QED
    BY <1>4, <2>2, <2>3 DEF TakeMessage, TypeOK, RxAt, Unread
<1>5. CASE DiscardCongested
  <2>1. delivered' \in [Turns -> Seq(0..MaxMsg)]
    <3>1. Identified(rx.msg) => rx.msg.turn \in Turns
      BY DEF TypeOK, Identified, Turns
    <3>2. CASE Discards(rx.msg)
      BY <1>5, <3>2 DEF DiscardCongested, TypeOK
    <3>3. CASE ~Discards(rx.msg) /\ ~Identified(rx.msg)
      BY <1>5, <3>3 DEF DiscardCongested, TypeOK
    <3>4. CASE ~Discards(rx.msg) /\ Identified(rx.msg)
      <4>1. Append(delivered[rx.msg.turn], rx.msg.n) \in Seq(0..MaxMsg)
        BY <3>1, <3>4 DEF TypeOK
      <4> QED
        BY <1>5, <3>1, <3>4, <4>1 DEF DiscardCongested, TypeOK
    <3> QED
      BY <3>2, <3>3, <3>4
  <2>2. rx' \in {[at |-> "top", msg |-> NoMessage], [at |-> "out", msg |-> NoMessage]}
    BY <1>5 DEF DiscardCongested, RxAt
  <2>3. congested' \in {congested, 0}
    BY <1>5 DEF DiscardCongested
  <2> QED
    BY <1>5, <2>1, <2>2, <2>3 DEF DiscardCongested, TypeOK, Unread
<1> QED
  BY <1>1, <1>2, <1>3, <1>4, <1>5 DEF Receive

LEMMA NextTypes == TypeOK /\ Next => TypeOK'
  BY ReadTypes, PumpTypes, ReceiveTypes DEF Next, ReadPump

-----------------------------------------------------------------------------
(* The reader: what is in flight between the socket and the handler.       *)

Flying(m) ==
  \/ rx.at = "check" /\ rx.msg = m
  \/ \E i \in DOMAIN receiveQueue : receiveQueue[i] = m
  \/ pump.at # "read" /\ pump.msg = m

\* The order in which the client sends messages that name a turn.
Precedes(a, b) == a.turn < b.turn \/ (a.turn = b.turn /\ a.n < b.n)
InOrder(a, b) == Identified(a) /\ Identified(b) => Precedes(a, b)

QueueSorted ==
  \A i, j \in DOMAIN receiveQueue : i < j => InOrder(receiveQueue[i], receiveQueue[j])
EndsSorted ==
  /\ \A i \in DOMAIN receiveQueue :
       /\ rx.at = "check" => InOrder(rx.msg, receiveQueue[i])
       /\ pump.at # "read" => InOrder(receiveQueue[i], pump.msg)
  /\ rx.at = "check" /\ pump.at # "read" => InOrder(rx.msg, pump.msg)

\* The client is past all that is in flight.
Sent ==
  \A m \in Message : Flying(m) /\ Identified(m) => m = client \/ Precedes(m, client)

Sorted == QueueSorted /\ EndsSorted /\ Sent

\* Of a turn without a loss everything between the last message delivered and
\* the last one sent is in flight.
Waiting(t) ==
  \A m \in Message : Flying(m) /\ m.turn = t =>
    /\ Len(delivered[t]) <= m.n
    /\ \A k \in 0..MaxMsg : Len(delivered[t]) <= k /\ k < m.n => Flying([turn |-> t, n |-> k])
Reached(t) == client.turn = t => Flying(client) \/ Len(delivered[t]) = client.n + 1
Lossless == \A t \in Turns \ dropped : Waiting(t) /\ Reached(t)

\* A turn with a loss is being discarded, or has nothing in flight.
Gone(t) == t < client.turn /\ \A m \in Message : Flying(m) => m.turn # t
Cut == \A t \in dropped : congested = t \/ Gone(t)
Past == \A t \in Turns : t < client.turn => t \in dropped \/ delivered[t] # <<>>
Future == \A t \in Turns : client.turn < t => delivered[t] = <<>>
Accounted ==
  /\ \A t \in dropped : t <= client.turn /\ (t \in noticed \/ congestion = t)
  /\ {congested, saturated, congestion} \subseteq dropped \cup {0}

Charged == Cut /\ Past /\ Future /\ Accounted

ReaderInv ==
  /\ TypeOK
  /\ NoMiddleLost
  /\ noticed \subseteq dropped
  /\ Alive => Sorted /\ Lossless /\ Charged

\* How each step changes what is in flight.
LEMMA ReadFlight ==
  ASSUME TypeOK, NEW m \in Message, ReadMessage(m)
  PROVE  /\ \A x : Flying(x) => Flying(x)'
         /\ \A x : Flying(x)' => Flying(x) \/ x = m
         /\ (m.turn = saturated /\ saturated # 0) \/ Flying(m)'
<1>1. CASE UNCHANGED <<pump, receiveQueue>> /\ m.turn = saturated /\ saturated # 0
  BY <1>1 DEF ReadMessage, Flying
<1>2. CASE pump' \in {[at |-> "fence", msg |-> m], [at |-> "signal", msg |-> m]} /\ UNCHANGED receiveQueue
  BY <1>2 DEF ReadMessage, Flying, TypeOK
<1>3. CASE receiveQueue' = Append(receiveQueue, m) /\ UNCHANGED pump
  <2>1. /\ \A i \in DOMAIN receiveQueue : i \in DOMAIN receiveQueue' /\ receiveQueue'[i] = receiveQueue[i]
        /\ \A i \in DOMAIN receiveQueue' : i \in DOMAIN receiveQueue \/ receiveQueue'[i] = m
        /\ Len(receiveQueue') \in DOMAIN receiveQueue' /\ receiveQueue'[Len(receiveQueue')] = m
    BY <1>3 DEF TypeOK
  <2>2. UNCHANGED <<pump, rx>>
    BY <1>3 DEF ReadMessage
  <2> QED
    BY <2>1, <2>2 DEF Flying
<1> QED
  BY <1>1, <1>2, <1>3 DEF ReadMessage, PumpAt

LEMMA FenceFlight ==
  ASSUME TypeOK, PassFence
  PROVE  \A x : Flying(x) <=> Flying(x)'
<1>1. /\ \A i \in DOMAIN receiveQueue : i \in DOMAIN receiveQueue' /\ receiveQueue'[i] = receiveQueue[i]
      /\ \A i \in DOMAIN receiveQueue' : i \in DOMAIN receiveQueue \/ receiveQueue'[i] = pump.msg
      /\ Len(receiveQueue') \in DOMAIN receiveQueue' /\ receiveQueue'[Len(receiveQueue')] = pump.msg
  BY DEF TypeOK, PassFence
<1>2. pump.at = "fence" /\ pump'.at = "read" /\ UNCHANGED rx
  BY DEF PassFence, AtRead, PumpAt
<1> QED
  BY <1>1, <1>2 DEF Flying

LEMMA SignalFlight ==
  ASSUME TypeOK, SignalTurnCongestion
  PROVE  /\ \A x : Flying(x)' => Flying(x)
         /\ \A x : Flying(x) => Flying(x)' \/ x = pump.msg
         /\ Flying(pump.msg)
  BY DEF SignalTurnCongestion, Flying, AtRead, PumpAt

LEMMA TakeFlight ==
  ASSUME TypeOK, TakeMessage
  PROVE  \A x : Flying(x) <=> Flying(x)'
<1>1. /\ \A i \in DOMAIN receiveQueue' : i + 1 \in DOMAIN receiveQueue /\ receiveQueue'[i] = receiveQueue[i + 1]
      /\ \A i \in DOMAIN receiveQueue :
           i = 1 \/ (i - 1 \in DOMAIN receiveQueue' /\ receiveQueue'[i - 1] = receiveQueue[i])
      /\ 1 \in DOMAIN receiveQueue /\ receiveQueue[1] = Head(receiveQueue)
  BY DEF TypeOK, TakeMessage
<1>2. /\ rx.at = "select" /\ rx'.at = "check" /\ rx'.msg = Head(receiveQueue) /\ UNCHANGED pump
  BY DEF TakeMessage, RxAt, Unread
<1> QED
  BY <1>1, <1>2 DEF Flying

LEMMA CheckFlight ==
  ASSUME TypeOK, DiscardCongested
  PROVE  /\ \A x : Flying(x)' => Flying(x)
         /\ \A x : Flying(x) => Flying(x)' \/ x = rx.msg
         /\ Flying(rx.msg)
<1>1. rx.at = "check" /\ rx'.at # "check" /\ UNCHANGED <<receiveQueue, pump>>
  BY DEF DiscardCongested, RxAt, Unread
<1> QED
  BY <1>1 DEF Flying

\* Calling Receive and taking a notice move no message.
Aside == CallReceive \/ TakeCongestion \/ NoCongestion
LEMMA AsideFlight ==
  ASSUME Aside
  PROVE  /\ \A x : Flying(x) <=> Flying(x)'
         /\ rx.at # "check" /\ rx'.at # "check"
         /\ UNCHANGED <<client, pump, saturated, dropped, receiveQueue, congested, over, delivered>>
<1>1. /\ rx.at # "check" /\ rx'.at # "check"
      /\ UNCHANGED <<client, pump, saturated, dropped, receiveQueue, congested, over, delivered>>
  BY DEF Aside, CallReceive, TakeCongestion, NoCongestion, RxAt, Unread
<1> QED
  BY <1>1 DEF Flying

-----------------------------------------------------------------------------
(* The reader: what is in flight stays sorted.                             *)

\* The next message comes after all that is in flight.
LEMMA SendsLast ==
  ASSUME TypeOK, Sent, NEW m \in Message, Sendable(m), Identified(m)
  PROVE  /\ Precedes(client, m)
         /\ \A x \in Message : Flying(x) => InOrder(x, m)
<1> USE MessageParts
<1>1. Precedes(client, m)
  BY DEF TypeOK, Sendable, Precedes, IsTurnStart, NoMessage, Identified
<1>2. ASSUME NEW x \in Message, Flying(x), Identified(x) PROVE Precedes(x, m)
  <2>1. x = client \/ Precedes(x, client)
    BY <1>2 DEF Sent
  <2> QED
    BY <1>1, <2>1 DEF TypeOK, Precedes
<1> QED
  BY <1>1, <1>2 DEF InOrder

LEMMA InFlight ==
  ASSUME TypeOK
  PROVE  /\ rx.at = "check" => rx.msg \in Message /\ Flying(rx.msg)
         /\ pump.at # "read" => pump.msg \in Message /\ Flying(pump.msg)
         /\ \A i \in DOMAIN receiveQueue : receiveQueue[i] \in Message /\ Flying(receiveQueue[i])
  BY DEF TypeOK, Flying

LEMMA ReadSorted ==
  ASSUME TypeOK, Sorted, NEW m \in Message, ReadMessage(m)
  PROVE  Sorted'
<1>1. Sendable(m) /\ pump.at = "read" /\ UNCHANGED rx /\ client' = IF Identified(m) THEN m ELSE client
  BY DEF ReadMessage
<1>2. \A x \in Message : Flying(x) => InOrder(x, m)
  BY <1>1, SendsLast DEF Sorted, InOrder
<1>3. Sent'
  <2>1. ASSUME NEW x \in Message, Flying(x)', Identified(x) PROVE x = client' \/ Precedes(x, client')
    <3>1. Flying(x) \/ x = m
      BY <2>1, ReadFlight
    <3>2. CASE Identified(m)
      BY <1>1, <1>2, <2>1, <3>1, <3>2 DEF InOrder
    <3>3. CASE ~Identified(m)
      BY <1>1, <2>1, <3>1, <3>3 DEF Sorted, Sent
    <3> QED
      BY <3>2, <3>3
  <2> QED
    BY <2>1 DEF Sent, Identified, Precedes
<1>4. CASE UNCHANGED receiveQueue /\ (UNCHANGED pump \/ pump'.msg = m)
  <2>1. QueueSorted'
    BY <1>4 DEF Sorted, QueueSorted, InOrder, Precedes, Identified
  <2>2. EndsSorted'
    <3>1. ASSUME pump.at # "read" => FALSE, NEW i \in DOMAIN receiveQueue PROVE InOrder(receiveQueue[i], m)
      BY <1>2, InFlight
    <3>2. rx.at = "check" => InOrder(rx.msg, m)
      BY <1>2, InFlight
    <3>3. CASE UNCHANGED pump
      BY <1>1, <1>4, <3>3 DEF Sorted, EndsSorted, InOrder, Precedes, Identified
    <3>4. CASE pump'.msg = m
      BY <1>1, <1>4, <3>1, <3>2, <3>4 DEF Sorted, EndsSorted, InOrder, Precedes, Identified
    <3> QED
      BY <1>4, <3>3, <3>4
  <2> QED
    BY <1>3, <2>1, <2>2 DEF Sorted
<1>5. CASE receiveQueue' = Append(receiveQueue, m) /\ UNCHANGED pump
  <2>1. /\ \A i \in DOMAIN receiveQueue : receiveQueue'[i] = receiveQueue[i] /\ InOrder(receiveQueue[i], m)
        /\ rx.at = "check" => InOrder(rx.msg, m)
    BY <1>2, <1>5, InFlight DEF TypeOK
  <2>2. \A i \in DOMAIN receiveQueue' : i \in DOMAIN receiveQueue \/ (i = Len(receiveQueue) + 1 /\ receiveQueue'[i] = m)
    BY <1>5 DEF TypeOK
  <2>3. QueueSorted'
    <3>1. ASSUME NEW i \in DOMAIN receiveQueue', NEW j \in DOMAIN receiveQueue', i < j
          PROVE  InOrder(receiveQueue'[i], receiveQueue'[j])
      <4>1. i \in DOMAIN receiveQueue
        BY <1>5, <3>1 DEF TypeOK
      <4> QED
        BY <2>1, <2>2, <3>1, <4>1 DEF Sorted, QueueSorted
    <3> QED
      BY <3>1 DEF QueueSorted, InOrder, Precedes, Identified
  <2>4. EndsSorted'
    BY <1>1, <1>5, <2>1, <2>2 DEF Sorted, EndsSorted, InOrder, Precedes, Identified
  <2> QED
    BY <1>3, <2>3, <2>4 DEF Sorted
<1> QED
  BY <1>4, <1>5 DEF ReadMessage, PumpAt

LEMMA PumpSorted ==
  ASSUME TypeOK, Sorted, PassFence \/ SignalTurnCongestion
  PROVE  Sorted'
<1>1. Sent'
  <2>1. \A x : Flying(x)' => Flying(x)
    BY FenceFlight, SignalFlight
  <2>2. UNCHANGED client
    BY DEF PassFence, SignalTurnCongestion
  <2> QED
    BY <2>1, <2>2 DEF Sorted, Sent, Identified, Precedes
<1>2. CASE PassFence
  <2>1. /\ receiveQueue' = Append(receiveQueue, pump.msg) /\ pump.at = "fence" /\ pump'.at = "read" /\ UNCHANGED rx
    BY <1>2 DEF PassFence, AtRead, PumpAt
  <2>2. /\ \A i \in DOMAIN receiveQueue : receiveQueue'[i] = receiveQueue[i] /\ InOrder(receiveQueue[i], pump.msg)
        /\ rx.at = "check" => InOrder(rx.msg, pump.msg)
    BY <2>1 DEF TypeOK, Sorted, EndsSorted
  <2>3. \A i \in DOMAIN receiveQueue' : i \in DOMAIN receiveQueue \/ (i = Len(receiveQueue) + 1 /\ receiveQueue'[i] = pump.msg)
    BY <2>1 DEF TypeOK
  <2>4. QueueSorted'
    <3>1. ASSUME NEW i \in DOMAIN receiveQueue', NEW j \in DOMAIN receiveQueue', i < j
          PROVE  InOrder(receiveQueue'[i], receiveQueue'[j])
      <4>1. i \in DOMAIN receiveQueue
        BY <2>1, <3>1 DEF TypeOK
      <4> QED
        BY <2>2, <2>3, <3>1, <4>1 DEF Sorted, QueueSorted
    <3> QED
      BY <3>1 DEF QueueSorted, InOrder, Precedes, Identified
  <2>5. EndsSorted'
    BY <2>1, <2>2, <2>3 DEF Sorted, EndsSorted, InOrder, Precedes, Identified
  <2> QED
    BY <1>1, <2>4, <2>5 DEF Sorted
<1>3. CASE SignalTurnCongestion
  <2>1. pump'.at = "read" /\ UNCHANGED <<rx, receiveQueue>>
    BY <1>3 DEF SignalTurnCongestion, AtRead, PumpAt
  <2> QED
    BY <1>1, <2>1 DEF Sorted, QueueSorted, EndsSorted, InOrder, Precedes, Identified
<1> QED
  BY <1>2, <1>3

LEMMA ReceiveSorted ==
  ASSUME TypeOK, Sorted, Receive
  PROVE  Sorted'
<1>1. Sent'
  <2>1. \A x : Flying(x)' => Flying(x)
    BY TakeFlight, CheckFlight, AsideFlight DEF Receive, Aside
  <2>2. UNCHANGED client
    BY DEF Receive, CallReceive, TakeCongestion, NoCongestion, TakeMessage, DiscardCongested, Unread
  <2> QED
    BY <2>1, <2>2 DEF Sorted, Sent, Identified, Precedes
<1>2. CASE Aside
  BY <1>1, <1>2, AsideFlight DEF Sorted, QueueSorted, EndsSorted, InOrder, Precedes, Identified
<1>3. CASE TakeMessage
  <2>1. /\ \A i \in DOMAIN receiveQueue' :
             i + 1 \in DOMAIN receiveQueue /\ receiveQueue'[i] = receiveQueue[i + 1] /\ i \in Nat \ {0}
        /\ 1 \in DOMAIN receiveQueue /\ rx'.msg = receiveQueue[1] /\ UNCHANGED pump
    BY <1>3 DEF TypeOK, TakeMessage, RxAt, Unread
  <2>2. QueueSorted'
    <3>1. ASSUME NEW i \in DOMAIN receiveQueue', NEW j \in DOMAIN receiveQueue', i < j
          PROVE  InOrder(receiveQueue'[i], receiveQueue'[j])
      BY <2>1, <3>1 DEF Sorted, QueueSorted
    <3> QED
      BY <3>1 DEF QueueSorted, InOrder, Precedes, Identified
  <2>3. ASSUME NEW i \in DOMAIN receiveQueue'
        PROVE  /\ InOrder(rx'.msg, receiveQueue'[i])
               /\ pump.at # "read" => InOrder(receiveQueue'[i], pump.msg)
    BY <2>1 DEF Sorted, QueueSorted, EndsSorted
  <2>4. pump.at # "read" => InOrder(rx'.msg, pump.msg)
    BY <2>1 DEF Sorted, EndsSorted
  <2>5. EndsSorted'
    BY <2>1, <2>3, <2>4 DEF EndsSorted, InOrder, Precedes, Identified
  <2> QED
    BY <1>1, <2>2, <2>5 DEF Sorted
<1>4. CASE DiscardCongested
  <2>1. rx'.at # "check" /\ UNCHANGED <<receiveQueue, pump>>
    BY <1>4 DEF DiscardCongested, RxAt, Unread
  <2> QED
    BY <1>1, <2>1 DEF Sorted, QueueSorted, EndsSorted, InOrder, Precedes, Identified
<1> QED
  BY <1>2, <1>3, <1>4 DEF Receive, Aside

-----------------------------------------------------------------------------
(* The reader: nothing is lost, or it is lost with its turn.               *)

\* Receive checks the oldest message in flight.
LEMMA Oldest ==
  ASSUME TypeOK, Sorted, DiscardCongested
  PROVE  /\ rx.msg \in Message /\ Flying(rx.msg)
         /\ \A x : Flying(x)' => InOrder(rx.msg, x)
         /\ \A x : Flying(x) => x = rx.msg \/ InOrder(rx.msg, x)
<1>1. rx.at = "check" /\ rx'.at # "check" /\ UNCHANGED <<receiveQueue, pump>>
  BY DEF DiscardCongested, RxAt, Unread
<1>2. \A x : Flying(x)' => InOrder(rx.msg, x)
  BY <1>1 DEF Flying, Sorted, EndsSorted
<1>3. \A x : Flying(x) => x = rx.msg \/ InOrder(rx.msg, x)
  BY <1>1 DEF Flying, Sorted, EndsSorted
<1> QED
  BY <1>1, <1>2, <1>3, InFlight

\* A message that is not discarded belongs to a turn without a loss and is
\* the next one the handler expects of it.
LEMMA Expected ==
  ASSUME TypeOK, Sorted, Lossless, Charged, DiscardCongested,
         ~Discards(rx.msg), Identified(rx.msg)
  PROVE  /\ rx.msg.turn \in Turns \ dropped
         /\ rx.msg.n = Len(delivered[rx.msg.turn])
<1> DEFINE t == rx.msg.turn
           n == rx.msg.n
           d == Len(delivered[t])
<1>1. rx.msg \in Message /\ Flying(rx.msg) /\ t \in Turns /\ n \in 0..MaxMsg
  BY Oldest, MessageParts DEF Identified, Turns
<1>2. t \notin dropped
  BY <1>1 DEF Charged, Cut, Gone, Discards, Identified
<1>3. Waiting(t)
  BY <1>1, <1>2 DEF Lossless
<1>4. d \in Nat /\ d <= n
  BY <1>1, <1>3 DEF Waiting, TypeOK
<1>5. ASSUME d < n PROVE FALSE
  <2>1. d \in 0..MaxMsg
    BY <1>1, <1>4, <1>5, ConnectionAssumption DEF ConnectionAssumption
  <2>2. Flying([turn |-> t, n |-> d])
    BY <1>1, <1>3, <1>4, <1>5, <2>1 DEF Waiting
  <2>3. [turn |-> t, n |-> d] = rx.msg \/ InOrder(rx.msg, [turn |-> t, n |-> d])
    BY <2>2, Oldest
  <2> QED
    BY <1>1, <1>4, <1>5, <2>3 DEF InOrder, Precedes, Identified, Turns
<1> QED
  BY <1>1, <1>2, <1>4, <1>5

LEMMA ReadLossless ==
  ASSUME TypeOK, Sorted, Lossless, Charged, NEW m \in Message, ReadMessage(m)
  PROVE  Lossless'
<1>1. Sendable(m) /\ UNCHANGED <<delivered, dropped>> /\ client' = IF Identified(m) THEN m ELSE client
  BY DEF ReadMessage, history
<1>2. ASSUME NEW t \in Turns \ dropped PROVE Waiting(t)' /\ Reached(t)'
  <2>1. Waiting(t) /\ Reached(t)
    BY <1>2 DEF Lossless
  <2> DEFINE d == Len(delivered[t])
  <2>d. d \in Nat
    BY <1>2 DEF TypeOK
  <2>2. m.turn # t \/ Flying(m)'
    BY <1>2, ReadFlight DEF Charged, Accounted, Turns
  <2>3. m.turn = t =>
          /\ d <= m.n
          /\ \A k \in 0..MaxMsg : d <= k /\ k < m.n => Flying([turn |-> t, n |-> k])
    <3>1. SUFFICES ASSUME m.turn = t PROVE
            /\ d <= m.n
            /\ \A k \in 0..MaxMsg : d <= k /\ k < m.n => Flying([turn |-> t, n |-> k])
      OBVIOUS
    <3>2. CASE client.turn = t /\ m.n = client.n + 1
      <4>1. Flying(client) \/ d = client.n + 1
        BY <2>1, <3>2 DEF Reached
      <4>2. CASE d = client.n + 1
        BY <3>2, <4>2, MessageParts
      <4>3. CASE Flying(client)
        <5>1. client \in Message /\ client = [turn |-> t, n |-> client.n] /\ client.n \in 0..MaxMsg
          BY <3>2, MessageParts DEF TypeOK
        <5>2. /\ d <= client.n
              /\ \A k \in 0..MaxMsg : d <= k /\ k < client.n => Flying([turn |-> t, n |-> k])
          BY <2>1, <4>3, <5>1, <3>2 DEF Waiting
        <5>3. ASSUME NEW k \in 0..MaxMsg, d <= k, k < m.n PROVE k < client.n \/ k = client.n
          BY <3>2, <5>1, <5>3
        <5> QED
          BY <2>d, <3>2, <4>3, <5>1, <5>2, <5>3
      <4> QED
        BY <4>1, <4>2, <4>3
    <3>3. CASE IsTurnStart(m) /\ m.turn = client.turn + 1
      <4>1. client.turn < t /\ m.n = 0
        BY <3>1, <3>3, MessageParts DEF IsTurnStart, TypeOK
      <4>2. d = 0
        BY <1>2, <4>1 DEF Charged, Future
      <4> QED
        BY <4>1, <4>2, <2>d
    <3> QED
      BY <1>1, <1>2, <3>1, <3>2, <3>3 DEF Sendable, NoMessage, Turns
  <2>4. Waiting(t)'
    <3>1. ASSUME NEW x \in Message, Flying(x)', x.turn = t
          PROVE  /\ d <= x.n
                 /\ \A k \in 0..MaxMsg : d <= k /\ k < x.n => Flying([turn |-> t, n |-> k])'
      <4>1. /\ d <= x.n
            /\ \A k \in 0..MaxMsg : d <= k /\ k < x.n => Flying([turn |-> t, n |-> k])
        BY <2>1, <2>3, <3>1, ReadFlight DEF Waiting
      <4> QED
        BY <4>1, ReadFlight
    <3> QED
      BY <1>1, <3>1 DEF Waiting
  <2>5. Reached(t)'
    BY <1>1, <1>2, <2>1, <2>2, ReadFlight DEF Reached
  <2> QED
    BY <2>4, <2>5
<1> QED
  BY <1>1, <1>2 DEF Lossless

\* A step that moves nothing, or drops what it takes with its turn.
LEMMA KeepsLossless ==
  ASSUME TypeOK, Lossless, UNCHANGED <<client, delivered>>, dropped \subseteq dropped',
         \A x : Flying(x)' => Flying(x),
         \A x \in Message : Flying(x) /\ x.turn \in Turns \ dropped' => Flying(x)'
  PROVE  Lossless'
<1>1. ASSUME NEW t \in Turns \ dropped' PROVE Waiting(t)' /\ Reached(t)'
  <2>1. Waiting(t) /\ Reached(t)
    BY <1>1 DEF Lossless
  <2>2. ASSUME NEW k \in 0..MaxMsg PROVE Flying([turn |-> t, n |-> k]) => Flying([turn |-> t, n |-> k])'
    BY <1>1, <2>2 DEF Message, Turns
  <2>3. Waiting(t)'
    BY <2>1, <2>2 DEF Waiting
  <2>4. Reached(t)'
    BY <1>1, <2>1 DEF Reached, TypeOK
  <2> QED
    BY <2>3, <2>4
<1> QED
  BY <1>1 DEF Lossless

LEMMA CheckLossless ==
  ASSUME TypeOK, Sorted, Lossless, Charged, DiscardCongested
  PROVE  Lossless'
<1>1. UNCHANGED <<client, dropped>>
  BY DEF DiscardCongested, Unread
<1>2. CASE Discards(rx.msg) \/ ~Identified(rx.msg)
  <2>1. UNCHANGED delivered
    BY <1>2 DEF DiscardCongested
  <2>2. rx.msg.turn \notin Turns \ dropped
    BY <1>2 DEF Discards, Identified, Charged, Accounted, Turns
  <2> QED
    BY <1>1, <2>1, <2>2, CheckFlight, KeepsLossless
<1>3. CASE ~Discards(rx.msg) /\ Identified(rx.msg)
  <2> DEFINE u == rx.msg.turn
             n == rx.msg.n
  <2>1. u \in Turns \ dropped /\ n = Len(delivered[u]) /\ rx.msg \in Message
    BY <1>3, Expected, Oldest
  <2>2. delivered' = [delivered EXCEPT ![u] = Append(@, n)]
    BY <1>3 DEF DiscardCongested
  <2>3. ASSUME NEW t \in Turns \ dropped PROVE Waiting(t)' /\ Reached(t)'
    <3>1. Waiting(t) /\ Reached(t)
      BY <2>3 DEF Lossless
    <3>2. CASE t # u
      <4>1. delivered'[t] = delivered[t]
        BY <2>1, <2>2, <2>3, <3>2 DEF TypeOK
      <4>2. \A k \in 0..MaxMsg : Flying([turn |-> t, n |-> k]) => Flying([turn |-> t, n |-> k])'
        BY <3>2, CheckFlight
      <4>3. Waiting(t)'
        BY <3>1, <4>1, <4>2, CheckFlight DEF Waiting
      <4>4. Reached(t)'
        BY <1>1, <3>1, <3>2, <4>1, CheckFlight DEF Reached
      <4> QED
        BY <4>3, <4>4
    <3>3. CASE t = u
      <4>1. Len(delivered'[t]) = n + 1 /\ n \in Nat
        BY <2>1, <2>2, <3>3 DEF TypeOK
      <4>2. \A k \in 0..MaxMsg : n + 1 <= k /\ Flying([turn |-> t, n |-> k]) => Flying([turn |-> t, n |-> k])'
        <5>1. ASSUME NEW k \in 0..MaxMsg, n + 1 <= k PROVE [turn |-> t, n |-> k] # rx.msg
          BY <4>1, <5>1
        <5> QED
          BY <5>1, CheckFlight
      <4>3. ASSUME NEW x \in Message, Flying(x)', x.turn = t
            PROVE  /\ n + 1 <= x.n
                   /\ \A k \in 0..MaxMsg : n + 1 <= k /\ k < x.n => Flying([turn |-> t, n |-> k])'
        <5>1. InOrder(rx.msg, x) /\ Flying(x)
          BY <4>3, Oldest, CheckFlight
        <5>2. n < x.n /\ x.n \in Nat
          BY <1>3, <3>3, <4>3, <5>1, MessageParts DEF InOrder, Precedes, Identified
        <5>3. ASSUME NEW k \in 0..MaxMsg, n + 1 <= k, k < x.n PROVE Flying([turn |-> t, n |-> k])'
          <6>1. n <= k
            BY <4>1, <5>3
          <6>2. Flying([turn |-> t, n |-> k])
            BY <2>1, <3>1, <3>3, <4>3, <5>1, <5>3, <6>1 DEF Waiting
          <6> QED
            BY <4>2, <5>3, <6>2
        <5> QED
          BY <4>1, <5>2, <5>3
      <4>4. Waiting(t)'
        BY <4>1, <4>3 DEF Waiting
      <4>5. Reached(t)'
        <5>1. ASSUME client.turn = t, client = rx.msg PROVE Len(delivered'[t]) = client.n + 1
          BY <4>1, <5>1
        <5>2. ASSUME client.turn = t, client # rx.msg PROVE Flying(client)' \/ Len(delivered'[t]) = client.n + 1
          <6>1. Sent
            BY DEF Sorted
          <6>2. Precedes(rx.msg, client)
            BY <1>3, <2>1, <5>2, <6>1, Oldest DEF Sent
          <6>3. n < client.n /\ client.n \in Nat
            BY <3>3, <4>1, <5>2, <6>2 DEF Precedes, TypeOK, Message
          <6>4. Flying(client)
            BY <2>1, <3>1, <3>3, <4>1, <5>2, <6>3 DEF Reached
          <6>5. Flying(client)'
            BY <1>1, <5>2, <6>4, CheckFlight DEF Flying
          <6> QED
            BY <6>5
        <5> QED
          BY <1>1, <5>1, <5>2 DEF Reached
      <4> QED
        BY <4>4, <4>5
    <3> QED
      BY <3>2, <3>3
  <2> QED
    BY <1>1, <2>3 DEF Lossless
<1> QED
  BY <1>2, <1>3

LEMMA NextLossless ==
  ASSUME TypeOK, Sorted, Lossless, Charged, Next, Alive'
  PROVE  Lossless'
<1>1. CASE \E m \in Message : ReadMessage(m)
  BY <1>1, ReadLossless
<1>2. CASE PassFence
  <2>1. UNCHANGED <<client, delivered, dropped>>
    BY <1>2 DEF PassFence, history
  <2> QED
    BY <1>2, <2>1, FenceFlight, KeepsLossless
<1>3. CASE SignalTurnCongestion
  <2>1. UNCHANGED <<client, delivered>> /\ dropped' = dropped \cup {pump.msg.turn}
    BY <1>3 DEF SignalTurnCongestion, Alive
  <2> QED
    BY <1>3, <2>1, SignalFlight, KeepsLossless
<1>4. CASE Aside
  BY <1>4, AsideFlight, KeepsLossless
<1>5. CASE TakeMessage
  <2>1. UNCHANGED <<client, delivered, dropped>>
    BY <1>5 DEF TakeMessage, Unread
  <2> QED
    BY <1>5, <2>1, TakeFlight, KeepsLossless
<1>6. CASE DiscardCongested
  BY <1>6, CheckLossless
<1> QED
  BY <1>1, <1>2, <1>3, <1>4, <1>5, <1>6 DEF Next, ReadPump, ReadFails, Receive, Aside, Alive

\* Charged: reading.
LEMMA ReadCharged ==
  ASSUME TypeOK, Sorted, Charged, noticed \subseteq dropped, NEW m \in Message, ReadMessage(m)
  PROVE  Charged'
<1>1. /\ Sendable(m) /\ client' = IF Identified(m) THEN m ELSE client
      /\ UNCHANGED <<delivered, dropped, noticed, congested, congestion, saturated>>
  BY DEF ReadMessage, history
<1>2. /\ client.turn \in Nat /\ client'.turn \in Nat /\ dropped \subseteq Turns
      /\ \/ client'.turn = client.turn
         \/ client'.turn = client.turn + 1 /\ Answered(client.turn)
      /\ ~Identified(m) \/ m.turn = client'.turn
  BY <1>1, MessageParts DEF TypeOK, Sendable, Identified, NoMessage
<1>3. Cut'
  <2>1. ASSUME NEW t \in dropped, Gone(t) PROVE Gone(t)'
    <3>1. t < client'.turn
      BY <1>2, <2>1 DEF Gone, Turns
    <3>2. m.turn # t
      BY <1>1, <1>2, <2>1, MessageParts DEF Gone, Identified, Turns, Sendable, IsTurnStart, NoMessage
    <3> QED
      BY <2>1, <3>1, <3>2, ReadFlight DEF Gone
  <2> QED
    BY <1>1, <2>1 DEF Charged, Cut
<1>4. Past'
  BY <1>1, <1>2 DEF Charged, Past, Answered, Turns
<1>5. Future'
  BY <1>1, <1>2 DEF Charged, Future, Turns
<1>6. Accounted'
  BY <1>1, <1>2 DEF Charged, Accounted, Turns
<1> QED
  BY <1>3, <1>4, <1>5, <1>6 DEF Charged

\* Charged: a step that delivers nothing and loses nothing.
LEMMA KeepsCharged ==
  ASSUME Charged, UNCHANGED <<client, delivered, dropped, congested>>,
         \A x : Flying(x)' => Flying(x), Accounted'
  PROVE  Charged'
<1>1. Cut'
  BY DEF Charged, Cut, Gone
<1>2. Past' /\ Future'
  BY DEF Charged, Past, Future
<1> QED
  BY <1>1, <1>2 DEF Charged

\* Charged: the loss of a turn.
LEMMA SignalCharged ==
  ASSUME TypeOK, Sorted, Charged, SignalTurnCongestion, Alive'
  PROVE  Charged'
<1> DEFINE t == pump.msg.turn
<1>1. /\ Signalled(t) /\ Identified(pump.msg) /\ CanSignal(t) /\ saturated' = t
      /\ dropped' = dropped \cup {t} /\ UNCHANGED <<client, delivered, noticed>>
  BY DEF SignalTurnCongestion, Alive
<1>2. congested' = t /\ (congested = 0 \/ congested = t) /\ t # 0
  BY <1>1 DEF Signalled, Identified
<1>3. t <= client.turn
  <2>1. pump.msg \in Message /\ Flying(pump.msg)
    BY SignalFlight DEF TypeOK
  <2> QED
    BY <1>1, <2>1, MessageParts DEF Sorted, Sent, Precedes, TypeOK
<1>4. Cut'
  BY <1>1, <1>2, SignalFlight DEF Charged, Cut, Gone, TypeOK, Turns
<1>5. Past' /\ Future'
  BY <1>1 DEF Charged, Past, Future
<1>6. Accounted'
  BY <1>1, <1>2, <1>3 DEF Charged, Accounted, Signalled, TypeOK, Turns
<1> QED
  BY <1>4, <1>5, <1>6 DEF Charged

LEMMA NotEmpty ==
  ASSUME NEW S, NEW s \in Seq(S), NEW e \in S
  PROVE  Append(s, e) # <<>>
<1>1. Len(Append(s, e)) = Len(s) + 1 /\ Len(s) \in Nat
  OBVIOUS
<1> QED
  BY <1>1

LEMMA EmptyByLength ==
  ASSUME NEW S, NEW s \in Seq(S), Len(s) = 0
  PROVE  s = <<>>
  OBVIOUS

\* Charged: a later turn.start is behind everything of the congested turn.
LEMMA CheckCharged ==
  ASSUME TypeOK, Sorted, Lossless, Charged, DiscardCongested
  PROVE  Charged'
<1>1. UNCHANGED <<client, dropped, noticed, congestion, saturated>>
  BY DEF DiscardCongested, Unread
<1>2. Accounted'
  BY <1>1 DEF Charged, Accounted, DiscardCongested
<1>3. CASE UNCHANGED <<congested, delivered>>
  BY <1>1, <1>2, <1>3, CheckFlight, KeepsCharged
<1>4. CASE ~Discards(rx.msg) /\ Identified(rx.msg)
  <2> DEFINE u == rx.msg.turn
  <2>1. u \in Turns \ dropped /\ rx.msg.n = Len(delivered[u]) /\ rx.msg \in Message /\ Flying(rx.msg)
    BY <1>4, Expected, Oldest
  <2>2. delivered' = [delivered EXCEPT ![u] = Append(@, rx.msg.n)]
    BY <1>4 DEF DiscardCongested
  <2>3. u <= client.turn
    <3>1. rx.msg = client \/ Precedes(rx.msg, client)
      BY <1>4, <2>1 DEF Sorted, Sent
    <3> QED
      BY <2>1, <3>1, MessageParts DEF Precedes, TypeOK
  <2>4. Past' /\ Future'
    <3>1. \A t \in Turns : delivered'[t] = IF t = u THEN Append(delivered[u], rx.msg.n) ELSE delivered[t]
      BY <2>1, <2>2 DEF TypeOK
    <3>2. Append(delivered[u], rx.msg.n) # <<>>
      BY <2>1, MessageParts, NotEmpty DEF TypeOK
    <3>3. client.turn \in Nat
      BY MessageParts DEF TypeOK
    <3>4. Past'
      BY <1>1, <3>1, <3>2 DEF Charged, Past
    <3>5. Future'
      BY <1>1, <2>1, <2>3, <3>1, <3>3 DEF Charged, Future, Turns
    <3> QED
      BY <3>4, <3>5
  <2>5. Cut'
    <3>1. ASSUME NEW t \in dropped, congested = t, IsTurnStart(rx.msg) PROVE Gone(t)'
      <4>1. t \in Turns /\ t # u /\ t <= client.turn
        BY <2>1, <3>1 DEF Charged, Accounted, TypeOK
      <4>2. ~(u < t)
        <5>1. ASSUME u < t PROVE delivered[u] # <<>>
          BY <2>1, <4>1, <5>1 DEF Charged, Past, TypeOK, Message, Turns
        <5>2. Len(delivered[u]) = 0
          BY <2>1, <3>1 DEF IsTurnStart
        <5> QED
          BY <2>1, <5>1, <5>2, EmptyByLength DEF TypeOK
      <4>3. t < u /\ t < client.turn
        BY <2>1, <2>3, <4>1, <4>2 DEF Turns, TypeOK, Message
      <4>4. ASSUME NEW x \in Message, Flying(x)' PROVE x.turn # t
        BY <1>4, <2>1, <4>1, <4>3, <4>4, Oldest, MessageParts DEF InOrder, Precedes, Identified, Turns
      <4> QED
        BY <1>1, <4>3, <4>4 DEF Gone
    <3>2. ASSUME NEW t \in dropped, Gone(t) PROVE Gone(t)'
      BY <1>1, <3>2, CheckFlight DEF Gone
    <3>3. congested' = congested \/ IsTurnStart(rx.msg)
      BY <1>4 DEF DiscardCongested
    <3> QED
      BY <1>1, <3>1, <3>2, <3>3 DEF Charged, Cut
  <2> QED
    BY <1>2, <2>4, <2>5 DEF Charged
<1> QED
  BY <1>3, <1>4 DEF DiscardCongested, IsTurnStart, Identified

LEMMA NextCharged ==
  ASSUME TypeOK, Sorted, Lossless, Charged, noticed \subseteq dropped, Next, Alive'
  PROVE  Charged'
<1>1. CASE \E m \in Message : ReadMessage(m)
  BY <1>1, ReadCharged
<1>2. CASE PassFence
  <2>1. UNCHANGED <<client, delivered, dropped, congested, noticed, congestion>> /\ saturated' = 0
    BY <1>2 DEF PassFence, history
  <2>2. Accounted'
    BY <2>1 DEF Charged, Accounted
  <2> QED
    BY <1>2, <2>1, <2>2, FenceFlight, KeepsCharged
<1>3. CASE SignalTurnCongestion
  BY <1>3, SignalCharged
<1>4. CASE Aside
  <2>1. Accounted'
    BY <1>4 DEF Aside, CallReceive, TakeCongestion, NoCongestion, Unread, Charged, Accounted
  <2> QED
    BY <1>4, <2>1, AsideFlight, KeepsCharged
<1>5. CASE TakeMessage
  <2>1. UNCHANGED <<client, delivered, dropped, congested, noticed, congestion, saturated>>
    BY <1>5 DEF TakeMessage, Unread
  <2>2. Accounted'
    BY <2>1 DEF Charged, Accounted
  <2> QED
    BY <1>5, <2>1, <2>2, TakeFlight, KeepsCharged
<1>6. CASE DiscardCongested
  BY <1>6, CheckCharged
<1> QED
  BY <1>1, <1>2, <1>3, <1>4, <1>5, <1>6 DEF Next, ReadPump, ReadFails, Receive, Aside, Alive

-----------------------------------------------------------------------------
(* The reader: the inductive invariant.                                    *)

LEMMA InitReaderInv == Init => ReaderInv
<1> SUFFICES ASSUME Init PROVE ReaderInv
  OBVIOUS
<1>1. TypeOK
  BY InitTypes
<1>2. \A x : ~Flying(x)
  BY DEF Init, Flying
<1>3. Sorted
  BY <1>2 DEF Init, Sorted, QueueSorted, EndsSorted, Sent
<1>4. Lossless
  BY <1>2 DEF Init, Lossless, Waiting, Reached, NoMessage, Turns
<1>5. Charged
  BY DEF Init, Charged, Cut, Past, Future, Accounted, NoMessage, Turns
<1>6. NoMiddleLost
  BY DEF Init, NoMiddleLost
<1> QED
  BY <1>1, <1>3, <1>4, <1>5, <1>6 DEF ReaderInv, Init

LEMMA NextNoMiddleLost == ReaderInv /\ Next => NoMiddleLost'
<1> SUFFICES ASSUME ReaderInv, Next PROVE NoMiddleLost'
  OBVIOUS
<1> USE DEF ReaderInv
<1>1. CASE DiscardCongested /\ ~Discards(rx.msg) /\ Identified(rx.msg)
  <2> DEFINE u == rx.msg.turn
  <2>1. u \in Turns /\ rx.msg.n = Len(delivered[u])
    BY <1>1, Expected DEF DiscardCongested
  <2>2. delivered' = [delivered EXCEPT ![u] = Append(@, rx.msg.n)]
    BY <1>1 DEF DiscardCongested
  <2>3. ASSUME NEW t \in Turns, NEW i \in DOMAIN delivered'[t] PROVE delivered'[t][i] = i - 1
    <3>1. CASE t # u
      BY <2>1, <2>2, <2>3, <3>1 DEF TypeOK, NoMiddleLost
    <3>2. CASE t = u
      <4>1. delivered'[t] = Append(delivered[t], Len(delivered[t]))
        BY <2>1, <2>2, <3>2 DEF TypeOK
      <4>2. i \in DOMAIN delivered[t] \/ i = Len(delivered[t]) + 1
        BY <2>3, <4>1 DEF TypeOK
      <4> QED
        BY <2>3, <4>1, <4>2 DEF TypeOK, NoMiddleLost
    <3> QED
      BY <3>1, <3>2
  <2> QED
    BY <2>3 DEF NoMiddleLost
<1>2. CASE UNCHANGED delivered
  BY <1>2 DEF NoMiddleLost
<1> QED
  BY <1>1, <1>2
     DEF Next, ReadPump, ReadMessage, PassFence, SignalTurnCongestion, ReadFails, Receive, CallReceive,
         TakeCongestion, NoCongestion, TakeMessage, DiscardCongested, history

LEMMA NextReaderInv == ReaderInv /\ Next => ReaderInv'
<1> SUFFICES ASSUME ReaderInv, Next PROVE ReaderInv'
  OBVIOUS
<1>1. TypeOK /\ TypeOK' /\ noticed \subseteq dropped
  BY NextTypes DEF ReaderInv
<1>2. Sorted /\ Lossless /\ Charged
  BY DEF ReaderInv, Next, ReadPump, ReadMessage, PassFence, SignalTurnCongestion, ReadFails, Receive,
         CallReceive, TakeCongestion, NoCongestion, TakeMessage, DiscardCongested
<1>3. Alive' => Sorted'
  BY <1>1, <1>2, ReadSorted, PumpSorted, ReceiveSorted DEF Next, ReadPump, ReadFails, Alive
<1>4. Alive' => Lossless' /\ Charged'
  BY <1>1, <1>2, NextLossless, NextCharged
<1>5. (noticed \subseteq dropped)'
  BY <1>1, <1>2
     DEF Next, ReadPump, ReadMessage, PassFence, SignalTurnCongestion, ReadFails, Receive, CallReceive,
         TakeCongestion, NoCongestion, TakeMessage, DiscardCongested, history, Unread, Charged, Accounted
<1> QED
  BY <1>1, <1>3, <1>4, <1>5, NextNoMiddleLost DEF ReaderInv

LEMMA ReaderMeaning == ReaderInv => ReceiveSound
  BY DEF ReaderInv, ReceiveSound, LossPending, Charged, Accounted

\* Nothing of a noticed turn passes Receive's check.
LEMMA NextSilent ==
  ASSUME ReaderInv, Next, NEW t \in Turns, delivered'[t] # delivered[t]
  PROVE  t \notin noticed
<1>1. DiscardCongested /\ ~Discards(rx.msg) /\ Identified(rx.msg)
  BY DEF Next, ReadPump, ReadMessage, PassFence, SignalTurnCongestion, ReadFails, Receive, CallReceive,
         TakeCongestion, NoCongestion, TakeMessage, DiscardCongested, history
<1>2. TypeOK /\ Sorted /\ Lossless /\ Charged /\ noticed \subseteq dropped
  BY <1>1 DEF ReaderInv, DiscardCongested
<1>3. rx.msg.turn \in Turns \ dropped
  BY <1>1, <1>2, Expected
<1>4. t = rx.msg.turn
  BY <1>1, <1>2, <1>3 DEF DiscardCongested, TypeOK
<1> QED
  BY <1>2, <1>3, <1>4

-----------------------------------------------------------------------------
(* The composition.                                                        *)

\* The pumps share one context: it is cancelled when the reader is over.
OneContext == cancelled = (over # "no")

ConnectionInv == ReaderInv /\ OneContext

\* The writer only ever ends the reader.
LEMMA WriterStepKeepsReader == ReaderInv /\ WriterStep => ReaderInv'
<1> SUFFICES ASSUME ReaderInv, WriterStep PROVE ReaderInv'
  OBVIOUS
<1>1. /\ UNCHANGED <<client, pump, saturated, receiveQueue, congestion, congested, rx, delivered, dropped, noticed>>
      /\ over' \in {over, "peer"}
  BY DEF WriterStep, history
<1>2. TypeOK' /\ NoMiddleLost' /\ (noticed \subseteq dropped)'
  BY <1>1 DEF ReaderInv, TypeOK, NoMiddleLost
<1>3. ASSUME Alive' PROVE Alive /\ Sorted' /\ Lossless' /\ Charged'
  <2>1. Alive
    BY <1>1, <1>3 DEF Alive
  <2>2. \A x : Flying(x) <=> Flying(x)'
    BY <1>1 DEF Flying
  <2>3. Sorted'
    BY <1>1, <2>1, <2>2 DEF ReaderInv, Sorted, QueueSorted, EndsSorted, Sent, InOrder, Precedes, Identified
  <2>4. Lossless'
    BY <1>1, <2>1, <2>2, KeepsLossless DEF ReaderInv
  <2>5. Accounted'
    BY <1>1, <2>1 DEF ReaderInv, Charged, Accounted
  <2> QED
    BY <1>1, <2>1, <2>2, <2>3, <2>4, <2>5, KeepsCharged DEF ReaderInv
<1> QED
  BY <1>2, <1>3 DEF ReaderInv

LEMMA StutterReader == ReaderInv /\ UNCHANGED vars => ReaderInv'
<1> SUFFICES ASSUME ReaderInv, UNCHANGED vars PROVE ReaderInv'
  OBVIOUS
<1>1. \A x : Flying(x) <=> Flying(x)'
  BY DEF vars, Flying
<1>2. TypeOK' /\ NoMiddleLost' /\ (noticed \subseteq dropped)'
  BY DEF ReaderInv, TypeOK, NoMiddleLost, vars
<1>3. ASSUME Alive' PROVE Sorted' /\ Lossless' /\ Charged'
  <2>1. Alive
    BY <1>3 DEF Alive, vars
  <2>3. Sorted'
    BY <1>1, <2>1 DEF vars, ReaderInv, Sorted, QueueSorted, EndsSorted, Sent, InOrder, Precedes, Identified
  <2>4. Lossless'
    BY <1>1, <2>1, KeepsLossless DEF ReaderInv, vars
  <2>5. Accounted'
    BY <2>1 DEF ReaderInv, Charged, Accounted, vars
  <2> QED
    BY <1>1, <2>1, <2>3, <2>4, <2>5, KeepsCharged DEF ReaderInv, vars
<1> QED
  BY <1>2, <1>3 DEF ReaderInv

LEMMA NextOneContext == OneContext /\ [ConnectionNext]_<<vars, writer>> => OneContext'
<1> SUFFICES ASSUME OneContext, [ConnectionNext]_<<vars, writer>> PROVE OneContext'
  OBVIOUS
<1>1. CASE ReaderStep
  BY <1>1 DEF ReaderStep, OneContext
<1>2. CASE WriterStep
  <2>1. cancelled' = cancelled \/ cancelled' = TRUE
    BY <1>2 DEF WriterStep, WriterNext, WritePump, ControlFirst, HeartbeatNext, AnyReady, WriteControl,
                WriteSend, WritePing, Write, Enqueue, PeerPing, Tick, Cancel
  <2> QED
    BY <1>2, <2>1 DEF WriterStep, OneContext, Alive
<1>3. CASE UNCHANGED <<vars, writer>>
  BY <1>3 DEF vars, writer, OneContext
<1> QED
  BY <1>1, <1>2, <1>3 DEF ConnectionNext

LEMMA SpecConnectionInv == ConnectionSpec => []ConnectionInv
<1>1. ConnectionInit => ConnectionInv
  BY InitReaderInv DEF ConnectionInit, ConnectionInv, OneContext, Init, WriterInit
<1>2. ConnectionInv /\ [ConnectionNext]_<<vars, writer>> => ConnectionInv'
  BY NextReaderInv, WriterStepKeepsReader, StutterReader, NextOneContext
     DEF ConnectionInv, ConnectionNext, ReaderStep, vars
<1> QED
  BY <1>1, <1>2, PTL DEF ConnectionSpec

\* What Receive hands to the handler is of every turn a gap-free beginning,
\* and the notice of a turn that lost a message stays until it is taken,
\* however the two pumps and the handler interleave.
THEOREM GapFree == ConnectionSpec => []ReceiveSound
<1>1. ConnectionInv => ReceiveSound
  BY ReaderMeaning DEF ConnectionInv
<1> QED
  BY <1>1, SpecConnectionInv, PTL

\* After the congestion notice of a turn Receive returns nothing of it.
THEOREM SilentAfterNotice == ConnectionSpec => NothingAfterNotice
<1>1. ConnectionInv /\ [ConnectionNext]_<<vars, writer>>
        => [\A t \in Turns : delivered'[t] # delivered[t] => t \notin noticed]_vars
  <2> SUFFICES ASSUME ConnectionInv, [ConnectionNext]_<<vars, writer>>,
                      NEW t \in Turns, delivered'[t] # delivered[t]
               PROVE  t \notin noticed
    BY DEF ConnectionInv
  <2>1. Next
    BY DEF ConnectionNext, ReaderStep, WriterStep, vars, history
  <2> QED
    BY <2>1, NextSilent DEF ConnectionInv
<1> QED
  BY <1>1, SpecConnectionInv, PTL DEF ConnectionSpec, NothingAfterNotice

\* The connection's writer is the writer on its own: all the reader does to
\* it is to end its context.
THEOREM WriterComposes == ConnectionSpec => WriterSpec
<1>1. ConnectionInit => WriterInit
  BY DEF ConnectionInit
<1>2. ConnectionInv /\ [ConnectionNext]_<<vars, writer>> => [WriterNext]_writer
  <2> SUFFICES ASSUME ConnectionInv, [ConnectionNext]_<<vars, writer>> PROVE [WriterNext]_writer
    OBVIOUS
  <2>1. CASE ReaderStep
    <3>1. Alive
      BY <2>1 DEF ReaderStep, Next, ReadPump, ReadMessage, PassFence, SignalTurnCongestion, ReadFails, Receive,
                  CallReceive, TakeCongestion, NoCongestion, TakeMessage, DiscardCongested
    <3>2. cancelled = FALSE
      <4>1. cancelled = (over # "no")
        BY DEF ConnectionInv, OneContext
      <4> QED
        BY <3>1, <4>1, Zenon DEF Alive
    <3> DEFINE dies == over' # "no"
    <3>d. cancelled' = dies /\ UNCHANGED <<pc, send, control, tick, overdue>>
      BY <2>1 DEF ReaderStep
    <3>e. dies = TRUE \/ dies = FALSE
      OBVIOUS
    <3> HIDE DEF dies
    <3>3. CASE dies
      <4>1. cancelled' = TRUE
        BY <3>3, <3>d, Zenon
      <4>2. ~cancelled
        BY <3>2, Zenon
      <4>3. Cancel
        BY <3>d, <4>1, <4>2, Zenon DEF Cancel
      <4> QED
        BY <4>3, Zenon DEF WriterNext
    <3>4. CASE ~dies
      <4>1. cancelled' = FALSE
        BY <3>4, <3>d, <3>e, Zenon
      <4> QED
        BY <3>2, <3>d, <4>1, Zenon DEF writer
    <3> QED
      BY <3>3, <3>4
  <2>2. CASE WriterStep
    BY <2>2 DEF WriterStep
  <2>3. CASE UNCHANGED <<vars, writer>>
    BY <2>3
  <2> QED
    BY <2>1, <2>2, <2>3 DEF ConnectionNext
<1> QED
  BY <1>1, <1>2, SpecConnectionInv, PTL DEF ConnectionSpec, WriterSpec

\* The pump writes at most two messages before a waiting heartbeat, whatever
\* the lengths of the queues and the choices of its selects, and whatever the
\* reader does meanwhile.
THEOREM HeartbeatPunctual == ConnectionSpec => []HeartbeatOnTime
<1>1. WriterInv => HeartbeatOnTime
  BY WriterMeaning
<1> QED
  BY <1>1, WriterComposes, SpecWriterInv, PTL
=============================================================================
