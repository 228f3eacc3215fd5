-------------------------- MODULE ServerConnection --------------------------
(***************************************************************************)
(* The inbound half of a device connection on the server                   *)
(* (server/internal/transport/connection.go): readPump fills the bounded   *)
(* receive queue and turns overflow into a congestion notice for one turn; *)
(* Receive hands notices and messages to the device handler.               *)
(*                                                                         *)
(* A message is its turn and its number within the turn; number 0 is       *)
(* turn.start. Turn 0 is a message that names no turn. The client sends    *)
(* the messages of a turn in order and starts turns in order, each once    *)
(* the server can have answered the turn before.                           *)
(***************************************************************************)
EXTENDS Naturals, Sequences, FiniteSets

CONSTANTS
  MaxTurn,    \* turns of one connection (bound of the model)
  MaxMsg,     \* messages of one turn, turn.start not counted (bound)
  QueueCap,   \* receiveQueueCapacity
  Anonymous   \* whether the client also sends messages that name no turn

ASSUME ConnectionAssumption ==
  /\ MaxTurn \in Nat \ {0} /\ MaxMsg \in Nat \ {0}
  /\ QueueCap \in Nat \ {0} /\ Anonymous \in BOOLEAN

Turns == 1..MaxTurn
Message == [turn : 0..MaxTurn, n : 0..MaxMsg]
NoMessage == [turn |-> 0, n |-> 0]
Identified(m) == m.turn # 0
IsTurnStart(m) == m.turn # 0 /\ m.n = 0

VARIABLES
  client,       \* the last message the client sent
  pump,         \* where readPump is: "read", "fence" or "signal", and its message
  saturated,    \* readPump's saturatedTurn, 0 for nil
  receiveQueue,
  congestion,   \* the congestion channel (capacity 1), 0 when empty
  congested,    \* congested and hasCongested, 0 for none
  rx,           \* where Receive is: "out" (not called), "top", "select", "check"
  over,         \* "no", or why the connection's context is cancelled
  delivered,    \* history: numbers of the messages handed to the handler, per turn
  dropped,      \* history: turns that lost a message to a full queue
  noticed       \* history: turns whose congestion the handler was told of

vars == <<client, pump, saturated, receiveQueue, congestion, congested, rx, over,
          delivered, dropped, noticed>>
history == <<delivered, dropped, noticed>>

TypeOK ==
  /\ client \in Message
  /\ pump \in [at : {"read", "fence", "signal"}, msg : Message]
  /\ saturated \in 0..MaxTurn
  /\ receiveQueue \in Seq(Message) /\ Len(receiveQueue) <= QueueCap
  /\ congestion \in 0..MaxTurn /\ congested \in 0..MaxTurn
  /\ rx \in [at : {"out", "top", "select", "check"}, msg : Message]
  /\ over \in {"no", "peer", "full"}
  /\ delivered \in [Turns -> Seq(0..MaxMsg)]
  /\ dropped \in SUBSET Turns /\ noticed \in SUBSET Turns

Init ==
  /\ client = NoMessage
  /\ pump = [at |-> "read", msg |-> NoMessage] /\ saturated = 0
  /\ receiveQueue = <<>> /\ congestion = 0 /\ congested = 0
  /\ rx = [at |-> "out", msg |-> NoMessage] /\ over = "no"
  /\ delivered = [t \in Turns |-> <<>>] /\ dropped = {} /\ noticed = {}

Alive == over = "no"

-----------------------------------------------------------------------------
(* readPump.                                                               *)

\* The server's handler can have ended the turn: it saw the turn's start and
\* lost nothing of it, or was told of its congestion.
Answered(t) ==
  t \in Turns => t \in noticed \/ (delivered[t] # <<>> /\ t \notin dropped)

\* The client's next message.
Sendable(m) ==
  \/ m = NoMessage /\ Anonymous
  \/ m.turn # 0 /\ m.turn = client.turn /\ m.n = client.n + 1
  \/ IsTurnStart(m) /\ m.turn = client.turn + 1 /\ Answered(client.turn)

PumpAt(place, m) == pump' = [at |-> place, msg |-> m]
AtRead == PumpAt("read", NoMessage)
MutFull == Len(receiveQueue) > QueueCap
Full == Len(receiveQueue) >= QueueCap

\* Messages of the saturated turn are discarded; another turn's start waits
\* for room; anything else goes through the non-blocking select.
ReadMessage(m) ==
  /\ Alive /\ pump.at = "read" /\ Sendable(m)
  /\ client' = IF Identified(m) THEN m ELSE client
  /\ \/ /\ saturated # 0 /\ m.turn = saturated
        /\ UNCHANGED <<pump, receiveQueue>>
     \/ /\ saturated # 0 /\ m.turn # saturated /\ IsTurnStart(m)
        /\ PumpAt("fence", m)
        /\ UNCHANGED receiveQueue
     \/ /\ saturated = 0 \/ (m.turn # saturated /\ ~IsTurnStart(m))
        /\ IF Full THEN PumpAt("signal", m) /\ UNCHANGED receiveQueue
           ELSE receiveQueue' = Append(receiveQueue, m) /\ UNCHANGED pump
  /\ UNCHANGED <<saturated, congestion, congested, rx, over, history>>

MutPassFence ==
  /\ Alive /\ pump.at = "fence" /\ Full
  /\ saturated' = 0
  /\ AtRead
  /\ UNCHANGED <<client, receiveQueue, congestion, congested, rx, over, history>>

\* The new turn's start goes in once the handler has made room.
PassFence ==
  /\ Alive /\ pump.at = "fence" /\ ~Full
  /\ receiveQueue' = Append(receiveQueue, pump.msg)
  /\ saturated' = 0
  /\ AtRead
  /\ UNCHANGED <<client, congestion, congested, rx, over, history>>

MutSignalForgets(t) ==
  /\ congestion = 0
  /\ congestion' = t /\ UNCHANGED congested

\* signalTurnCongestion returns true.
Signalled(t) ==
  \/ congested = t /\ UNCHANGED <<congestion, congested>>
  \/ congested = 0 /\ congestion = 0 /\ congestion' = t /\ congested' = t

CanSignal(t) == congested = t \/ (congested = 0 /\ congestion = 0)

MutSignalTurnCongestion ==
  /\ Alive /\ pump.at = "signal"
  /\ AtRead
  /\ dropped' = dropped \cup ({pump.msg.turn} \ {0})
  /\ UNCHANGED <<client, saturated, receiveQueue, congestion, congested, rx, over,
                 delivered, noticed>>

\* The full queue is charged to one turn, or to the connection.
SignalTurnCongestion ==
  /\ Alive /\ pump.at = "signal"
  /\ AtRead
  /\ IF Identified(pump.msg) /\ CanSignal(pump.msg.turn)
     THEN /\ Signalled(pump.msg.turn)
          /\ saturated' = pump.msg.turn
          /\ dropped' = dropped \cup {pump.msg.turn}
          /\ UNCHANGED over
     ELSE /\ over' = "full"
          /\ UNCHANGED <<saturated, congestion, congested, dropped>>
  /\ UNCHANGED <<client, receiveQueue, rx, delivered, noticed>>

\* readMessage fails: the peer is gone or sent something that does not decode.
ReadFails ==
  /\ Alive /\ pump.at = "read"
  /\ over' = "peer"
  /\ UNCHANGED <<client, pump, saturated, receiveQueue, congestion, congested, rx, history>>

ReadPump == (\E m \in Message : ReadMessage(m)) \/ PassFence \/ SignalTurnCongestion \/ ReadFails

-----------------------------------------------------------------------------
(* Receive, called by the device handler.                                  *)

RxAt(place, m) == rx' = [at |-> place, msg |-> m]
Unread == <<client, pump, saturated, dropped>>

CallReceive ==
  /\ Alive /\ rx.at = "out"
  /\ RxAt("top", NoMessage)
  /\ UNCHANGED <<Unread, receiveQueue, congestion, congested, over, delivered, noticed>>

\* Either receive from the congestion channel.
TakeCongestion ==
  /\ Alive /\ rx.at \in {"top", "select"} /\ congestion # 0
  /\ noticed' = noticed \cup {congestion}
  /\ congestion' = 0
  /\ RxAt("out", NoMessage)
  /\ UNCHANGED <<Unread, receiveQueue, congested, over, delivered>>

\* The first select finds no notice.
NoCongestion ==
  /\ Alive /\ rx.at = "top" /\ congestion = 0
  /\ RxAt("select", NoMessage)
  /\ UNCHANGED <<Unread, receiveQueue, congestion, congested, over, delivered, noticed>>

TakeMessage ==
  /\ Alive /\ rx.at = "select" /\ receiveQueue # <<>>
  /\ RxAt("check", Head(receiveQueue))
  /\ receiveQueue' = Tail(receiveQueue)
  /\ UNCHANGED <<Unread, congestion, congested, over, delivered, noticed>>

Discards(m) == congested # 0 /\ m.turn = congested

\* A later turn.start is the fence behind which the congested turn is
\* forgotten.
DiscardCongested ==
  /\ Alive /\ rx.at = "check"
  /\ IF Discards(rx.msg)
     THEN RxAt("top", NoMessage) /\ UNCHANGED <<congested, delivered>>
     ELSE /\ congested' = IF IsTurnStart(rx.msg) THEN 0 ELSE congested
          /\ delivered' = IF Identified(rx.msg)
                          THEN [delivered EXCEPT ![rx.msg.turn] = Append(@, rx.msg.n)]
                          ELSE delivered
          /\ RxAt("out", NoMessage)
  /\ UNCHANGED <<Unread, receiveQueue, congestion, over, noticed>>

Receive == CallReceive \/ TakeCongestion \/ NoCongestion \/ TakeMessage \/ DiscardCongested

Next == ReadPump \/ Receive

Spec == Init /\ [][Next]_vars

(***************************************************************************)
(* Fairness: readPump finishes what it has read, and the handler comes     *)
(* back to Receive. Nothing is assumed of the client.                      *)
(***************************************************************************)
FairSpec == Spec /\ WF_vars(PassFence) /\ WF_vars(SignalTurnCongestion) /\ WF_vars(Receive)

-----------------------------------------------------------------------------
(* Properties.                                                             *)

\* The handler sees of every turn a gap-free beginning, in order: overflow
\* cuts a turn off, it never takes a message out of its middle.
NoMiddleLost ==
  \A t \in Turns : \A i \in DOMAIN delivered[t] : delivered[t][i] = i - 1

\* Once the handler has been told that a turn is congested, nothing of that
\* turn reaches it any more, whatever was still queued.
NothingAfterNotice ==
  [][\A t \in Turns : delivered'[t] # delivered[t] => t \notin noticed]_vars

\* A turn that lost a message is on its way to the handler until it gets there:
\* its notice waits in the congestion channel, which nothing else can take.
LossPending ==
  Alive => \A t \in dropped \ noticed : congestion = t

\* A turn that lost a message is reported to the handler, unless the
\* connection ends; at once prioritised over queued messages.
LossReported ==
  \A t \in Turns : t \in dropped ~> (t \in noticed \/ ~Alive)

\* The start of the turn after a congested one is not lost: it waits for room
\* and reaches the handler, or is cut off by the congestion of its own turn.
NextTurnArrives ==
  \A t \in Turns : (pump.at = "fence" /\ pump.msg.turn = t)
                     ~> (delivered[t] # <<>> \/ t \in dropped \/ ~Alive)

\* What has been delivered is of the model's types and has no holes, and no
\* loss is forgotten.
ReceiveSound == TypeOK /\ NoMiddleLost /\ LossPending

\* A receive queue that overflows costs its turn and not the connection or the
\* next turn: the loss is reported, and the next start comes through.
CongestionCostsOneTurn == LossReported /\ NextTurnArrives
=============================================================================
