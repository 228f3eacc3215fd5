--------------------------- MODULE VoiceTransport ---------------------------
(***************************************************************************)
(* The client's end of the WebSocket                                       *)
(* (client/src/network/voice_transport.cpp): a gate that checks every      *)
(* message in both directions against the turn it believes is running,     *)
(* and the queue of events it fills for the application                    *)
(* (EventQueue in application/voice_client.cpp).                           *)
(*                                                                         *)
(* protocol_mutex_ makes Send, SendPcm and the state section of OnText and *)
(* OnBinary atomic, so each is one operator here. The application's calls  *)
(* are operators that its actions use; Deliver and ConnectionFails are the *)
(* steps of the ASIO thread.                                               *)
(*                                                                         *)
(* A turn's identity is its epoch: the client advances turn, stream and    *)
(* epoch together. An identity of 0 is the session's own, whose epoch is 1.*)
(* Every message is well formed: ParseEnvelope and the PCM framing checks  *)
(* end the connection on any that is not. Text deltas and pings only move  *)
(* deadlines and are left out.                                             *)
(***************************************************************************)
EXTENDS Naturals, Sequences, FiniteSets

CONSTANTS
  MaxEpoch,  \* epochs of one session (bound of the model)
  MaxFrames, \* kMaximumTurnFrames
  MaxAudio,  \* PCM messages of one answer (bound of the model)
  SendCap,   \* kMaxBufferedBytes, in messages
  EventCap   \* slots of the event queue

ASSUME TransportAssumption ==
  /\ {MaxEpoch, MaxFrames, MaxAudio, SendCap, EventCap} \subseteq Nat \ {0}

Epochs == 1..MaxEpoch
Flags == {"START", "END", "GAP"}

VARIABLES
  tr,        \* the members of VoiceTransport::Impl
  c2s, s2c,  \* what is in flight to and from the server
  events,    \* EventQueue
  overflow,  \* EventQueue::overflow_
  cut        \* history: the epochs cancelled, or failed by the server, on this
             \* connection

transport == <<tr, c2s, s2c, events, overflow, cut>>

NoTransport ==
  [conn |-> "none", session |-> FALSE, turn |-> 0, response |-> 0,
   active |-> FALSE, committed |-> FALSE, uplink_ended |-> FALSE, uplink |-> 0,
   audio_started |-> FALSE, audio_ended |-> FALSE, downlink |-> 0,
   response_done |-> FALSE, cancel_sent |-> FALSE, discard |-> FALSE]

Message(type, id) == [type |-> type, id |-> id, seq |-> 0, flags |-> {}]
Pcm(id, seq, flags) == [type |-> "pcm", id |-> id, seq |-> seq, flags |-> flags]

Uplink == [type : {"hello", "turn.start", "turn.commit", "cancel"},
           id : 0..MaxEpoch, seq : {0}, flags : {{}}]
          \cup [type : {"pcm"}, id : Epochs, seq : 0..MaxFrames, flags : SUBSET Flags]
Downlink == [type : {"hello.ack", "response.start", "audio_start", "done",
                     "cancelled", "error"}, id : 0..MaxEpoch, seq : {0}, flags : {{}}]
            \cup [type : {"pcm"}, id : Epochs, seq : 0..MaxAudio, flags : SUBSET Flags]
\* What the application sees: a message, a gap in the answer's PCM, or the
\* end of the connection.
Events == Downlink \cup {Message("gap", id) : id \in Epochs} \cup {Message("transport", 0)}

TransportTypeOK ==
  /\ tr \in [conn : {"none", "opening", "open", "failed"}, session : BOOLEAN,
             turn : 0..MaxEpoch, response : 0..MaxEpoch,
             active : BOOLEAN, committed : BOOLEAN, uplink_ended : BOOLEAN,
             uplink : 0..MaxFrames, audio_started : BOOLEAN, audio_ended : BOOLEAN,
             downlink : 0..MaxAudio, response_done : BOOLEAN,
             cancel_sent : BOOLEAN, discard : BOOLEAN]
  /\ c2s \in Seq(Uplink) /\ Len(c2s) <= SendCap + 1
  /\ s2c \in Seq(Downlink)
  /\ events \in Seq(Events) /\ Len(events) <= EventCap
  /\ overflow \in BOOLEAN
  /\ cut \in SUBSET Epochs

TransportInit ==
  /\ tr = NoTransport /\ c2s = <<>> /\ s2c = <<>>
  /\ events = <<>> /\ overflow = FALSE /\ cut = {}

-----------------------------------------------------------------------------
(* Send, SendText and SendPcm: whether a call is accepted, and what it does*)
(* then.                                                                   *)

Room == Len(c2s) < SendCap

MayHello == tr.conn = "open" /\ Room
MayTurnStart(id) == tr.conn = "open" /\ Room /\ ~tr.active /\ tr.session /\ id > tr.turn
MayCommit(id) ==
  /\ tr.conn = "open" /\ Room
  /\ tr.active /\ ~tr.committed /\ tr.uplink_ended /\ id = tr.turn

\* A cancel may use the room that PCM may not; response.cancel is answered
\* without sending when one was sent already.
MayTurnCancel(id) == tr.conn = "open" /\ tr.active /\ ~tr.cancel_sent /\ id = tr.turn

MayResponseCancel(id) ==
  /\ id = tr.turn
  /\ tr.active \/ (tr.response_done /\ tr.response = id)
  /\ tr.cancel_sent \/ tr.conn = "open"

SendHello ==
  /\ c2s' = Append(c2s, Message("hello", 0))
  /\ UNCHANGED tr

MutSendTurnStart(id) ==
  /\ c2s' = Append(c2s, Message("turn.start", id))
  /\ tr' = [NoTransport EXCEPT !.conn = "open", !.session = TRUE, !.turn = id,
                               !.active = TRUE, !.uplink = tr.uplink]

SendTurnStart(id) ==
  /\ c2s' = Append(c2s, Message("turn.start", id))
  /\ tr' = [NoTransport EXCEPT !.conn = "open", !.session = TRUE,
                               !.turn = id, !.active = TRUE]

SendCommit(id) ==
  /\ c2s' = Append(c2s, Message("turn.commit", id))
  /\ tr' = [tr EXCEPT !.committed = TRUE]

SendCancel(id) ==
  IF tr.cancel_sent THEN UNCHANGED <<tr, c2s, cut>>
  ELSE /\ c2s' = Append(c2s, Message("cancel", id))
       /\ tr' = [tr EXCEPT !.cancel_sent = TRUE]
       /\ cut' = cut \cup {id}

\* SendPcm: kRejected, kBackpressure or kOk. The frame is numbered seq by the
\* application.
PcmValid(id, seq) ==
  /\ tr.conn = "open" /\ tr.active /\ ~tr.committed /\ ~tr.uplink_ended
  /\ id = tr.turn /\ seq = tr.uplink
PcmOutcome(id, seq) ==
  IF ~PcmValid(id, seq) THEN "rejected" ELSE IF Room THEN "ok" ELSE "backpressure"

SendPcm(id, seq, end) ==
  /\ c2s' = Append(c2s, Pcm(id, seq, (IF seq = 0 THEN {"START"} ELSE {})
                                     \cup (IF end THEN {"END"} ELSE {})))
  /\ tr' = [tr EXCEPT !.uplink = @ + 1, !.uplink_ended = end]

-----------------------------------------------------------------------------
(* OnText and OnBinary. A message is dropped, kept without an event, handed*)
(* to the application, or a protocol error.                                *)

Drop == [do |-> "drop", tr |-> tr, event |-> Message("error", 0)]
Bad == [Drop EXCEPT !.do = "bad"]
Keep(next) == [Drop EXCEPT !.tr = next]
Emit(next, event) == [do |-> "emit", tr |-> next, event |-> event]

EpochOf(m) == IF m.id = 0 THEN 1 ELSE m.id

IsStale(m) ==
  \/ EpochOf(m) < tr.turn
  \/ tr.response # 0 /\ m.id = tr.response /\ ~tr.active

Discarding(m) == tr.response # 0 /\ m.id = tr.response /\ (tr.cancel_sent \/ tr.discard)

OnHelloAck(m) == IF tr.session THEN Bad ELSE Emit([tr EXCEPT !.session = TRUE], m)

\* The answer to a turn already cut is followed but never shown.
OnResponseStart(m) ==
  IF IsStale(m) THEN Drop
  ELSE IF ~tr.active \/ ~tr.committed \/ tr.response # 0 \/ m.id # tr.turn THEN Bad
  ELSE LET started == [tr EXCEPT !.response = m.id, !.discard = tr.cancel_sent]
       IN IF tr.cancel_sent THEN Keep(started) ELSE Emit(started, m)

MutOnCancelled(m) ==
  IF ~tr.cancel_sent \/ m.id # tr.turn THEN Bad
  ELSE Emit([tr EXCEPT !.response_done = FALSE, !.cancel_sent = FALSE, !.discard = FALSE], m)

\* The acknowledgement of a cancel may come after response.done.
OnCancelled(m) ==
  IF (~tr.active /\ ~tr.response_done) \/ ~tr.cancel_sent \/ m.id # tr.turn THEN Bad
  ELSE Emit([tr EXCEPT !.active = FALSE, !.response_done = FALSE,
                       !.cancel_sent = FALSE, !.discard = FALSE], m)

MutOnError(m) ==
  IF IsStale(m) THEN Drop
  ELSE IF m.id = 0 THEN Emit(tr, m)
  ELSE IF ~tr.active \/ m.id # tr.turn THEN Bad
  ELSE Emit(tr, m)

OnError(m) ==
  IF IsStale(m) THEN Drop
  ELSE IF m.id = 0 THEN Emit(tr, m)
  ELSE IF ~tr.active \/ m.id # tr.turn THEN Bad
  ELSE Emit([tr EXCEPT !.active = FALSE], m)

InResponse(m) == tr.active /\ tr.response # 0 /\ m.id = tr.response

OnAudioStart(m) ==
  IF IsStale(m) THEN Drop
  ELSE IF ~InResponse(m) THEN Bad
  ELSE IF Discarding(m) THEN Drop
  ELSE IF tr.audio_started THEN Bad
  ELSE Emit([tr EXCEPT !.audio_started = TRUE], m)

MutOnDone(m) ==
  IF IsStale(m) THEN Drop
  ELSE IF ~InResponse(m) \/ (tr.audio_started /\ ~tr.audio_ended) THEN Bad
  ELSE Emit([tr EXCEPT !.active = FALSE, !.response_done = TRUE,
                       !.discard = tr.cancel_sent /\ tr.discard], m)

OnDone(m) ==
  IF IsStale(m) THEN Drop
  ELSE IF ~InResponse(m) \/ (tr.audio_started /\ ~tr.audio_ended /\ ~Discarding(m)) THEN Bad
  ELSE Emit([tr EXCEPT !.active = FALSE, !.response_done = TRUE,
                       !.discard = tr.cancel_sent /\ tr.discard], m)

\* A gap fences the answer and is reported instead of the packet.
OnBinary(m) ==
  IF IsStale(m) \/ Discarding(m) THEN Drop
  ELSE IF \/ ~tr.audio_started \/ tr.audio_ended \/ m.id # tr.response
          \/ m.seq # tr.downlink \/ (m.seq = 0) # ("START" \in m.flags) THEN Bad
  ELSE IF "GAP" \in m.flags THEN Emit([tr EXCEPT !.discard = TRUE], Message("gap", m.id))
  ELSE Emit([tr EXCEPT !.downlink = @ + 1, !.audio_ended = "END" \in m.flags], m)

OnMessage(m) ==
  CASE m.type = "hello.ack"      -> OnHelloAck(m)
    [] m.type = "response.start" -> OnResponseStart(m)
    [] m.type = "cancelled"      -> OnCancelled(m)
    [] m.type = "error"          -> OnError(m)
    [] m.type = "audio_start"    -> OnAudioStart(m)
    [] m.type = "done"           -> OnDone(m)
    [] m.type = "pcm"            -> OnBinary(m)

MutPushUnbounded(event) == events' = Append(events, event) /\ UNCHANGED overflow

MutPushSilently(event) ==
  /\ events' = IF Len(events) = EventCap THEN events ELSE Append(events, event)
  /\ UNCHANGED overflow

\* EventQueue::Push. A full queue loses the event and says so.
Push(event) ==
  IF Len(events) = EventCap
  THEN overflow' = TRUE /\ UNCHANGED events
  ELSE events' = Append(events, event) /\ UNCHANGED overflow

\* Fail and ProtocolError: no more messages, and the application is told.
Failing == tr' = [tr EXCEPT !.conn = "failed"] /\ Push(Message("transport", 0))

Deliver ==
  LET seen == OnMessage(Head(s2c))
  IN /\ tr.conn = "open" /\ s2c # <<>>
     /\ s2c' = Tail(s2c)
     /\ \/ seen.do = "bad" /\ Failing
        \/ seen.do = "drop" /\ tr' = seen.tr /\ UNCHANGED <<events, overflow>>
        \/ seen.do = "emit" /\ tr' = seen.tr /\ Push(seen.event)
     /\ cut' = IF seen.do = "emit" /\ seen.event.type = "error"
               THEN cut \cup ({seen.event.id} \ {0}) ELSE cut
     /\ UNCHANGED c2s

\* The handshake fails, or the established connection breaks or is closed.
ConnectionFails ==
  /\ tr.conn \in {"opening", "open"}
  /\ Failing
  /\ UNCHANGED <<c2s, s2c, cut>>
=============================================================================
